---------------------------- MODULE StoreGCProofs ----------------------------
(***************************************************************************)
(* Proofs about StoreGC, for any processes, paths, references, calls and   *)
(* bounds.                                                                 *)
(***************************************************************************)
EXTENDS StoreGC, FiniteSetTheorems, SequenceTheorems, TLAPS

LEMMA IdleType == Idle \in Job
BY DEF Idle, Job, NoPath

LEMMA NoCollectionType == NoCollection \in Collection
<1>1. [p \in {} |-> {}] \in [{} -> SUBSET Paths]
  OBVIOUS
<1>2. [p \in {} |-> {}] \in CachedReferrers
  BY <1>1 DEF CachedReferrers
<1>3. <<>> \in Seq(Paths) /\ <<>> \in OpenFile
  BY DEF OpenFile
<1> QED
  BY <1>2, <1>3 DEF NoCollection, Collection, NoPath

LEMMA InitType == Init => TypeOK
<1> SUFFICES ASSUME Init PROVE TypeOK
  OBVIOUS
<1>1. <<>> \in Seq([roots : SUBSET Paths, marked : BOOLEAN])
  OBVIOUS
<1>2. gc = NoCollection /\ gc.file = <<>>
  BY DEF Init, NoCollection
<1>3. StoreType
  BY DEF Init, StoreType
<1>4. FileType
  BY <1>1, <1>2 DEF Init, FileType, NoFile
<1>5. ProcType /\ job \in [Clients -> Job]
  BY IdleType DEF Init, ProcType
<1>6. CollectorType
  BY <1>2, NoCollectionType DEF Init, CollectorType
<1>7. CountType
  BY StoreAssumption DEF Init, CountType
<1> QED
  BY <1>3, <1>4, <1>5, <1>6, <1>7 DEF TypeOK

LEMMA UnlockedType ==
  ASSUME StoreType, NEW c \in Clients
  PROVE  Unlocked(c) \in [Paths -> Clients \cup {NoClient}]
BY DEF Unlocked, StoreType

(* The types of a process's steps, part by part.                           *)
LEMMA ClientJob ==
  ASSUME TypeOK, ProcInv, NEW c \in Clients, Client(c) PROVE job' \in [Clients -> Job]
<1> USE DEF TypeOK
<1>1. ASSUME NEW j \in Jobs, Call(c, j) PROVE job' \in [Clients -> Job]
  <2>1. j.paths \subseteq Paths /\ j.kind \in Kinds
    BY StoreAssumption
  <2>2. ASSUME NEW p \in j.paths
        PROVE  [Idle EXCEPT !.kind = j.kind, !.cur = p, !.todo = j.paths \ {p}] \in Job
    BY <2>1, <2>2 DEF Idle, Job, NoPath
  <2> QED
    BY <1>1, <2>2 DEF Call
<1>2. CASE CheckValid(c)
  <2> DEFINE need == job[c].need \cup IF job[c].cur \in valid THEN {} ELSE {job[c].cur}
  <2>1. need \subseteq Paths /\ job[c] \in Job /\ pc[c] = "check"
    BY <1>2 DEF CheckValid, Job, ProcInv
  <2>2. \A q \in job[c].todo : [job[c] EXCEPT !.cur = q, !.todo = @ \ {q}, !.need = need] \in Job
    BY <2>1 DEF Job
  <2>3. [job[c] EXCEPT !.cur = NoPath, !.need = need] \in Job
    BY <2>1 DEF Job
  <2>4. \/ \E q \in job[c].todo :
             job' = [job EXCEPT ![c] = [job[c] EXCEPT !.cur = q, !.todo = @ \ {q}, !.need = need]]
        \/ job' = [job EXCEPT ![c] = [job[c] EXCEPT !.cur = NoPath, !.need = need]]
        \/ job' = [job EXCEPT ![c] = Idle]
    <3>1. \/ \E q \in job[c].todo :
                 job' = [job EXCEPT ![c].cur = q, ![c].todo = @ \ {q}, ![c].need = need]
          \/ job' = [job EXCEPT ![c].cur = NoPath, ![c].need = need]
          \/ job' = [job EXCEPT ![c] = Idle]
      BY <1>2 DEF CheckValid
    <3> HIDE DEF need
    <3>2. ASSUME NEW q, job' = [job EXCEPT ![c].cur = q, ![c].todo = @ \ {q}, ![c].need = need]
          PROVE  job' = [job EXCEPT ![c] = [job[c] EXCEPT !.cur = q, !.todo = @ \ {q}, !.need = need]]
      BY <2>1, <3>2 DEF Job
    <3>3. ASSUME job' = [job EXCEPT ![c].cur = NoPath, ![c].need = need]
          PROVE  job' = [job EXCEPT ![c] = [job[c] EXCEPT !.cur = NoPath, !.need = need]]
      BY <2>1, <3>3 DEF Job
    <3> QED
      BY <3>1, <3>2, <3>3
  <2> HIDE DEF need
  <2> QED
    BY <2>2, <2>3, <2>4, IdleType
<1>3. ASSUME NEW p \in Paths,
             LockPath(c, p) \/ Reuse(c, p) \/ StartUnpack(c, p) \/ EndUnpack(c, p) \/ WriteMarker(c, p)
      PROVE  job' \in [Clients -> Job]
  BY <1>3 DEF LockPath, Reuse, StartUnpack, EndUnpack, WriteMarker, Job
<1>4. CASE Recheck(c) \/ Register(c)
  BY <1>4, IdleType DEF Recheck, Register, Job
<1>5. CASE Return(c) \/ FailUnpack(c) \/ Die(c) \/ AddPermRoot(c)
  BY <1>5, IdleType DEF Return, FailUnpack, Die, AddPermRoot
<1>6. CASE CreateTempRootsFile(c) \/ LockTempRootsFile(c) \/ TryGCLock(c) \/ Connect(c)
           \/ ServerInsert(c) \/ ServerAck(c) \/ Disconnected(c) \/ WriteTempRoot(c)
  BY <1>6 DEF CreateTempRootsFile, LockTempRootsFile, TryGCLock, Connect, ServerInsert, ServerAck,
              Disconnected, WriteTempRoot
<1> QED
  BY <1>1, <1>2, <1>3, <1>4, <1>5, <1>6 DEF Client

LEMMA ClientStore ==
  ASSUME TypeOK, ProcInv, NEW c \in Clients, Client(c) PROVE StoreType'
<1> USE DEF TypeOK, storeVars
<1>1. CASE AddPermRoot(c)
  BY <1>1 DEF AddPermRoot, ProcInv, StoreType
<1>2. ASSUME NEW p \in Paths, LockPath(c, p) PROVE StoreType'
  BY <1>2 DEF LockPath, StoreType
<1>3. ASSUME NEW p \in Paths, StartUnpack(c, p) \/ EndUnpack(c, p) \/ WriteMarker(c, p)
      PROVE  StoreType'
  BY <1>3 DEF StartUnpack, EndUnpack, WriteMarker, StoreType
<1>4. CASE Recheck(c) \/ Return(c) \/ FailUnpack(c) \/ Die(c)
  BY <1>4, UnlockedType DEF Recheck, Return, FailUnpack, Die, StoreType
<1>5. CASE Register(c)
  BY <1>5, UnlockedType DEF Register, StoreType, Job
<1>6. CASE CreateTempRootsFile(c) \/ LockTempRootsFile(c) \/ TryGCLock(c) \/ Connect(c)
           \/ ServerInsert(c) \/ ServerAck(c) \/ Disconnected(c) \/ WriteTempRoot(c) \/ CheckValid(c)
  BY <1>6 DEF CreateTempRootsFile, LockTempRootsFile, TryGCLock, Connect, ServerInsert, ServerAck,
              Disconnected, WriteTempRoot, CheckValid, StoreType
<1>7. ASSUME NEW j, Call(c, j) PROVE StoreType'
  BY <1>7 DEF Call, StoreType
<1>8. ASSUME NEW p, Reuse(c, p) PROVE StoreType'
  BY <1>8 DEF Reuse, StoreType
<1> QED
  BY <1>1, <1>2, <1>3, <1>4, <1>5, <1>6, <1>7, <1>8 DEF Client

Node == [roots : SUBSET Paths, marked : BOOLEAN]

LEMMA FileFrame ==
  ASSUME FileType, UNCHANGED <<node, link, fd>> PROVE FileType'
BY DEF FileType

LEMMA AppendFacts ==
  ASSUME NEW s \in Seq(Node), NEW n \in Node
  PROVE  /\ Append(s, n) \in Seq(Node) /\ Len(Append(s, n)) = Len(s) + 1
         /\ \A i \in 1..Len(s) : Append(s, n)[i] = s[i]
         /\ Append(s, n)[Len(s) + 1] = n
BY DEF Node

LEMMA ClientFile ==
  ASSUME TypeOK, ProcInv, NEW c \in Clients, Client(c) PROVE FileType'
<1> USE DEF TypeOK, fileVars
<1>1. CASE CreateTempRootsFile(c)
  <2> DEFINE i == Len(node[c]) + 1
             new == Append(node[c], [roots |-> {}, marked |-> FALSE])
  <2>1. node[c] \in Seq(Node) /\ [roots |-> {}, marked |-> FALSE] \in Node
    BY DEF FileType, Node
  <2>2. new \in Seq(Node) /\ Len(new) = i
    BY <2>1, AppendFacts
  <2>3. i \in Inodes /\ i \in Nat
    BY <1>1, <2>1, StoreAssumption DEF CreateTempRootsFile, Inodes
  <2>4. /\ node' = [node EXCEPT ![c] = new]
        /\ link' = [link EXCEPT ![c] = i] /\ fd' = [fd EXCEPT ![c] = i]
    BY <1>1 DEF CreateTempRootsFile
  <2> HIDE DEF new, i
  <2>5. node' \in [Clients -> Seq(Node)]
    BY <2>2, <2>4 DEF FileType, Node
  <2>6. {link', fd'} \subseteq [Clients -> Inodes \cup {NoFile}]
    BY <2>3, <2>4 DEF FileType
  <2>7. \A d \in Clients : {fd'[d], link'[d]} \subseteq {NoFile} \cup 1..Len(node'[d])
    <3>1. i \in 1..Len(new)
      BY <2>2, <2>3 DEF Inodes
    <3> QED
      BY <3>1, <2>4 DEF FileType
  <2> QED
    BY <2>5, <2>6, <2>7 DEF FileType, Node
<1>2. CASE WriteTempRoot(c)
  <2>1. fd[c] \in 1..Len(node[c]) /\ job[c].cur \in Paths /\ node[c] \in Seq(Node)
    BY <1>2 DEF WriteTempRoot, ProcInv, FileType, Node
  <2> DEFINE file == [node[c][fd[c]] EXCEPT !.roots = @ \cup {job[c].cur}]
             new == [node[c] EXCEPT ![fd[c]] = file]
  <2> DEFINE old == node[c][fd[c]]
  <2>2. file \in Node
    <3>1. old \in Node
      BY <2>1
    <3> HIDE DEF old
    <3>2. [old EXCEPT !.roots = @ \cup {job[c].cur}] \in Node
      BY <2>1, <3>1 DEF Node
    <3> QED
      BY <3>2 DEF old
  <2>3. node' = [node EXCEPT ![c] = new] /\ UNCHANGED <<link, fd>>
    BY <1>2 DEF WriteTempRoot
  <2> HIDE DEF file
  <2>4. new \in Seq(Node) /\ Len(new) = Len(node[c])
    BY <2>1, <2>2, ExceptSeq
  <2> HIDE DEF new
  <2> QED
    BY <2>3, <2>4 DEF FileType, Node
<1>3. CASE LockTempRootsFile(c) \/ Die(c)
  <2>1. UNCHANGED <<node, link>> /\ (fd' = fd \/ fd' = [fd EXCEPT ![c] = NoFile])
    BY <1>3 DEF LockTempRootsFile, Die
  <2> QED
    BY <2>1 DEF FileType
<1>4. CASE TryGCLock(c) \/ Connect(c) \/ ServerInsert(c) \/ ServerAck(c) \/ Disconnected(c)
           \/ CheckValid(c) \/ AddPermRoot(c) \/ Recheck(c) \/ Register(c) \/ Return(c) \/ FailUnpack(c)
  <2>1. UNCHANGED <<node, link, fd>>
    BY <1>4 DEF TryGCLock, Connect, ServerInsert, ServerAck, Disconnected, CheckValid, AddPermRoot,
                Recheck, Register, Return, FailUnpack
  <2> QED
    BY <2>1, FileFrame
<1>5. ASSUME NEW j, Call(c, j) PROVE FileType'
  BY <1>5, FileFrame DEF Call
<1>6. ASSUME NEW p,
             LockPath(c, p) \/ Reuse(c, p) \/ StartUnpack(c, p) \/ EndUnpack(c, p) \/ WriteMarker(c, p)
      PROVE  FileType'
  <2>1. UNCHANGED <<node, link, fd>>
    BY <1>6 DEF LockPath, Reuse, StartUnpack, EndUnpack, WriteMarker
  <2> QED
    BY <2>1, FileFrame
<1> QED
  BY <1>1, <1>2, <1>3, <1>4, <1>5, <1>6 DEF Client

LEMMA ClientProc ==
  ASSUME TypeOK, ProcInv, NEW c \in Clients, Client(c) PROVE ProcType'
<1> USE DEF TypeOK, ProcType
<1>1. CASE CreateTempRootsFile(c) \/ LockTempRootsFile(c) \/ TryGCLock(c) \/ Connect(c)
           \/ ServerInsert(c) \/ ServerAck(c) \/ Disconnected(c) \/ WriteTempRoot(c)
  BY <1>1 DEF CreateTempRootsFile, LockTempRootsFile, TryGCLock, Connect, ServerInsert, ServerAck,
              Disconnected, WriteTempRoot
<1>2. CASE CheckValid(c) \/ AddPermRoot(c)
  <2>1. \E next \in {"root", "lock", "idle"} : pc' = [pc EXCEPT ![c] = next]
    BY <1>2 DEF CheckValid, AddPermRoot
  <2>2. rely' = rely \/ rely' = [rely EXCEPT ![c] = @ \cup ({job[c].cur} \cap valid)]
    BY <1>2 DEF CheckValid, AddPermRoot
  <2>3. UNCHANGED <<conn, shared>>
    BY <1>2 DEF CheckValid, AddPermRoot
  <2> QED
    BY <2>1, <2>2, <2>3 DEF StoreType
<1>3. CASE Recheck(c) \/ Register(c)
  <2>1. CASE Recheck(c)
    BY <2>1 DEF Recheck, StoreType, Job
  <2>2. CASE Register(c)
    <3>1. job[c].need \subseteq Paths
      BY DEF Job
    <3>2. \E next \in {"unmark", "idle"} : pc' = [pc EXCEPT ![c] = next]
      BY <2>2 DEF Register
    <3>3. rely' = rely \/ rely' = [rely EXCEPT ![c] = @ \cup job[c].need]
      BY <2>2 DEF Register
    <3>4. UNCHANGED <<conn, shared>>
      BY <2>2 DEF Register
    <3> QED
      BY <3>1, <3>2, <3>3, <3>4
  <2> QED
    BY <1>3, <2>1, <2>2
<1>4. CASE Return(c) \/ FailUnpack(c) \/ Die(c)
  BY <1>4 DEF Return, FailUnpack, Die
<1>5. ASSUME NEW j, Call(c, j) PROVE ProcType'
  BY <1>5 DEF Call
<1>6. ASSUME NEW p,
             LockPath(c, p) \/ Reuse(c, p) \/ StartUnpack(c, p) \/ EndUnpack(c, p) \/ WriteMarker(c, p)
      PROVE  ProcType'
  BY <1>6 DEF LockPath, Reuse, StartUnpack, EndUnpack, WriteMarker
<1> QED
  BY <1>1, <1>2, <1>3, <1>4, <1>5, <1>6 DEF Client

LEMMA ClientOther ==
  ASSUME TypeOK, ProcInv, NEW c \in Clients, Client(c) PROVE CollectorType' /\ CountType' /\ gc' = gc
<1> USE DEF TypeOK, CollectorType, CountType, gcVars
<1>1. CASE CreateTempRootsFile(c) \/ LockTempRootsFile(c) \/ TryGCLock(c) \/ Connect(c)
           \/ ServerAck(c) \/ Disconnected(c) \/ WriteTempRoot(c) \/ CheckValid(c) \/ AddPermRoot(c)
           \/ Recheck(c) \/ Register(c) \/ Return(c)
  <2>1. UNCHANGED <<gcVars, calls, faults>>
    BY <1>1 DEF CreateTempRootsFile, LockTempRootsFile, TryGCLock, Connect, ServerAck,
                Disconnected, WriteTempRoot, CheckValid, AddPermRoot, Recheck, Register, Return
  <2> QED
    BY <2>1
<1>2. CASE ServerInsert(c)
  BY <1>2 DEF ServerInsert, ProcInv
<1>3. CASE FailUnpack(c) \/ Die(c)
  <2>1. UNCHANGED <<gcVars, calls>> /\ faults < MaxFaults /\ faults' = faults + 1
    BY <1>3 DEF FailUnpack, Die
  <2> QED
    BY <2>1, StoreAssumption
<1>4. ASSUME NEW j, Call(c, j) PROVE CollectorType' /\ CountType' /\ gc' = gc
  BY <1>4, StoreAssumption DEF Call
<1>5. ASSUME NEW p,
             LockPath(c, p) \/ Reuse(c, p) \/ StartUnpack(c, p) \/ EndUnpack(c, p) \/ WriteMarker(c, p)
      PROVE  CollectorType' /\ CountType' /\ gc' = gc
  BY <1>5 DEF LockPath, Reuse, StartUnpack, EndUnpack, WriteMarker
<1> QED
  BY <1>1, <1>2, <1>3, <1>4, <1>5 DEF Client

LEMMA ClientType ==
  ASSUME TypeOK, ProcInv, NEW c \in Clients, Client(c) PROVE TypeOK'
BY ClientJob, ClientStore, ClientFile, ClientProc, ClientOther DEF TypeOK

(* The collector's steps.                                                  *)
LEMMA MarkAliveType == ASSUME NEW p \in Paths PROVE MarkAlive(p) \subseteq Paths
BY DEF MarkAlive, Closure

LEMMA OrdersType ==
  ASSUME NEW S \in SUBSET Paths, NEW s \in Orders(S)
  PROVE  s \in Seq(Paths) /\ \A i \in 1..Len(s) : s[i] \in S
<1>1. Cardinality(S) \in Nat
  BY StoreAssumption, FS_Subset, FS_CardinalityType
<1>2. s \in [1..Cardinality(S) -> S]
  BY DEF Orders
<1> QED
  BY <1>1, <1>2

LEMMA CollectorGC ==
  ASSUME TypeOK, SweepInv, Collector PROVE CollectorType'
<1> USE DEF TypeOK, CollectorType
<1>0. gc \in Collection /\ NoPath \in Paths \cup {NoPath}
  OBVIOUS
<1>1. CASE GCLock \/ GCListen \/ FindRootsNoTemp
  <2>1. /\ [gc EXCEPT !.pc = "listen"] \in Collection
        /\ [gc EXCEPT !.pc = "roots"] \in Collection
    BY <1>0 DEF Collection
  <2>2. [gc EXCEPT !.pc = "scan", !.roots = perm \cap valid,
                   !.files = {c \in Clients : link[c] # NoFile}] \in Collection
    BY <1>0 DEF Collection, StoreType
  <2> QED
    BY <1>1, <2>1, <2>2 DEF GCLock, GCListen, FindRootsNoTemp
<1>2. ASSUME NEW c \in Clients, OpenTempRoots(c) PROVE CollectorType'
  <2>1. {<<>>, <<c, link[c]>>} \subseteq OpenFile \/ link[c] = NoFile
    BY DEF OpenFile, FileType
  <2>2. <<>> \in OpenFile
    BY DEF OpenFile
  <2> QED
    BY <1>2, <2>1, <2>2 DEF OpenTempRoots, Collection
<1>3. CASE ReadTempRoots
  <2> DEFINE c == gc.file[1]
             i == gc.file[2]
  <2>1. c \in Clients /\ i \in 1..Len(node[c]) /\ node[c] \in Seq(Node)
    BY <1>3 DEF ReadTempRoots, Collection, OpenFile, SweepInv, FileType, Node
  <2>2. node[c][i].roots \subseteq Paths
    <3>1. node[c][i] \in Node
      BY <2>1
    <3> QED
      BY <3>1 DEF Node
  <2>3. temp' = temp \/ temp' = temp \cup node[c][i].roots
    BY <1>3 DEF ReadTempRoots
  <2> HIDE DEF c, i
  <2>4. gc' \in Collection
    BY <1>3 DEF ReadTempRoots, Collection, OpenFile
  <2> QED
    BY <1>3, <2>2, <2>3, <2>4 DEF ReadTempRoots
<1>4. CASE OpenStoreDir
  BY <1>4 DEF OpenStoreDir, Collection
<1>5. ASSUME NEW p \in Paths, SweepEntry(p) PROVE CollectorType'
  BY <1>5 DEF SweepEntry, Collection
<1>6. ASSUME NEW p \in Paths, Visit(p) PROVE CollectorType'
  <2>1. ASSUME NEW alive \in SUBSET Paths, BailOut(alive) PROVE gc' \in Collection /\ pending' = NoPath
    <3>1. gc.alive \subseteq Paths /\ gc.start \in Paths
      BY <1>0, <1>6 DEF Collection, SweepInv, Visit
    <3> DEFINE A == gc.alive \cup {gc.start} \cup alive
    <3>2. gc' = [gc EXCEPT !.pc = "sweep", !.todo = {}, !.visited = {}, !.start = NoPath, !.alive = A]
      BY <2>1 DEF BailOut
    <3> HIDE DEF A
    <3>3. gc' \in Collection
      <4>1. A \subseteq Paths
        BY <3>1 DEF A
      <4> QED
        BY <1>0, <3>2, <4>1 DEF Collection
    <3> QED
      BY <2>1, <3>3 DEF BailOut
  <2>2. \/ \E alive \in SUBSET Paths : BailOut(alive)
        \/ gc' = [gc EXCEPT !.todo = @ \ {p}] /\ pending' = pending
        \/ pending' = p /\ gc' = [gc EXCEPT !.pc = "expand", !.todo = @ \ {p}, !.cur = p]
    BY <1>6, MarkAliveType DEF Visit
  <2>3. UNCHANGED <<temp, listening>>
    BY <1>6 DEF Visit
  <2>4. /\ [gc EXCEPT !.todo = @ \ {p}] \in Collection
        /\ [gc EXCEPT !.pc = "expand", !.todo = @ \ {p}, !.cur = p] \in Collection
    BY <1>0 DEF Collection
  <2>5. gc' \in Collection /\ pending' \in Paths \cup {NoPath}
    BY <2>1, <2>2, <2>4
  <2> QED
    BY <2>3, <2>5
<1>7. CASE Expand
  <2> DEFINE p == gc.cur
             referrers == IF p \in DOMAIN gc.cache THEN gc.cache[p] ELSE Referrers(p)
             cache == [q \in DOMAIN gc.cache \cup {p} |-> IF q = p THEN referrers ELSE gc.cache[q]]
  <2>1. p \in Paths
    BY <1>7 DEF Expand, SweepInv
  <2>2. PICK D \in SUBSET Paths : gc.cache \in [D -> SUBSET Paths]
    BY DEF Collection, CachedReferrers
  <2>3. Referrers(p) \subseteq Paths
    BY DEF Referrers, StoreType
  <2>4. referrers \subseteq Paths
    BY <2>2, <2>3
  <2>5. cache \in [D \cup {p} -> SUBSET Paths]
    <3>1. DOMAIN gc.cache = D /\ \A q \in D : gc.cache[q] \in SUBSET Paths
      BY <2>2
    <3> HIDE DEF referrers
    <3> QED
      BY <2>4, <3>1
  <2>6. cache \in CachedReferrers
    <3>1. D \cup {p} \in SUBSET Paths
      BY <2>1, <2>2
    <3> HIDE DEF cache
    <3> QED
      BY <2>5, <3>1 DEF CachedReferrers
  <2>7. \/ gc' = [gc EXCEPT !.pc = "visit", !.cur = NoPath, !.todo = @ \cup (referrers \ gc.visited),
                            !.visited = @ \cup referrers, !.cache = cache]
        \/ gc' = [gc EXCEPT !.pc = "visit", !.cur = NoPath]
    BY <1>7 DEF Expand
  <2>8. UNCHANGED <<temp, pending, listening>>
    BY <1>7 DEF Expand
  <2> HIDE DEF p, referrers, cache
  <2>9. [gc EXCEPT !.pc = "visit", !.cur = NoPath] \in Collection
    BY <1>0 DEF Collection
  <2>10. [gc EXCEPT !.pc = "visit", !.cur = NoPath, !.todo = @ \cup (referrers \ gc.visited),
                    !.visited = @ \cup referrers, !.cache = cache] \in Collection
    BY <1>0, <2>4, <2>6 DEF Collection
  <2> QED
    BY <2>7, <2>8, <2>9, <2>10
<1>8. CASE TopoSort
  <2>1. PICK o \in Orders(gc.visited) :
          gc' = [gc EXCEPT !.pc = "delete", !.order = o, !.visited = {}, !.start = NoPath]
    BY <1>8 DEF TopoSort
  <2>2. o \in Seq(Paths)
    BY <1>0, OrdersType DEF Collection
  <2>3. gc' \in Collection
    BY <1>0, <2>1, <2>2 DEF Collection
  <2> QED
    BY <1>8, <2>3 DEF TopoSort
<1>9. CASE DeleteNext
  <2>1. gc.order \in Seq(Paths) /\ gc.order # <<>>
    BY <1>9 DEF DeleteNext, Collection
  <2>2. Head(gc.order) \in Paths /\ Tail(gc.order) \in Seq(Paths)
    BY <2>1
  <2> DEFINE p == Head(gc.order)
             rest == [gc EXCEPT !.order = Tail(@), !.dead = @ \cup {p}]
  <2>3. rest \in Collection
    BY <2>2 DEF Collection
  <2>4. \/ gc' = rest /\ UNCHANGED pending
        \/ gc' = [rest EXCEPT !.alive = @ \cup MarkAlive(p)] /\ UNCHANGED pending
        \/ gc' = [rest EXCEPT !.pc = "invalidate", !.cur = p] /\ pending' = p
    BY <1>9 DEF DeleteNext
  <2>5. MarkAlive(p) \subseteq Paths
    BY <2>2, MarkAliveType
  <2> HIDE DEF p, rest
  <2>6. [rest EXCEPT !.alive = @ \cup MarkAlive(p)] \in Collection
    BY <2>3, <2>5 DEF Collection
  <2>7. [rest EXCEPT !.pc = "invalidate", !.cur = p] \in Collection
    BY <2>2, <2>3 DEF Collection, p
  <2>8. gc' \in Collection /\ pending' \in Paths \cup {NoPath}
    BY <2>2, <2>3, <2>4, <2>6, <2>7 DEF p
  <2> QED
    BY <1>9, <2>8 DEF DeleteNext
<1>10. CASE InvalidatePathChecked \/ DeleteMarker \/ DeleteSome \/ EndEntry
  <2>1. /\ [gc EXCEPT !.pc = "delete", !.cur = NoPath] \in Collection
        /\ [gc EXCEPT !.pc = "unmark"] \in Collection
        /\ [gc EXCEPT !.pc = "unlink"] \in Collection
        /\ [gc EXCEPT !.pc = "sweep"] \in Collection
    BY <1>0 DEF Collection
  <2> QED
    BY <1>0, <1>10, <2>1 DEF InvalidatePathChecked, DeleteMarker, DeleteSome, EndEntry, gcVars
<1>11. CASE DeleteRest
  <2> DEFINE cache == [q \in DOMAIN gc.cache \ {gc.cur} |-> gc.cache[q]]
  <2>1. PICK D \in SUBSET Paths : gc.cache \in [D -> SUBSET Paths]
    BY DEF Collection, CachedReferrers
  <2>2. cache \in [D \ {gc.cur} -> SUBSET Paths]
    BY <2>1
  <2>3. cache \in CachedReferrers
    BY <2>2 DEF CachedReferrers
  <2>4. \E next \in {"delete", "stop"} :
          gc' = [gc EXCEPT !.pc = next, !.cur = NoPath, !.cache = cache]
    BY <1>11 DEF DeleteRest
  <2> HIDE DEF cache
  <2>5. \A next \in {"delete", "stop"} :
          [gc EXCEPT !.pc = next, !.cur = NoPath, !.cache = cache] \in Collection
    BY <1>0, <2>3 DEF Collection
  <2>6. gc' \in Collection
    BY <2>4, <2>5
  <2> QED
    BY <1>11, <2>6 DEF DeleteRest
<1>12. CASE StopServer \/ GCUnlock \/ GCDie
  <2>1. gc' = NoCollection \/ gc' = [NoCollection EXCEPT !.pc = "unlock"]
    BY <1>12 DEF StopServer, GCUnlock, GCDie
  <2>2. gc' \in Collection
    BY <2>1, NoCollectionType DEF Collection
  <2> QED
    BY <1>12, <2>2 DEF StopServer, GCUnlock, GCDie
<1> QED
  BY <1>1, <1>2, <1>3, <1>4, <1>5, <1>6, <1>7, <1>8, <1>9, <1>10, <1>11, <1>12 DEF Collector

(* Every step of the collector but these leaves the store, the files and   *)
(* the processes alone.                                                    *)
LEMMA CollectorFrame ==
  ASSUME Collector
  PROVE  /\ UNCHANGED <<perm, locks, calls, pc, job, fd, rely, shared>>
         /\ InvalidatePathChecked \/ UNCHANGED valid
         /\ DeleteMarker \/ UNCHANGED marker
         /\ DeleteSome \/ DeleteRest \/ UNCHANGED disk
         /\ ReadTempRoots \/ UNCHANGED <<link, node>>
         /\ StopServer \/ GCDie \/ UNCHANGED conn
         /\ GCLock \/ UNCHANGED collections
         /\ GCDie \/ UNCHANGED faults
<1> USE DEF storeVars, fileVars, clientVars, gcVars
<1>1. CASE GCLock \/ GCListen \/ FindRootsNoTemp \/ ReadTempRoots \/ OpenStoreDir \/ Expand
           \/ TopoSort \/ DeleteNext
  BY <1>1 DEF GCLock, GCListen, FindRootsNoTemp, ReadTempRoots, OpenStoreDir, Expand, TopoSort,
              DeleteNext
<1>2. CASE \/ \E c \in Clients : OpenTempRoots(c)
           \/ \E p \in Paths : SweepEntry(p) \/ Visit(p)
  BY <1>2 DEF OpenTempRoots, SweepEntry, Visit
<1>3. CASE InvalidatePathChecked \/ DeleteMarker \/ DeleteSome \/ DeleteRest \/ EndEntry
           \/ StopServer \/ GCUnlock \/ GCDie
  BY <1>3 DEF InvalidatePathChecked, DeleteMarker, DeleteSome, DeleteRest, EndEntry, StopServer,
              GCUnlock, GCDie
<1> QED
  BY <1>1, <1>2, <1>3 DEF Collector

LEMMA CollectorTypes ==
  ASSUME TypeOK, SweepInv, Collector PROVE TypeOK'
<1>1. CollectorType'
  BY CollectorGC
<1>2. StoreType'
  <2>1. valid' \subseteq valid /\ marker' \subseteq marker
    BY CollectorFrame DEF InvalidatePathChecked, DeleteMarker
  <2>2. disk' \in [Paths -> {"absent", "partial", "whole"}]
    BY CollectorFrame DEF DeleteSome, DeleteRest, TypeOK, StoreType
  <2> QED
    BY <2>1, <2>2, CollectorFrame DEF TypeOK, StoreType
<1>3. FileType'
  <2>1. CASE UNCHANGED <<link, node>>
    BY <2>1, FileFrame, CollectorFrame DEF TypeOK
  <2>2. CASE ReadTempRoots
    <3> DEFINE c == gc.file[1]
               i == gc.file[2]
    <3>1. c \in Clients /\ i \in 1..Len(node[c]) /\ node[c] \in Seq(Node)
      BY <2>2 DEF TypeOK, CollectorType, ReadTempRoots, Collection, OpenFile, SweepInv, FileType, Node
    <3> DEFINE new == [node[c] EXCEPT ![i].marked = TRUE]
               old == node[c][i]
    <3>2. [old EXCEPT !.marked = TRUE] \in Node
      <4>1. old \in Node
        BY <3>1
      <4> HIDE DEF old
      <4> QED
        BY <4>1 DEF Node
    <3>3. new \in Seq(Node) /\ Len(new) = Len(node[c])
      <4> DEFINE v == [old EXCEPT !.marked = TRUE]
      <4>1. new = [node[c] EXCEPT ![i] = v]
        OBVIOUS
      <4> HIDE DEF v, c, i
      <4> QED
        BY <3>1, <3>2, <4>1, ExceptSeq DEF v
    <3>4. UNCHANGED <<link, node>> \/ (link' = [link EXCEPT ![c] = NoFile] /\ node' = [node EXCEPT ![c] = new])
      BY <2>2 DEF ReadTempRoots, fileVars
    <3> HIDE DEF c, i, new
    <3>5. fd' = fd
      BY CollectorFrame
    <3>6. CASE link' = [link EXCEPT ![c] = NoFile] /\ node' = [node EXCEPT ![c] = new]
      <4>1. \A d \in Clients : Len(node'[d]) = Len(node[d]) /\ link'[d] \in {link[d], NoFile}
        BY <3>1, <3>3, <3>6 DEF TypeOK, FileType
      <4>2. /\ node' \in [Clients -> Seq(Node)]
            /\ link' \in [Clients -> Inodes \cup {NoFile}]
        BY <3>1, <3>3, <3>6 DEF TypeOK, FileType, Node
      <4> QED
        BY <3>5, <4>1, <4>2 DEF TypeOK, FileType, Node
    <3> QED
      BY <2>1, <3>4, <3>6
  <2> QED
    BY <2>1, <2>2, CollectorFrame
<1>4. ProcType' /\ job' \in [Clients -> Job]
  <2>1. conn' \in [Clients -> {"none", "open", "closed"}]
    BY CollectorFrame DEF StopServer, GCDie, TypeOK, ProcType
  <2> QED
    BY <2>1, CollectorFrame DEF TypeOK, ProcType
<1>5. CountType'
  <2>1. /\ collections' = collections \/ (collections < MaxCollections /\ collections' = collections + 1)
        /\ faults' = faults \/ (faults < MaxFaults /\ faults' = faults + 1)
    BY CollectorFrame DEF GCLock, GCDie
  <2>2. calls' = calls
    BY CollectorFrame
  <2> QED
    BY <2>1, <2>2, StoreAssumption DEF TypeOK, CountType
<1> QED
  BY <1>1, <1>2, <1>3, <1>4, <1>5 DEF TypeOK

--------------------------------------------------------------------------------
(* The progress of processes.                                              *)

LEMMA InitProc == Init => ProcInv /\ LockInv /\ RootInv /\ ServerInv /\ SweepInv /\ ValidClosed
<1> SUFFICES ASSUME Init PROVE ProcInv /\ LockInv /\ RootInv /\ ServerInv /\ SweepInv /\ ValidClosed
  OBVIOUS
<1>1. ProcInv
  BY DEF Init, ProcInv
<1>2. LockInv
  BY StoreAssumption DEF Init, LockInv, Idle
<1>3. RootInv
  BY DEF Init, RootInv, Idle
<1>4. ServerInv
  BY DEF Init, ServerInv, Collecting, NoCollection
<1>5. SweepInv
  BY DEF Init, SweepInv, NoCollection, Removing
<1>6. ValidClosed
  BY DEF Init, ValidClosed
<1> QED
  BY <1>1, <1>2, <1>3, <1>4, <1>5, <1>6

(* A step of one process changes nothing of another.                       *)
LEMMA ClientAlone ==
  ASSUME TypeOK, NEW c \in Clients, Client(c), NEW d \in Clients, d # c
  PROVE  /\ pc'[d] = pc[d] /\ job'[d] = job[d] /\ fd'[d] = fd[d] /\ link'[d] = link[d]
         /\ node'[d] = node[d] /\ conn'[d] = conn[d] /\ rely'[d] = rely[d]
         /\ d \in shared' <=> d \in shared
         /\ \A p \in Paths : locks'[p] = d <=> locks[p] = d
<1> USE DEF TypeOK, ProcType, FileType, StoreType, fileVars, storeVars
<1>1. CASE CreateTempRootsFile(c) \/ LockTempRootsFile(c) \/ TryGCLock(c) \/ Connect(c)
           \/ ServerInsert(c) \/ ServerAck(c) \/ Disconnected(c) \/ WriteTempRoot(c)
  BY <1>1 DEF CreateTempRootsFile, LockTempRootsFile, TryGCLock, Connect, ServerInsert, ServerAck,
              Disconnected, WriteTempRoot
<1>2. CASE CheckValid(c) \/ AddPermRoot(c)
  <2>1. pc'[d] = pc[d] /\ job'[d] = job[d]
    BY <1>2 DEF CheckValid, AddPermRoot
  <2>2. rely'[d] = rely[d] /\ UNCHANGED <<fd, link, node, conn, shared, locks>>
    BY <1>2 DEF CheckValid, AddPermRoot
  <2> QED
    BY <2>1, <2>2
<1>3. CASE Recheck(c) \/ Register(c) \/ Return(c)
  BY <1>3, StoreAssumption DEF Recheck, Register, Return, Unlocked
<1>4. CASE FailUnpack(c) \/ Die(c)
  BY <1>4, StoreAssumption DEF FailUnpack, Die, Unlocked
<1>5. ASSUME NEW j, Call(c, j)
      PROVE  /\ pc'[d] = pc[d] /\ job'[d] = job[d]
             /\ UNCHANGED <<fd, link, node, conn, rely, shared, locks>>
  BY <1>5 DEF Call
<1>6. ASSUME NEW p \in Paths, LockPath(c, p)
      PROVE  /\ pc'[d] = pc[d] /\ job'[d] = job[d]
             /\ UNCHANGED <<fd, link, node, conn, rely, shared>>
             /\ \A q \in Paths : locks'[q] = d <=> locks[q] = d
  BY <1>6, StoreAssumption DEF LockPath
<1>7. ASSUME NEW p \in Paths, Reuse(c, p) \/ StartUnpack(c, p) \/ EndUnpack(c, p) \/ WriteMarker(c, p)
      PROVE  /\ pc'[d] = pc[d] /\ job'[d] = job[d]
             /\ UNCHANGED <<fd, link, node, conn, rely, shared, locks>>
  BY <1>7 DEF Reuse, StartUnpack, EndUnpack, WriteMarker
<1> QED
  BY <1>1, <1>2, <1>3, <1>4, <1>5, <1>6, <1>7 DEF Client

(* What a check of the rooted path does to the call.                       *)
Needed(c) == job[c].need \cup IF job[c].cur \in valid THEN {} ELSE {job[c].cur}

Goes(c, next, need) ==
  /\ pc'[c] = next /\ job'[c].kind = job[c].kind /\ job'[c].need = need
  /\ job'[c].got = job[c].got /\ job'[c].open = job[c].open /\ job'[c].done = job[c].done

LEMMA CheckValidFacts ==
  ASSUME TypeOK, NEW c \in Clients, CheckValid(c)
  PROVE  \/ /\ Goes(c, "root", Needed(c))
            /\ job'[c].cur \in job[c].todo /\ job'[c].todo \subseteq job[c].todo
         \/ /\ Goes(c, "lock", Needed(c)) /\ job[c].kind # "use"
            /\ job'[c].cur = NoPath /\ job'[c].todo = job[c].todo
         \/ pc'[c] = "idle" /\ job'[c] = Idle
<1> DEFINE need == Needed(c)
<1>1. pc \in [Clients -> {"idle", "file", "flock", "root", "connect", "send", "ack", "write",
                          "check", "lock", "unpack", "unmark"}]
      /\ job \in [Clients -> Job]
  BY DEF TypeOK, ProcType
<1>2. \/ /\ \E q \in job[c].todo :
              job' = [job EXCEPT ![c].cur = q, ![c].todo = @ \ {q}, ![c].need = need]
         /\ pc' = [pc EXCEPT ![c] = "root"]
      \/ /\ job' = [job EXCEPT ![c].cur = NoPath, ![c].need = need]
         /\ pc' = [pc EXCEPT ![c] = "lock"] /\ job[c].kind # "use"
      \/ job' = [job EXCEPT ![c] = Idle] /\ pc' = [pc EXCEPT ![c] = "idle"]
  BY DEF CheckValid, Needed
<1> HIDE DEF need
<1>3. ASSUME NEW q \in job[c].todo,
             job' = [job EXCEPT ![c].cur = q, ![c].todo = @ \ {q}, ![c].need = need],
             pc' = [pc EXCEPT ![c] = "root"]
      PROVE  Goes(c, "root", need) /\ job'[c].cur \in job[c].todo /\ job'[c].todo \subseteq job[c].todo
  BY <1>1, <1>3 DEF Job, Goes
<1>4. ASSUME job' = [job EXCEPT ![c].cur = NoPath, ![c].need = need], pc' = [pc EXCEPT ![c] = "lock"]
      PROVE  Goes(c, "lock", need) /\ job'[c].cur = NoPath /\ job'[c].todo = job[c].todo
  BY <1>1, <1>4 DEF Job, Goes
<1>5. ASSUME job' = [job EXCEPT ![c] = Idle], pc' = [pc EXCEPT ![c] = "idle"]
      PROVE  pc'[c] = "idle" /\ job'[c] = Idle
  BY <1>1, <1>5
<1> QED
  BY <1>2, <1>3, <1>4, <1>5 DEF need

ProcAt(c) ==
  /\ pc[c] \notin {"idle", "file"} => fd[c] # NoFile
  /\ pc[c] = "file" => fd[c] = NoFile
  /\ pc[c] = "flock" => node[c][fd[c]].roots = {}
  /\ pc[c] \notin {"idle", "lock", "unpack", "unmark"} => job[c].cur \in Paths
  /\ pc[c] # "idle" => job[c].kind \in Kinds
  /\ pc[c] \in {"lock", "unpack", "unmark"} => job[c].kind \in {"single", "multi"}
  /\ pc[c] = "idle" => job[c] = Idle

LEMMA ClientProcAt ==
  ASSUME TypeOK, ProcInv, NEW c \in Clients, Client(c) PROVE ProcAt(c)'
<1>0. ProcAt(c)
  BY DEF ProcInv, ProcAt
<1> USE DEF TypeOK, ProcType, fileVars
<1>1. ASSUME NEW j \in Jobs, Call(c, j) PROVE ProcAt(c)'
  <2>1. j.paths \subseteq Paths
    BY StoreAssumption
  <2>2. PICK p \in j.paths :
          job' = [job EXCEPT ![c] = [Idle EXCEPT !.kind = j.kind, !.cur = p, !.todo = j.paths \ {p}]]
    BY <1>1 DEF Call
  <2>3. job'[c].cur = p /\ job'[c].kind \in Kinds
    BY <2>2, StoreAssumption DEF Idle
  <2> QED
    BY <1>1, <2>1, <2>3 DEF Call, ProcAt
<1>2. CASE CreateTempRootsFile(c)
  <2>1. node[c] \in Seq(Node) /\ [roots |-> {}, marked |-> FALSE] \in Node
    BY DEF FileType, Node
  <2>2. node'[c] = Append(node[c], [roots |-> {}, marked |-> FALSE]) /\ fd'[c] = Len(node[c]) + 1
    BY <1>2 DEF CreateTempRootsFile, FileType
  <2>3. node'[c][fd'[c]].roots = {}
    BY <2>1, <2>2, AppendFacts
  <2>4. fd'[c] # NoFile
    BY <2>1, <2>2 DEF NoFile
  <2> QED
    BY <1>0, <1>2, <2>3, <2>4 DEF CreateTempRootsFile, ProcAt
<1>3. CASE LockTempRootsFile(c)
  BY <1>0, <1>3 DEF LockTempRootsFile, ProcAt, FileType
<1>4. CASE TryGCLock(c) \/ Connect(c) \/ ServerInsert(c) \/ ServerAck(c) \/ Disconnected(c)
  <2>1. UNCHANGED <<fd, node, job>> /\ pc[c] \in {"root", "connect", "send", "ack"}
        /\ pc'[c] \in {"root", "connect", "send", "ack", "write"}
    BY <1>4 DEF TryGCLock, Connect, ServerInsert, ServerAck, Disconnected
  <2> QED
    BY <1>0, <2>1 DEF ProcAt
<1>5. CASE WriteTempRoot(c)
  BY <1>0, <1>5 DEF WriteTempRoot, ProcAt
<1>6. CASE CheckValid(c)
  <2>1. pc[c] = "check" /\ UNCHANGED <<fd, node>> /\ job[c].kind # "perm" /\ job[c] \in Job
    BY <1>6 DEF CheckValid
  <2>2. \/ job'[c].cur \in Paths /\ job'[c].kind = job[c].kind /\ pc'[c] = "root"
        \/ job'[c].kind = job[c].kind /\ pc'[c] = "lock" /\ job[c].kind # "use"
        \/ job'[c] = Idle /\ pc'[c] = "idle"
    BY <1>6, <2>1, CheckValidFacts DEF Goes, Job
  <2> QED
    BY <1>0, <2>1, <2>2 DEF ProcAt, Job, Kinds
<1>7. CASE Recheck(c)
  BY <1>0, <1>7 DEF Recheck, ProcAt, Job
<1>8. CASE Register(c)
  BY <1>0, <1>8 DEF Register, ProcAt
<1>9. CASE Return(c) \/ FailUnpack(c) \/ Die(c) \/ AddPermRoot(c)
  <2>1. pc'[c] = "idle" /\ job'[c] = Idle
    BY <1>9 DEF Return, FailUnpack, Die, AddPermRoot
  <2> QED
    BY <2>1 DEF ProcAt
<1>10. ASSUME NEW p \in Paths,
             LockPath(c, p) \/ Reuse(c, p) \/ StartUnpack(c, p) \/ EndUnpack(c, p) \/ WriteMarker(c, p)
      PROVE  ProcAt(c)'
  <2>1. UNCHANGED <<pc, fd, node>> /\ pc[c] \in {"lock", "unpack"} /\ job'[c].kind = job[c].kind
    BY <1>10 DEF LockPath, Reuse, StartUnpack, EndUnpack, WriteMarker, Job
  <2> QED
    BY <1>0, <2>1 DEF ProcAt
<1> QED
  BY <1>1, <1>2, <1>3, <1>4, <1>5, <1>6, <1>7, <1>8, <1>9, <1>10 DEF Client

LEMMA ClientProcInv ==
  ASSUME TypeOK, ProcInv, NEW c \in Clients, Client(c) PROVE ProcInv'
<1>1. ProcAt(c)'
  BY ClientProcAt
<1>2. ASSUME NEW d \in Clients, d # c PROVE ProcAt(d)'
  <2>1. ProcAt(d)
    BY DEF ProcInv, ProcAt
  <2> QED
    BY <1>2, <2>1, ClientAlone DEF ProcAt
<1> QED
  BY <1>1, <1>2 DEF ProcInv, ProcAt

--------------------------------------------------------------------------------
(* Path locks.                                                             *)

LockAt(c) ==
  /\ \A p \in Paths : locks[p] = c <=> p \in job[c].got
  /\ pc[c] \notin {"lock", "unpack", "unmark"} => job[c].got = {}
  /\ pc[c] \notin {"unpack", "unmark"} => job[c].open = {} /\ job[c].done = {}
  /\ pc[c] = "lock" =>
       /\ job[c].got \subseteq job[c].need
       /\ \A p \in job[c].got : \A q \in job[c].need \ job[c].got : p < q
  /\ pc[c] \in {"unpack", "unmark"} =>
       job[c].need \subseteq job[c].got /\ job[c].open \cup job[c].done \subseteq job[c].need

LEMMA LockIsAt == LockInv <=> \A c \in Clients : LockAt(c)
BY DEF LockInv, LockAt

LEMMA ReleasedAt ==
  ASSUME TypeOK, NEW c \in Clients, locks' = Unlocked(c), job'[c] = Idle, pc'[c] = "idle"
  PROVE  LockAt(c)'
<1>1. \A p \in Paths : locks'[p] # c
  BY StoreAssumption DEF Unlocked
<1>2. job'[c].got = {} /\ job'[c].open = {} /\ job'[c].done = {}
  BY DEF Idle
<1> QED
  BY <1>1, <1>2 DEF LockAt

LEMMA ClientLockAt ==
  ASSUME TypeOK, ProcInv, LockInv, NEW c \in Clients, Client(c) PROVE LockAt(c)'
<1>0. LockAt(c) /\ job[c] \in Job /\ pc[c] \in {"idle", "file", "flock", "root", "connect", "send",
                                               "ack", "write", "check", "lock", "unpack", "unmark"}
  BY LockIsAt DEF TypeOK, ProcType
<1> USE DEF storeVars
<1>1. ASSUME NEW j \in Jobs, Call(c, j) PROVE LockAt(c)'
  <2>1. /\ pc[c] = "idle" /\ pc'[c] \in {"file", "root"} /\ UNCHANGED locks
        /\ \E p : job'[c] = [Idle EXCEPT !.kind = j.kind, !.cur = p, !.todo = j.paths \ {p}]
    BY <1>1 DEF Call, TypeOK, ProcType
  <2>2. job'[c].got = {} /\ job'[c].open = {} /\ job'[c].done = {}
    BY <2>1 DEF Idle
  <2> QED
    BY <1>0, <2>1, <2>2 DEF LockAt
<1>2. CASE CreateTempRootsFile(c) \/ LockTempRootsFile(c) \/ TryGCLock(c) \/ Connect(c)
           \/ ServerInsert(c) \/ ServerAck(c) \/ Disconnected(c) \/ WriteTempRoot(c)
  <2>1. /\ pc[c] \notin {"lock", "unpack", "unmark"} /\ pc'[c] \notin {"lock", "unpack", "unmark"}
        /\ UNCHANGED <<job, locks>>
    BY <1>2 DEF CreateTempRootsFile, LockTempRootsFile, TryGCLock, Connect, ServerInsert, ServerAck,
                Disconnected, WriteTempRoot, TypeOK, ProcType
  <2> QED
    BY <1>0, <2>1 DEF LockAt
<1>3. CASE CheckValid(c)
  <2>1. pc[c] = "check" /\ UNCHANGED locks
    BY <1>3 DEF CheckValid
  <2>2. job[c].got = {} /\ job[c].open = {} /\ job[c].done = {}
    BY <1>0, <2>1 DEF LockAt
  <2>3. job'[c].got = {} /\ job'[c].open = {} /\ job'[c].done = {}
        /\ pc'[c] \in {"root", "lock", "idle"}
    BY <1>3, <2>2, CheckValidFacts DEF Goes, Idle
  <2> QED
    BY <1>0, <2>1, <2>2, <2>3 DEF LockAt
<1>4. CASE AddPermRoot(c)
  <2>1. pc[c] = "check" /\ UNCHANGED locks /\ pc'[c] = "idle" /\ job'[c] = Idle
    BY <1>4 DEF AddPermRoot, TypeOK, ProcType
  <2> QED
    BY <1>0, <2>1 DEF LockAt, Idle
<1>5. ASSUME NEW p \in Paths, LockPath(c, p) PROVE LockAt(c)'
  <2>1. /\ pc[c] = "lock" /\ pc'[c] = "lock" /\ p \in job[c].need \ job[c].got
        /\ \A q \in job[c].need \ job[c].got : p <= q
        /\ locks' = [locks EXCEPT ![p] = c] /\ job'[c].got = job[c].got \cup {p}
        /\ job'[c].need = job[c].need /\ job'[c].open = job[c].open /\ job'[c].done = job[c].done
    BY <1>0, <1>5 DEF LockPath, TypeOK, Job
  <2>2. \A q \in Paths : locks'[q] = c <=> q \in job'[c].got
    BY <1>0, <2>1 DEF LockAt, TypeOK, StoreType
  <2>3. \A q \in job'[c].got : \A r \in job'[c].need \ job'[c].got : q < r
    <3> SUFFICES ASSUME NEW q \in job'[c].got, NEW r \in job'[c].need \ job'[c].got PROVE q < r
      OBVIOUS
    <3>1. r \in job[c].need \ job[c].got /\ r # p /\ r \in Nat /\ p \in Nat
      BY <1>0, <2>1, StoreAssumption DEF Job
    <3> QED
      BY <1>0, <2>1, <3>1 DEF LockAt
  <2> QED
    BY <1>0, <2>1, <2>2, <2>3 DEF LockAt
<1>6. ASSUME NEW p \in Paths, Reuse(c, p) \/ StartUnpack(c, p) \/ EndUnpack(c, p) \/ WriteMarker(c, p)
      PROVE  LockAt(c)'
  <2>1. /\ pc[c] = "unpack" /\ UNCHANGED <<pc, locks>>
        /\ p \in job[c].need \/ p \in job[c].open
    BY <1>6 DEF Reuse, StartUnpack, EndUnpack, WriteMarker
  <2>2. /\ job'[c].got = job[c].got /\ job'[c].need = job[c].need
        /\ job'[c].open \subseteq job[c].open \cup {p} /\ job'[c].done \subseteq job[c].done \cup {p}
    BY <1>0, <1>6 DEF Reuse, StartUnpack, EndUnpack, WriteMarker, TypeOK, Job
  <2> QED
    BY <1>0, <2>1, <2>2 DEF LockAt
<1>7. CASE Recheck(c)
  <2>1. pc[c] = "lock" /\ job[c].got = job[c].need
    BY <1>7 DEF Recheck
  <2>2. \/ locks' = Unlocked(c) /\ job'[c] = Idle /\ pc'[c] = "idle"
        \/ /\ UNCHANGED locks /\ pc'[c] = "unpack" /\ job'[c].need = job[c].need \ valid
           /\ job'[c].got = job[c].got /\ job'[c].open = job[c].open /\ job'[c].done = job[c].done
    BY <1>0, <1>7 DEF Recheck, TypeOK, ProcType, Job
  <2> QED
    BY <1>0, <2>1, <2>2, ReleasedAt DEF LockAt
<1>8. CASE Register(c)
  <2>1. pc[c] = "unpack"
    BY <1>8 DEF Register
  <2>2. \/ locks' = Unlocked(c) /\ job'[c] = Idle /\ pc'[c] = "idle"
        \/ UNCHANGED <<locks, job>> /\ pc'[c] = "unmark"
    BY <1>8 DEF Register, TypeOK, ProcType
  <2> QED
    BY <1>0, <2>1, <2>2, ReleasedAt DEF LockAt
<1>9. CASE Return(c) \/ FailUnpack(c) \/ Die(c)
  <2>1. locks' = Unlocked(c) /\ job'[c] = Idle /\ pc'[c] = "idle"
    BY <1>9 DEF Return, FailUnpack, Die, TypeOK, ProcType
  <2> QED
    BY <2>1, ReleasedAt
<1> QED
  BY <1>1, <1>2, <1>3, <1>4, <1>5, <1>6, <1>7, <1>8, <1>9 DEF Client

LEMMA ClientLockInv ==
  ASSUME TypeOK, ProcInv, LockInv, NEW c \in Clients, Client(c) PROVE LockInv'
<1>1. LockAt(c)'
  BY ClientLockAt
<1>2. ASSUME NEW d \in Clients, d # c PROVE LockAt(d)'
  <2>1. LockAt(d)
    BY LockIsAt
  <2> QED
    BY <1>2, <2>1, ClientAlone DEF LockAt
<1> QED
  BY <1>1, <1>2 DEF LockInv, LockAt

--------------------------------------------------------------------------------
(* Roots in the files of processes.                                        *)

LEMMA SameFileRoots ==
  ASSUME NEW c, fd'[c] = fd[c], node'[c] = node[c], pc[c] = "flock" <=> pc'[c] = "flock"
  PROVE  FileRoots(c)' = FileRoots(c)
BY DEF FileRoots, Holds

RootAt(c) ==
  /\ rely[c] \cup job[c].need \subseteq FileRoots(c)
  /\ pc[c] = "check" => job[c].cur \in FileRoots(c)

LEMMA WriteRoots ==
  ASSUME TypeOK, ProcInv, NEW c \in Clients, WriteTempRoot(c)
  PROVE  FileRoots(c)' = FileRoots(c) \cup {job[c].cur} /\ Holds(c)
<1>1. pc[c] = "write" /\ pc'[c] = "check" /\ fd' = fd /\ fd[c] # NoFile
  BY DEF WriteTempRoot, ProcInv, TypeOK, ProcType
<1>2. fd[c] \in 1..Len(node[c]) /\ node[c] \in Seq(Node)
  BY <1>1 DEF TypeOK, FileType, Node
<1>3. node'[c] = [node[c] EXCEPT ![fd[c]].roots = @ \cup {job[c].cur}]
  BY DEF WriteTempRoot, TypeOK, FileType
<1>4. node[c][fd[c]] \in Node
  BY <1>2
<1>5. node'[c][fd[c]].roots = node[c][fd[c]].roots \cup {job[c].cur}
  <2> DEFINE file == [node[c][fd[c]] EXCEPT !.roots = @ \cup {job[c].cur}]
  <2>1. file.roots = node[c][fd[c]].roots \cup {job[c].cur}
    BY <1>4 DEF Node
  <2>2. node'[c] = [node[c] EXCEPT ![fd[c]] = file]
    BY <1>3
  <2> HIDE DEF file
  <2>3. node'[c][fd[c]] = file
    BY <1>2, <2>2
  <2> QED
    BY <2>1, <2>3
<1> QED
  BY <1>1, <1>5 DEF FileRoots, Holds

LEMMA ClientRootAt ==
  ASSUME TypeOK, ProcInv, RootInv, NEW c \in Clients, Client(c) PROVE RootAt(c)'
<1>0. RootAt(c) /\ job[c] \in Job /\ pc[c] \in {"idle", "file", "flock", "root", "connect", "send",
                                               "ack", "write", "check", "lock", "unpack", "unmark"}
  BY DEF TypeOK, ProcType, RootAt, RootInv
<1> USE DEF fileVars
<1>1. ASSUME NEW j \in Jobs, Call(c, j) PROVE RootAt(c)'
  <2>1. /\ pc[c] = "idle" /\ pc'[c] \in {"file", "root"} /\ UNCHANGED <<fd, node, rely>>
        /\ \E p : job'[c] = [Idle EXCEPT !.kind = j.kind, !.cur = p, !.todo = j.paths \ {p}]
    BY <1>1 DEF Call, TypeOK, ProcType
  <2>2. job'[c].need = {}
    BY <2>1 DEF Idle
  <2>3. FileRoots(c)' = FileRoots(c)
    BY <2>1, SameFileRoots
  <2> QED
    BY <1>0, <2>1, <2>2, <2>3 DEF RootAt
<1>2. CASE CreateTempRootsFile(c) \/ LockTempRootsFile(c)
  <2>1. /\ pc[c] \in {"file", "flock"} /\ pc'[c] \in {"file", "flock", "root"}
        /\ UNCHANGED <<job, rely>>
    BY <1>2 DEF CreateTempRootsFile, LockTempRootsFile, TypeOK, ProcType
  <2>2. FileRoots(c) = {}
    BY <2>1 DEF FileRoots, Holds, ProcInv
  <2> QED
    BY <1>0, <2>1, <2>2 DEF RootAt
<1>3. CASE TryGCLock(c) \/ Connect(c) \/ ServerInsert(c) \/ ServerAck(c) \/ Disconnected(c)
  <2>1. /\ pc[c] \in {"root", "connect", "send", "ack"} /\ UNCHANGED <<job, rely, fd, node>>
        /\ pc'[c] \in {"root", "connect", "send", "ack", "write"}
    BY <1>3 DEF TryGCLock, Connect, ServerInsert, ServerAck, Disconnected, TypeOK, ProcType
  <2>2. FileRoots(c)' = FileRoots(c)
    BY <2>1, SameFileRoots
  <2> QED
    BY <1>0, <2>1, <2>2 DEF RootAt
<1>4. CASE WriteTempRoot(c)
  <2>1. UNCHANGED <<job, rely>>
    BY <1>4 DEF WriteTempRoot
  <2> QED
    BY <1>0, <1>4, <2>1, WriteRoots DEF RootAt
<1>5. CASE CheckValid(c)
  <2>1. pc[c] = "check" /\ UNCHANGED <<fd, node>> /\ rely'[c] = rely[c] \cup ({job[c].cur} \cap valid)
    BY <1>5 DEF CheckValid, TypeOK, ProcType
  <2>2. pc'[c] \in {"root", "lock", "idle"} /\ job'[c].need \subseteq job[c].need \cup {job[c].cur}
    BY <1>5, CheckValidFacts DEF Goes, Idle, Needed
  <2>3. FileRoots(c)' = FileRoots(c)
    BY <2>1, <2>2, SameFileRoots
  <2> QED
    BY <1>0, <2>1, <2>2, <2>3 DEF RootAt
<1>6. CASE AddPermRoot(c) \/ Return(c) \/ FailUnpack(c)
  <2>1. /\ pc[c] \in {"check", "unmark", "unpack"} /\ pc'[c] = "idle" /\ job'[c] = Idle
        /\ UNCHANGED <<rely, fd, node>>
    BY <1>6 DEF AddPermRoot, Return, FailUnpack, TypeOK, ProcType
  <2>2. FileRoots(c)' = FileRoots(c)
    BY <2>1, SameFileRoots
  <2> QED
    BY <1>0, <2>1, <2>2 DEF RootAt, Idle
<1>7. CASE Die(c)
  <2>1. pc'[c] = "idle" /\ job'[c] = Idle /\ rely'[c] = {}
    BY <1>7 DEF Die, TypeOK, ProcType
  <2> QED
    BY <2>1 DEF RootAt, Idle
<1>8. ASSUME NEW p \in Paths,
             LockPath(c, p) \/ Reuse(c, p) \/ StartUnpack(c, p) \/ EndUnpack(c, p) \/ WriteMarker(c, p)
      PROVE  RootAt(c)'
  <2>1. UNCHANGED <<pc, fd, node, rely>> /\ pc[c] \in {"lock", "unpack"} /\ job'[c].need = job[c].need
    BY <1>8 DEF LockPath, Reuse, StartUnpack, EndUnpack, WriteMarker, TypeOK, Job
  <2>2. FileRoots(c)' = FileRoots(c)
    BY <2>1, SameFileRoots
  <2> QED
    BY <1>0, <2>1, <2>2 DEF RootAt
<1>9. CASE Recheck(c) \/ Register(c)
  <2>1. /\ pc[c] \in {"lock", "unpack"} /\ pc'[c] \in {"idle", "unpack", "unmark"}
        /\ UNCHANGED <<fd, node>>
    BY <1>9 DEF Recheck, Register, TypeOK, ProcType
  <2>2. rely'[c] \subseteq rely[c] \cup job[c].need
    BY <1>9 DEF Recheck, Register, TypeOK, ProcType
  <2>3. job'[c].need \subseteq job[c].need
    BY <1>9 DEF Recheck, Register, TypeOK, Job, Idle
  <2>4. FileRoots(c)' = FileRoots(c)
    BY <2>1, SameFileRoots
  <2> QED
    BY <1>0, <2>1, <2>2, <2>3, <2>4 DEF RootAt
<1> QED
  BY <1>1, <1>2, <1>3, <1>4, <1>5, <1>6, <1>7, <1>8, <1>9 DEF Client

LEMMA ClientRootInv ==
  ASSUME TypeOK, ProcInv, RootInv, NEW c \in Clients, Client(c) PROVE RootInv'
<1>1. RootAt(c)'
  BY ClientRootAt
<1>2. ASSUME NEW d \in Clients, d # c PROVE RootAt(d)'
  <2>1. RootAt(d)
    BY DEF RootInv, RootAt
  <2>2. FileRoots(d)' = FileRoots(d)
    BY <1>2, ClientAlone, SameFileRoots
  <2> QED
    BY <1>2, <2>1, <2>2, ClientAlone DEF RootAt
<1> QED
  BY <1>1, <1>2 DEF RootInv, RootAt

--------------------------------------------------------------------------------
(* The collector takes nothing from processes.                             *)

LEMMA CollectorFiles ==
  ASSUME TypeOK, SweepInv, Collector, NEW d \in Clients
  PROVE  /\ Len(node'[d]) = Len(node[d])
         /\ \A j \in 1..Len(node[d]) : node'[d][j].roots = node[d][j].roots
<1>1. CASE ReadTempRoots
  <2> DEFINE c == gc.file[1]
             i == gc.file[2]
  <2>1. c \in Clients /\ i \in 1..Len(node[c]) /\ node[c] \in Seq(Node)
    BY <1>1 DEF TypeOK, CollectorType, ReadTempRoots, Collection, OpenFile, SweepInv, FileType, Node
  <2> DEFINE old == node[c][i]
             new == [old EXCEPT !.marked = TRUE]
             file == [node[c] EXCEPT ![i] = new]
  <2>2. new.roots = old.roots /\ new \in Node
    <3>1. old \in Node
      BY <2>1
    <3> HIDE DEF old
    <3> QED
      BY <3>1 DEF Node
  <2>3. UNCHANGED node \/ node' = [node EXCEPT ![c] = file]
    BY <1>1 DEF ReadTempRoots, fileVars
  <2>4. Len(file) = Len(node[c]) /\ \A j \in 1..Len(node[c]) : file[j].roots = node[c][j].roots
    <3>1. Len(file) = Len(node[c])
      <4> HIDE DEF new, c, i
      <4> QED
        BY <2>1, <2>2, ExceptSeq
    <3>2. \A j \in 1..Len(node[c]) : file[j] = IF j = i THEN new ELSE node[c][j]
      <4> HIDE DEF new, c, i
      <4> QED
        BY <2>1
    <3> HIDE DEF file, new, c, i
    <3> QED
      BY <2>2, <3>1, <3>2 DEF old
  <2> HIDE DEF file, new, old, c, i
  <2>5. CASE node' = [node EXCEPT ![c] = file]
    BY <2>1, <2>4, <2>5 DEF TypeOK, FileType
  <2> QED
    BY <2>3, <2>5
<1>2. CASE UNCHANGED node
  BY <1>2
<1> QED
  BY <1>1, <1>2, CollectorFrame

LEMMA CollectorRoots ==
  ASSUME TypeOK, SweepInv, Collector, NEW c \in Clients
  PROVE  FileRoots(c)' = FileRoots(c)
<1>1. fd' = fd /\ pc' = pc
  BY CollectorFrame
<1>2. fd[c] # NoFile => node'[c][fd[c]].roots = node[c][fd[c]].roots
  BY CollectorFiles DEF TypeOK, FileType
<1> QED
  BY <1>1, <1>2 DEF FileRoots, Holds

LEMMA CollectorProcInv ==
  ASSUME TypeOK, ProcInv, LockInv, RootInv, SweepInv, Collector
  PROVE  ProcInv' /\ LockInv' /\ RootInv'
<1>1. UNCHANGED <<locks, pc, job, fd, rely>>
  BY CollectorFrame
<1>2. ASSUME NEW c \in Clients PROVE ProcAt(c)'
  <2>1. ProcAt(c)
    BY DEF ProcInv, ProcAt
  <2>2. fd[c] # NoFile => node'[c][fd[c]].roots = node[c][fd[c]].roots
    BY CollectorFiles DEF TypeOK, FileType
  <2> QED
    BY <1>1, <2>1, <2>2 DEF ProcAt
<1>3. LockInv'
  BY <1>1 DEF LockInv
<1>4. ASSUME NEW c \in Clients PROVE RootAt(c)'
  BY <1>1, CollectorRoots DEF RootInv, RootAt
<1> QED
  BY <1>2, <1>3, <1>4 DEF ProcInv, ProcAt, RootInv, RootAt

--------------------------------------------------------------------------------
(* The GC lock and the roots server.                                       *)

LEMMA ClientGC ==
  ASSUME NEW c \in Clients, Client(c)
  PROVE  UNCHANGED <<gc, pending, listening, collections>> /\ temp \subseteq temp'
         /\ (ServerInsert(c) \/ UNCHANGED temp)
<1>1. CASE CreateTempRootsFile(c) \/ LockTempRootsFile(c) \/ TryGCLock(c) \/ Connect(c)
           \/ ServerAck(c) \/ ServerInsert(c) \/ Disconnected(c) \/ WriteTempRoot(c)
  BY <1>1 DEF CreateTempRootsFile, LockTempRootsFile, TryGCLock, Connect, ServerAck, ServerInsert,
              Disconnected, WriteTempRoot, gcVars
<1>2. CASE CheckValid(c) \/ AddPermRoot(c) \/ Recheck(c) \/ Register(c) \/ Return(c)
           \/ FailUnpack(c) \/ Die(c)
  <2>1. UNCHANGED gcVars
    BY <1>2 DEF CheckValid, AddPermRoot, Recheck, Register, Return, FailUnpack, Die
  <2> QED
    BY <2>1 DEF gcVars
<1>3. ASSUME NEW j, Call(c, j) PROVE UNCHANGED gcVars
  BY <1>3 DEF Call
<1>4. ASSUME NEW p,
             LockPath(c, p) \/ Reuse(c, p) \/ StartUnpack(c, p) \/ EndUnpack(c, p) \/ WriteMarker(c, p)
      PROVE  UNCHANGED gcVars
  BY <1>4 DEF LockPath, Reuse, StartUnpack, EndUnpack, WriteMarker
<1> QED
  BY <1>1, <1>2, <1>3, <1>4 DEF Client, gcVars

LEMMA ClientServerInv ==
  ASSUME TypeOK, ProcInv, ServerInv, NEW c \in Clients, Client(c) PROVE ServerInv'
<1>0. gc' = gc /\ temp \subseteq temp'
  BY ClientGC
<1> DEFINE At == /\ (Collecting => shared' = {}) /\ (c \in shared' => pc'[c] = "write")
                 /\ (pc'[c] = "ack" /\ conn'[c] = "open" => job'[c].cur \in temp')
<1>1. At
  <2> USE DEF TypeOK, ProcType
  <2>1. CASE TryGCLock(c)
    BY <2>1 DEF TryGCLock, ServerInv
  <2>2. CASE ServerInsert(c)
    BY <2>2 DEF ServerInsert, ServerInv
  <2>3. CASE WriteTempRoot(c) \/ Die(c)
    BY <2>3 DEF WriteTempRoot, Die, ServerInv
  <2>4. CASE CreateTempRootsFile(c) \/ LockTempRootsFile(c) \/ Connect(c) \/ ServerAck(c) \/ Disconnected(c)
    <3>1. shared' = shared /\ pc[c] # "write" /\ pc'[c] # "ack"
      BY <2>4 DEF CreateTempRootsFile, LockTempRootsFile, Connect, ServerAck, Disconnected
    <3> QED
      BY <3>1 DEF ServerInv
  <2>5. CASE CheckValid(c) \/ AddPermRoot(c) \/ Recheck(c) \/ Register(c) \/ Return(c) \/ FailUnpack(c)
    <3>1. shared' = shared /\ pc[c] # "write" /\ pc'[c] # "ack"
      BY <2>5 DEF CheckValid, AddPermRoot, Recheck, Register, Return, FailUnpack
    <3> QED
      BY <3>1 DEF ServerInv
  <2>6. ASSUME NEW j, Call(c, j) PROVE At
    BY <2>6 DEF Call, ServerInv
  <2>7. ASSUME NEW p,
             LockPath(c, p) \/ Reuse(c, p) \/ StartUnpack(c, p) \/ EndUnpack(c, p) \/ WriteMarker(c, p)
        PROVE  At
    <3>1. UNCHANGED <<shared, pc>> /\ pc[c] \in {"lock", "unpack"}
      BY <2>7 DEF LockPath, Reuse, StartUnpack, EndUnpack, WriteMarker
    <3> QED
      BY <3>1 DEF ServerInv
  <2> QED
    BY <2>1, <2>2, <2>3, <2>4, <2>5, <2>6, <2>7 DEF Client
<1>2. ASSUME NEW d \in Clients, d # c
      PROVE  /\ d \in shared' => pc'[d] = "write"
             /\ pc'[d] = "ack" /\ conn'[d] = "open" => job'[d].cur \in temp'
  BY <1>0, <1>2, ClientAlone DEF ServerInv
<1>3. shared' \subseteq Clients
  BY ClientProc DEF ProcType
<1> QED
  BY <1>0, <1>1, <1>2, <1>3 DEF ServerInv, Collecting

(* What the collector does to its lock, its server's roots and its clients.*)
LEMMA CollectorServer ==
  ASSUME TypeOK, SweepInv, Collector
  PROVE  /\ GCLock \/ Collecting
         /\ \/ temp \subseteq temp' /\ conn' = conn
            \/ /\ gc'.pc \in {"idle", "unlock"} /\ temp' = {}
               /\ \A c \in Clients : conn'[c] # "open"
<1> USE DEF Collecting, clientVars
<1>1. CASE GCLock \/ GCListen \/ FindRootsNoTemp \/ OpenStoreDir \/ Expand \/ TopoSort \/ DeleteNext
  BY <1>1 DEF GCLock, GCListen, FindRootsNoTemp, OpenStoreDir, Expand, TopoSort, DeleteNext
<1>2. CASE \/ \E c \in Clients : OpenTempRoots(c)
           \/ \E p \in Paths : SweepEntry(p) \/ Visit(p)
  BY <1>2 DEF OpenTempRoots, SweepEntry, Visit
<1>3. CASE InvalidatePathChecked \/ DeleteMarker \/ DeleteSome \/ DeleteRest \/ EndEntry \/ GCUnlock
  BY <1>3 DEF InvalidatePathChecked, DeleteMarker, DeleteSome, DeleteRest, EndEntry, GCUnlock, gcVars
<1>4. CASE ReadTempRoots
  BY <1>4 DEF ReadTempRoots
<1>5. CASE StopServer \/ GCDie
  <2>1. gc'.pc \in {"idle", "unlock"}
    BY <1>5 DEF StopServer, GCDie, NoCollection
  <2>2. temp' = {} /\ \A c \in Clients : conn'[c] # "open"
    BY <1>5 DEF StopServer, GCDie
  <2>3. Collecting
    BY <1>5 DEF StopServer, GCDie
  <2> QED
    BY <2>1, <2>2, <2>3
<1> QED
  BY <1>1, <1>2, <1>3, <1>4, <1>5 DEF Collector

LEMMA CollectorServerInv ==
  ASSUME TypeOK, SweepInv, ServerInv, Collector PROVE ServerInv'
<1>1. UNCHANGED <<pc, job, shared>> /\ shared = {}
  BY CollectorFrame, CollectorServer DEF ServerInv, GCLock
<1> QED
  BY <1>1, CollectorServer DEF ServerInv

LEMMA ClientNodes ==
  ASSUME TypeOK, ProcInv, NEW c \in Clients, Client(c), NEW d \in Clients
  PROVE  Len(node[d]) <= Len(node'[d]) /\ Len(node[d]) \in Nat /\ Len(node'[d]) \in Nat
<1> USE DEF TypeOK, FileType, fileVars
<1>1. node[d] \in Seq(Node) /\ node'[d] \in Seq(Node) /\ node[c] \in Seq(Node)
  BY ClientFile DEF Node
<1>2. CASE CreateTempRootsFile(c)
  <2>1. node'[d] = IF d = c THEN Append(node[c], [roots |-> {}, marked |-> FALSE]) ELSE node[d]
    BY <1>2 DEF CreateTempRootsFile
  <2>2. [roots |-> {}, marked |-> FALSE] \in Node
    BY DEF Node
  <2> QED
    BY <1>1, <2>1, <2>2, AppendFacts
<1>3. CASE WriteTempRoot(c)
  <2>1. node'[d] = IF d = c THEN [node[c] EXCEPT ![fd[c]].roots = @ \cup {job[c].cur}] ELSE node[d]
    BY <1>3 DEF WriteTempRoot
  <2>2. DOMAIN node'[d] = DOMAIN node[d]
    BY <2>1
  <2> QED
    BY <1>1, <2>2
<1>4. CASE LockTempRootsFile(c) \/ TryGCLock(c) \/ Connect(c) \/ ServerInsert(c) \/ ServerAck(c)
           \/ Disconnected(c) \/ CheckValid(c) \/ AddPermRoot(c) \/ Recheck(c) \/ Register(c)
           \/ Return(c) \/ FailUnpack(c) \/ Die(c)
  <2>1. UNCHANGED node
    BY <1>4 DEF LockTempRootsFile, TryGCLock, Connect, ServerInsert, ServerAck, Disconnected,
                CheckValid, AddPermRoot, Recheck, Register, Return, FailUnpack, Die
  <2> QED
    BY <1>1, <2>1
<1>5. ASSUME NEW j, Call(c, j) PROVE UNCHANGED node
  BY <1>5 DEF Call
<1>6. ASSUME NEW p,
             LockPath(c, p) \/ Reuse(c, p) \/ StartUnpack(c, p) \/ EndUnpack(c, p) \/ WriteMarker(c, p)
      PROVE  UNCHANGED node
  BY <1>6 DEF LockPath, Reuse, StartUnpack, EndUnpack, WriteMarker
<1> QED
  BY <1>1, <1>2, <1>3, <1>4, <1>5, <1>6 DEF Client

LEMMA ClientSweepInv ==
  ASSUME TypeOK, ProcInv, SweepInv, NEW c \in Clients, Client(c) PROVE SweepInv'
<1>1. UNCHANGED <<gc, pending>>
  BY ClientGC
<1>2. gc.file # <<>> => gc.file[1] \in Clients /\ gc.file[2] \in Nat
  BY DEF TypeOK, CollectorType, Collection, OpenFile, Inodes
<1>3. gc.file # <<>> => gc.file[2] \in 1..Len(node'[gc.file[1]])
  BY <1>2, ClientNodes DEF SweepInv
<1> QED
  BY <1>1, <1>3 DEF SweepInv, Removing

LEMMA CollectorSweepInv ==
  ASSUME TypeOK, SweepInv, Collector PROVE SweepInv'
<1>0. gc \in Collection /\ gc' \in Collection
  BY CollectorGC DEF TypeOK, CollectorType
<1>f. ASSUME gc'.file = <<>> \/ (gc'.file = gc.file /\ gc'.files = gc.files /\ gc'.pc = gc.pc)
      PROVE  gc'.file # <<>> =>
               /\ gc'.pc = "scan" /\ gc'.file[1] \notin gc'.files
               /\ gc'.file[2] \in 1..Len(node'[gc'.file[1]])
  BY <1>0, <1>f, CollectorFiles DEF SweepInv, Collection, OpenFile
<1>1. CASE GCLock \/ GCListen
  <2>1. /\ gc'.pc \in {"listen", "roots"} /\ UNCHANGED pending
        /\ gc'.roots = gc.roots /\ gc'.dead = gc.dead /\ gc'.visited = gc.visited
        /\ gc'.todo = gc.todo /\ gc'.order = gc.order /\ gc'.file = gc.file
        /\ gc.pc \in {"idle", "listen"}
    BY <1>0, <1>1 DEF GCLock, GCListen, Collection
  <2>2. gc'.file = <<>>
    BY <2>1 DEF SweepInv
  <2> QED
    BY <1>f, <2>1, <2>2 DEF SweepInv, Removing
<1>2. CASE FindRootsNoTemp
  <2>1. /\ gc.pc = "roots" /\ gc'.pc = "scan" /\ gc'.dead = gc.dead /\ gc'.visited = gc.visited
        /\ gc'.order = gc.order /\ gc'.file = gc.file
    BY <1>0, <1>2 DEF FindRootsNoTemp, Collection
  <2>2. gc'.file = <<>> /\ gc'.dead = {} /\ gc'.visited = {} /\ gc'.order = <<>>
    BY <2>1 DEF SweepInv
  <2> QED
    BY <2>1, <2>2 DEF SweepInv, Removing
<1>3. ASSUME NEW c \in Clients, OpenTempRoots(c) PROVE SweepInv'
  <2>1. /\ gc.pc = "scan" /\ gc'.pc = "scan" /\ gc'.dead = gc.dead /\ gc'.visited = gc.visited
        /\ gc'.order = gc.order /\ gc'.files = gc.files \ {c}
        /\ gc'.file = IF link[c] = NoFile THEN <<>> ELSE <<c, link[c]>>
    BY <1>0, <1>3 DEF OpenTempRoots, Collection
  <2>2. gc'.dead = {} /\ gc'.visited = {} /\ gc'.order = <<>>
    BY <2>1 DEF SweepInv
  <2>3. gc'.file # <<>> => gc'.file[1] \notin gc'.files /\ gc'.file[2] \in 1..Len(node'[gc'.file[1]])
    <3> SUFFICES ASSUME gc'.file # <<>>
                 PROVE  gc'.file[1] \notin gc'.files /\ gc'.file[2] \in 1..Len(node'[gc'.file[1]])
      OBVIOUS
    <3>1. link[c] # NoFile /\ gc'.file = <<c, link[c]>>
      BY <2>1
    <3>2. link[c] \in 1..Len(node'[c])
      BY <3>1, CollectorFiles DEF TypeOK, FileType
    <3>3. gc'.file[1] = c /\ gc'.file[2] = link[c]
      BY <3>1
    <3> QED
      BY <2>1, <3>2, <3>3
  <2> QED
    BY <2>1, <2>2, <2>3 DEF SweepInv, Removing
<1>4. CASE ReadTempRoots
  <2>1. /\ gc.pc = "scan" /\ gc'.pc = "scan" /\ gc'.dead = gc.dead /\ gc'.visited = gc.visited
        /\ gc'.order = gc.order /\ gc'.file = <<>>
    BY <1>0, <1>4 DEF ReadTempRoots, Collection
  <2>2. gc'.dead = {} /\ gc'.visited = {} /\ gc'.order = <<>>
    BY <2>1 DEF SweepInv
  <2> QED
    BY <2>1, <2>2 DEF SweepInv, Removing
<1>5. CASE OpenStoreDir
  <2>1. /\ gc.pc = "scan" /\ gc'.pc = "sweep" /\ gc'.dead = gc.dead /\ gc'.visited = gc.visited
        /\ gc'.order = gc.order /\ gc'.file = <<>>
    BY <1>0, <1>5 DEF OpenStoreDir, Collection
  <2>2. gc'.dead = {} /\ gc'.visited = {} /\ gc'.order = <<>>
    BY <2>1 DEF SweepInv
  <2> QED
    BY <2>1, <2>2 DEF SweepInv, Removing
<1>6. ASSUME NEW p \in Paths, SweepEntry(p) PROVE SweepInv'
  <2>1. /\ gc.pc = "sweep" /\ gc'.pc = "visit" /\ gc'.start = p /\ gc'.todo = {p} /\ gc'.visited = {p}
        /\ gc'.dead = gc.dead /\ gc'.order = gc.order /\ gc'.roots = gc.roots /\ gc'.file = gc.file
    BY <1>0, <1>6 DEF SweepEntry, Collection
  <2>2. gc'.file = <<>>
    BY <2>1 DEF SweepInv
  <2> QED
    BY <2>1, <2>2 DEF SweepInv, Removing
<1>7. ASSUME NEW p \in Paths, Visit(p) PROVE SweepInv'
  <2>0. gc.pc = "visit" /\ gc.file = <<>> /\ p \in gc.todo
    BY <1>7 DEF Visit, SweepInv
  <2>1. ASSUME NEW alive, BailOut(alive) PROVE SweepInv'
    <3>1. /\ gc'.pc = "sweep" /\ gc'.todo = {} /\ gc'.visited = {} /\ gc'.file = gc.file
          /\ gc'.dead = gc.dead /\ gc'.order = gc.order /\ gc'.roots = gc.roots
      BY <1>0, <2>1 DEF BailOut, Collection
    <3> QED
      BY <2>0, <3>1 DEF SweepInv, Removing
  <2>2. CASE p \in gc.dead /\ gc' = [gc EXCEPT !.todo = @ \ {p}]
    <3>1. /\ gc'.pc = "visit" /\ gc'.todo = gc.todo \ {p} /\ gc'.visited = gc.visited
          /\ gc'.file = gc.file /\ gc'.start = gc.start
          /\ gc'.dead = gc.dead /\ gc'.order = gc.order /\ gc'.roots = gc.roots
      BY <1>0, <2>0, <2>2 DEF Collection
    <3>2. gc.roots \cap (gc'.dead \cup (gc'.visited \ gc'.todo)) = {}
      BY <2>2, <3>1 DEF SweepInv
    <3> QED
      BY <2>0, <3>1, <3>2 DEF SweepInv, Removing
  <2>3. CASE p \notin gc.roots /\ gc' = [gc EXCEPT !.pc = "expand", !.todo = @ \ {p}, !.cur = p]
    <3>1. /\ gc'.pc = "expand" /\ gc'.todo = gc.todo \ {p} /\ gc'.visited = gc.visited
          /\ gc'.file = gc.file /\ gc'.start = gc.start /\ gc'.cur = p
          /\ gc'.dead = gc.dead /\ gc'.order = gc.order /\ gc'.roots = gc.roots
      BY <1>0, <2>3 DEF Collection
    <3> QED
      BY <2>0, <2>3, <3>1 DEF SweepInv, Removing
  <2> QED
    BY <1>7, <2>1, <2>2, <2>3 DEF Visit
<1>8. CASE Expand
  <2>1. gc.pc = "expand" /\ gc.file = <<>>
    BY <1>8 DEF Expand, SweepInv
  <2>2. /\ gc'.pc = "visit" /\ gc'.file = gc.file /\ gc'.start = gc.start
        /\ gc'.dead = gc.dead /\ gc'.order = gc.order /\ gc'.roots = gc.roots
    BY <1>0, <1>8 DEF Expand, Collection
  <2>3. gc'.visited \ gc'.todo \subseteq gc.visited \ gc.todo
    <3> DEFINE p == gc.cur
               referrers == IF p \in DOMAIN gc.cache THEN gc.cache[p] ELSE Referrers(p)
    <3>1. \/ gc'.visited = gc.visited /\ gc'.todo = gc.todo
          \/ gc'.visited = gc.visited \cup referrers /\ gc'.todo = gc.todo \cup (referrers \ gc.visited)
      BY <1>0, <1>8 DEF Expand, Collection
    <3> HIDE DEF referrers
    <3> QED
      BY <3>1
  <2> QED
    BY <2>1, <2>2, <2>3 DEF SweepInv, Removing
<1>9. CASE TopoSort
  <2>1. PICK o \in Orders(gc.visited) :
          gc' = [gc EXCEPT !.pc = "delete", !.order = o, !.visited = {}, !.start = NoPath]
    BY <1>9 DEF TopoSort
  <2>2. o \in Seq(Paths) /\ \A i \in 1..Len(o) : o[i] \in gc.visited
    BY <1>0, OrdersType DEF Collection
  <2>3. gc.pc = "visit" /\ gc.todo = {} /\ gc.file = <<>>
    BY <1>9 DEF TopoSort, SweepInv
  <2>4. /\ gc'.pc = "delete" /\ gc'.file = gc.file /\ gc'.order = o /\ gc'.visited = {}
        /\ gc'.dead = gc.dead /\ gc'.roots = gc.roots
    BY <1>0, <2>1 DEF Collection
  <2>5. \A i \in DOMAIN o : o[i] \notin gc.roots
    BY <2>2, <2>3 DEF SweepInv
  <2> QED
    BY <2>3, <2>4, <2>5 DEF SweepInv, Removing
<1>10. CASE DeleteNext
  <2>1. gc.order \in Seq(Paths) /\ gc.order # <<>> /\ gc.pc = "delete" /\ gc.file = <<>>
    BY <1>10, <1>0 DEF DeleteNext, Collection, SweepInv
  <2> DEFINE p == Head(gc.order)
  <2>2. p \in Paths /\ p \notin gc.roots
    BY <2>1 DEF SweepInv
  <2>3. \A i \in DOMAIN Tail(gc.order) : Tail(gc.order)[i] \notin gc.roots
    BY <2>1 DEF SweepInv
  <2>4. /\ gc'.file = gc.file /\ gc'.order = Tail(gc.order) /\ gc'.visited = gc.visited
        /\ gc'.todo = gc.todo /\ gc'.dead = gc.dead \cup {p} /\ gc'.roots = gc.roots
    BY <1>0, <1>10 DEF DeleteNext, Collection
  <2>5. gc'.pc = "delete" \/ (gc'.pc = "invalidate" /\ gc'.cur = p /\ pending' = p)
    BY <1>0, <1>10 DEF DeleteNext, Collection
  <2> HIDE DEF p
  <2> QED
    BY <2>1, <2>2, <2>3, <2>4, <2>5 DEF SweepInv, Removing
<1>11. CASE InvalidatePathChecked \/ DeleteMarker \/ DeleteSome
  <2>1. /\ gc'.file = gc.file /\ gc'.order = gc.order /\ gc'.visited = gc.visited
        /\ gc'.todo = gc.todo /\ gc'.dead = gc.dead /\ gc'.roots = gc.roots
    BY <1>0, <1>11 DEF InvalidatePathChecked, DeleteMarker, DeleteSome, gcVars, Collection
  <2>2. /\ Removing
        /\ \/ gc'.pc = "delete"
           \/ gc'.pc \in {"unmark", "unlink"} /\ gc'.cur = gc.cur /\ pending' = pending
    BY <1>0, <1>11 DEF InvalidatePathChecked, DeleteMarker, DeleteSome, gcVars, Collection, Removing
  <2>3. gc'.file = <<>>
    BY <2>1, <2>2 DEF SweepInv, Removing
  <2> QED
    BY <2>1, <2>2, <2>3 DEF SweepInv, Removing
<1>12. CASE DeleteRest \/ EndEntry
  <2>1. /\ gc'.file = gc.file /\ gc'.order = gc.order /\ gc'.visited = gc.visited
        /\ gc'.todo = gc.todo /\ gc'.dead = gc.dead /\ gc'.roots = gc.roots
        /\ gc.pc \in {"unlink", "delete"} /\ gc'.pc \in {"delete", "stop", "sweep"}
    BY <1>0, <1>12 DEF DeleteRest, EndEntry, Collection
  <2>2. gc'.file = <<>>
    BY <2>1 DEF SweepInv
  <2> QED
    BY <2>1, <2>2 DEF SweepInv, Removing
<1>13. CASE StopServer \/ GCUnlock \/ GCDie
  <2>1. gc' = NoCollection \/ gc' = [NoCollection EXCEPT !.pc = "unlock"]
    BY <1>13 DEF StopServer, GCUnlock, GCDie
  <2>2. /\ gc'.file = <<>> /\ gc'.order = <<>> /\ gc'.visited = {} /\ gc'.dead = {}
        /\ gc'.pc \in {"idle", "unlock"}
    BY <2>1 DEF NoCollection
  <2> QED
    BY <2>2 DEF SweepInv, Removing
<1> QED
  BY <1>1, <1>2, <1>3, <1>4, <1>5, <1>6, <1>7, <1>8, <1>9, <1>10, <1>11, <1>12, <1>13 DEF Collector

--------------------------------------------------------------------------------
(* The database.                                                           *)

LEMMA ClientStoreFrame ==
  ASSUME NEW c \in Clients, Client(c)
  PROVE  /\ Register(c) \/ UNCHANGED valid
         /\ AddPermRoot(c) \/ UNCHANGED perm
         /\ Return(c) \/ (\E p \in Paths : WriteMarker(c, p)) \/ UNCHANGED marker
         /\ (\E p \in Paths : StartUnpack(c, p) \/ EndUnpack(c, p)) \/ UNCHANGED disk
<1> USE DEF storeVars
<1>1. CASE CreateTempRootsFile(c) \/ LockTempRootsFile(c) \/ TryGCLock(c) \/ Connect(c)
           \/ ServerAck(c) \/ ServerInsert(c) \/ Disconnected(c) \/ WriteTempRoot(c)
  BY <1>1 DEF CreateTempRootsFile, LockTempRootsFile, TryGCLock, Connect, ServerAck, ServerInsert,
              Disconnected, WriteTempRoot
<1>2. CASE CheckValid(c) \/ AddPermRoot(c) \/ Recheck(c) \/ Register(c) \/ Return(c)
           \/ FailUnpack(c) \/ Die(c)
  BY <1>2 DEF CheckValid, AddPermRoot, Recheck, Register, Return, FailUnpack, Die
<1>3. ASSUME NEW j, Call(c, j) PROVE UNCHANGED storeVars
  BY <1>3 DEF Call
<1>4. ASSUME NEW p \in Paths, LockPath(c, p) \/ Reuse(c, p)
      PROVE  UNCHANGED <<valid, disk, marker, perm>>
  BY <1>4 DEF LockPath, Reuse
<1>5. ASSUME NEW p \in Paths, StartUnpack(c, p) \/ EndUnpack(c, p)
      PROVE  UNCHANGED <<valid, marker, perm>>
  BY <1>5 DEF StartUnpack, EndUnpack
<1>6. ASSUME NEW p \in Paths, WriteMarker(c, p) PROVE UNCHANGED <<valid, disk, perm>>
  BY <1>6 DEF WriteMarker
<1> QED
  BY <1>1, <1>2, <1>3, <1>4, <1>5, <1>6 DEF Client

LEMMA ClientClosed ==
  ASSUME TypeOK, ValidClosed, NEW c \in Clients, Client(c) PROVE ValidClosed'
<1>1. CASE Register(c)
  <2>1. \/ UNCHANGED valid
        \/ /\ valid' = valid \cup job[c].need
           /\ \A p \in job[c].need : Refs[p] \subseteq valid \cup job[c].need
    BY <1>1 DEF Register
  <2> QED
    BY <2>1 DEF ValidClosed, Closed
<1>2. CASE UNCHANGED valid
  BY <1>2 DEF ValidClosed, Closed
<1> QED
  BY <1>1, <1>2, ClientStoreFrame

LEMMA CollectorClosed ==
  ASSUME ValidClosed, Collector PROVE ValidClosed'
<1>1. CASE InvalidatePathChecked
  <2>1. \/ UNCHANGED valid
        \/ /\ valid' = valid \ {gc.cur}
           /\ gc.cur \in valid => Referrers(gc.cur) \ {gc.cur} = {}
    BY <1>1 DEF InvalidatePathChecked
  <2>2. ASSUME valid' = valid \ {gc.cur}, gc.cur \in valid => Referrers(gc.cur) \ {gc.cur} = {},
               NEW p \in valid', NEW q \in Refs[p]
        PROVE  q \in valid'
    <3>1. p \in valid /\ p # gc.cur /\ q \in valid
      BY <2>2 DEF ValidClosed, Closed
    <3>2. q = gc.cur => p \in Referrers(gc.cur) \ {gc.cur}
      BY <3>1 DEF Referrers
    <3> QED
      BY <2>2, <3>1, <3>2
  <2> QED
    BY <2>1, <2>2 DEF ValidClosed, Closed
<1>2. CASE UNCHANGED valid
  BY <1>2 DEF ValidClosed, Closed
<1> QED
  BY <1>1, <1>2, CollectorFrame

--------------------------------------------------------------------------------
(* What holds in every run, however collections, calls and crashes meet.   *)

BaseInv ==
  /\ TypeOK /\ ProcInv /\ LockInv /\ RootInv /\ ServerInv /\ SweepInv /\ ValidClosed

LEMMA BaseStutter == BaseInv /\ UNCHANGED vars => BaseInv'
<1> SUFFICES ASSUME BaseInv, UNCHANGED vars PROVE BaseInv'
  OBVIOUS
<1> USE DEF BaseInv, vars, storeVars, fileVars, clientVars, gcVars
<1>1. TypeOK'
  BY DEF TypeOK, StoreType, FileType, ProcType, CollectorType, CountType
<1>2. ProcInv' /\ LockInv'
  BY DEF ProcInv, LockInv
<1>3. RootInv'
  BY DEF RootInv, FileRoots, Holds
<1>4. ServerInv' /\ ValidClosed'
  BY DEF ServerInv, Collecting, ValidClosed, Closed
<1>5. SweepInv'
  BY DEF SweepInv, Removing
<1> QED
  BY <1>1, <1>2, <1>3, <1>4, <1>5

LEMMA BaseStep == BaseInv /\ [Next]_vars => BaseInv'
<1> SUFFICES ASSUME BaseInv, [Next]_vars PROVE BaseInv'
  OBVIOUS
<1>1. ASSUME NEW c \in Clients, Client(c) PROVE BaseInv'
  BY <1>1, ClientType, ClientProcInv, ClientLockInv, ClientRootInv, ClientServerInv, ClientSweepInv,
     ClientClosed DEF BaseInv
<1>2. CASE Collector
  BY <1>2, CollectorTypes, CollectorProcInv, CollectorServerInv, CollectorSweepInv, CollectorClosed
  DEF BaseInv
<1> QED
  BY <1>1, <1>2, BaseStutter DEF Next

LEMMA BaseHolds == Spec => []BaseInv
<1>1. Init => BaseInv
  BY InitType, InitProc DEF BaseInv
<1> QED
  BY <1>1, BaseStep, PTL DEF Spec

(* Every variable keeps its type, in particular every lock has a holder or *)
(* none and every open file of temporary roots exists.                     *)
THEOREM TypeCorrect == Spec => []TypeOK
<1>1. BaseInv => TypeOK
  BY DEF BaseInv
<1> QED
  BY <1>1, BaseHolds, PTL

(* The database is closed under references after every registration and    *)
(* every invalidation, whatever else runs: registerValidPaths and          *)
(* invalidatePathChecked look at the references in their transactions.     *)
THEOREM DatabaseClosed == Spec => []ValidClosed
<1>1. BaseInv => ValidClosed
  BY DEF BaseInv
<1> QED
  BY <1>1, BaseHolds, PTL

(* No two processes wait for each other in lockPaths: the locks one holds  *)
(* lie below every lock it still waits for.                                *)
THEOREM LocksNeverCycle == Spec => []NoLockCycle
<1>1. TypeOK /\ LockInv => NoLockCycle
  <2> SUFFICES ASSUME TypeOK, LockInv, NEW c \in Clients, NEW d \in Clients,
                      WaitsFor(c, d), WaitsFor(d, c)
               PROVE  FALSE
    BY DEF NoLockCycle
  <2>1. PICK p \in job[c].need \ job[c].got : locks[p] = d
    BY DEF WaitsFor
  <2>2. PICK q \in job[d].need \ job[d].got : locks[q] = c
    BY DEF WaitsFor
  <2>3. p \in Paths /\ q \in Paths /\ p \in Nat /\ q \in Nat
    BY StoreAssumption DEF TypeOK, Job
  <2>4. p \in job[d].got /\ q \in job[c].got /\ pc[c] = "lock" /\ pc[d] = "lock"
    BY <2>1, <2>2, <2>3 DEF LockInv, WaitsFor
  <2>5. p < q /\ q < p
    BY <2>4 DEF LockInv
  <2> QED
    BY <2>3, <2>5
<1>2. BaseInv => TypeOK /\ LockInv
  BY DEF BaseInv
<1> QED
  BY <1>1, <1>2, BaseHolds, PTL

--------------------------------------------------------------------------------
(* Collections that start quietly find every root.                         *)

(* A step leaves a process's roots alone, drops them with its file, or     *)
(* writes the one the process was told is safe.                            *)
LEMMA ClientFileRoots ==
  ASSUME TypeOK, ProcInv, NEW c \in Clients, Client(c)
  PROVE  \/ FileRoots(c)' = {}
         \/ /\ link'[c] = link[c] /\ fd'[c] = fd[c]
            /\ \/ FileRoots(c)' = FileRoots(c)
               \/ pc[c] = "write" /\ FileRoots(c)' = FileRoots(c) \cup {job[c].cur}
<1> USE DEF TypeOK, ProcType, FileType, fileVars
<1>1. CASE CreateTempRootsFile(c) \/ Die(c)
  <2>1. ~Holds(c)'
    BY <1>1 DEF CreateTempRootsFile, Die, Holds
  <2> QED
    BY <2>1 DEF FileRoots
<1>2. CASE LockTempRootsFile(c)
  <2>1. fd'[c] = NoFile \/ (fd'[c] = fd[c] /\ node' = node /\ pc[c] = "flock")
    BY <1>2 DEF LockTempRootsFile
  <2>2. pc[c] = "flock" => node[c][fd[c]].roots = {}
    BY DEF ProcInv
  <2> QED
    BY <2>1, <2>2 DEF FileRoots, Holds
<1>3. CASE WriteTempRoot(c)
  <2>1. UNCHANGED <<link, fd>> /\ pc[c] = "write"
    BY <1>3 DEF WriteTempRoot
  <2> QED
    BY <1>3, <2>1, WriteRoots
<1>4. CASE TryGCLock(c) \/ Connect(c) \/ ServerInsert(c) \/ ServerAck(c) \/ Disconnected(c)
  <2>1. UNCHANGED <<link, fd, node>> /\ (pc[c] = "flock" <=> pc'[c] = "flock")
    BY <1>4 DEF TryGCLock, Connect, ServerInsert, ServerAck, Disconnected
  <2> QED
    BY <2>1, SameFileRoots
<1>5. CASE CheckValid(c) \/ AddPermRoot(c) \/ Recheck(c) \/ Register(c) \/ Return(c) \/ FailUnpack(c)
  <2>1. UNCHANGED <<link, fd, node>> /\ (pc[c] = "flock" <=> pc'[c] = "flock")
    BY <1>5 DEF CheckValid, AddPermRoot, Recheck, Register, Return, FailUnpack
  <2> QED
    BY <2>1, SameFileRoots
<1>6. ASSUME NEW j, Call(c, j)
      PROVE  UNCHANGED <<link, fd, node>> /\ (pc[c] = "flock" <=> pc'[c] = "flock")
  BY <1>6 DEF Call
<1>7. ASSUME NEW p,
             LockPath(c, p) \/ Reuse(c, p) \/ StartUnpack(c, p) \/ EndUnpack(c, p) \/ WriteMarker(c, p)
      PROVE  UNCHANGED <<link, fd, node, pc>>
  BY <1>7 DEF LockPath, Reuse, StartUnpack, EndUnpack, WriteMarker
<1> QED
  BY <1>1, <1>2, <1>3, <1>4, <1>5, <1>6, <1>7, SameFileRoots DEF Client

(* A process gets to "write" without the GC lock only by the answer of the *)
(* running collection.                                                     *)
LEMMA ClientWrites ==
  ASSUME TypeOK, NEW c \in Clients, Client(c), pc'[c] = "write"
  PROVE  /\ job'[c] = job[c] /\ UNCHANGED temp
         /\ ~Collecting \/ ServerAck(c)
<1> USE DEF TypeOK, ProcType
<1>1. CASE TryGCLock(c) \/ ServerAck(c)
  BY <1>1 DEF TryGCLock, ServerAck, gcVars
<1>2. CASE CreateTempRootsFile(c) \/ LockTempRootsFile(c) \/ Connect(c) \/ ServerInsert(c)
           \/ Disconnected(c) \/ WriteTempRoot(c)
  BY <1>2 DEF CreateTempRootsFile, LockTempRootsFile, Connect, ServerInsert, Disconnected, WriteTempRoot
<1>3. CASE CheckValid(c) \/ AddPermRoot(c) \/ Recheck(c) \/ Register(c) \/ Return(c)
           \/ FailUnpack(c) \/ Die(c)
  BY <1>3 DEF CheckValid, AddPermRoot, Recheck, Register, Return, FailUnpack, Die
<1>4. ASSUME NEW j, Call(c, j) PROVE FALSE
  BY <1>4 DEF Call
<1>5. ASSUME NEW p,
             LockPath(c, p) \/ Reuse(c, p) \/ StartUnpack(c, p) \/ EndUnpack(c, p) \/ WriteMarker(c, p)
      PROVE  FALSE
  BY <1>5 DEF LockPath, Reuse, StartUnpack, EndUnpack, WriteMarker
<1> QED
  BY <1>1, <1>2, <1>3, <1>4, <1>5 DEF Client

Sweeping == {"sweep", "visit", "expand", "delete", "invalidate", "unmark", "unlink"}

ScanAt(c) ==
  /\ gc.pc \notin {"idle", "unlock"} => (pc[c] = "write" => job[c].cur \in temp)
  /\ gc.pc \in {"listen", "roots"} => (Holds(c) => Told(c) \/ link[c] = fd[c])
  /\ gc.pc = "scan" =>
       (Holds(c) => Told(c) \/ (c \in gc.files /\ link[c] = fd[c]) \/ gc.file = <<c, fd[c]>>)
  /\ gc.pc \in Sweeping => Told(c)

LEMMA ScanIsAt == ScanInv <=> \A c \in Clients : ScanAt(c)
BY DEF ScanInv, ScanAt, Sweeping

LEMMA ClientScanInv ==
  ASSUME BaseInv, ScanInv, NEW c \in Clients, Client(c) PROVE ScanInv'
<1>0. TypeOK /\ ProcInv /\ gc' = gc /\ temp \subseteq temp'
  BY ClientGC DEF BaseInv
<1>1. ScanAt(c)'
  <2>0. ScanAt(c)
    BY ScanIsAt
  <2>1. gc.pc \notin {"idle", "unlock"} => (pc'[c] = "write" => job'[c].cur \in temp')
    BY <1>0, ClientWrites DEF BaseInv, ServerInv, ServerAck, Collecting
  <2>2. CASE FileRoots(c)' = {}
    BY <1>0, <2>1, <2>2 DEF ScanAt, Told
  <2>3. CASE /\ FileRoots(c)' # {} /\ link'[c] = link[c] /\ fd'[c] = fd[c]
             /\ \/ FileRoots(c)' = FileRoots(c)
                \/ pc[c] = "write" /\ FileRoots(c)' = FileRoots(c) \cup {job[c].cur}
    <3>1. Holds(c)
      BY <1>0, <2>3 DEF FileRoots, Holds, ProcInv
    <3>2. gc.pc \notin {"idle", "unlock"} => (Told(c) => Told(c)')
      BY <1>0, <2>0, <2>3 DEF ScanAt, Told
    <3> QED
      BY <1>0, <2>0, <2>1, <2>3, <3>1, <3>2 DEF ScanAt, Sweeping
  <2> QED
    BY <1>0, <2>2, <2>3, ClientFileRoots
<1>2. ASSUME NEW d \in Clients, d # c PROVE ScanAt(d)'
  <2>1. ScanAt(d)
    BY ScanIsAt
  <2>2. /\ pc'[d] = pc[d] /\ job'[d] = job[d] /\ fd'[d] = fd[d] /\ link'[d] = link[d]
        /\ node'[d] = node[d]
    BY <1>0, <1>2, ClientAlone
  <2>3. FileRoots(d)' = FileRoots(d) /\ (Holds(d)' <=> Holds(d))
    BY <2>2, SameFileRoots DEF Holds
  <2>4. Told(d) => Told(d)'
    BY <1>0, <2>3 DEF Told
  <2> QED
    BY <1>0, <2>1, <2>2, <2>3, <2>4 DEF ScanAt
<1> QED
  BY <1>1, <1>2 DEF ScanInv, ScanAt, Sweeping

(* Once the roots are known, nothing but the end of the collection touches *)
(* what the server was told.                                               *)
LEMMA SweepSteps ==
  ASSUME TypeOK, SweepInv, Collector
  PROVE  \/ GCLock \/ GCListen \/ FindRootsNoTemp \/ ReadTempRoots \/ OpenStoreDir
         \/ \E c \in Clients : OpenTempRoots(c)
         \/ gc'.pc \in {"idle", "unlock"}
         \/ gc.pc \in Sweeping /\ gc'.pc \in Sweeping \cup {"stop"} /\ temp' = temp
<1>0. gc \in Collection
  BY DEF TypeOK, CollectorType
<1> USE DEF Sweeping
<1>1. ASSUME NEW p, SweepEntry(p)
      PROVE  gc.pc \in Sweeping /\ gc'.pc \in Sweeping /\ temp' = temp
  BY <1>0, <1>1 DEF SweepEntry, Collection
<1>2. ASSUME NEW p, Visit(p) PROVE gc.pc \in Sweeping /\ gc'.pc \in Sweeping /\ temp' = temp
  <2>1. gc.pc = "visit" /\ temp' = temp
    BY <1>2 DEF Visit
  <2>2. ASSUME NEW a, BailOut(a) PROVE gc'.pc = "sweep"
    BY <1>0, <2>2 DEF BailOut, Collection
  <2>3. \/ \E a : BailOut(a)
        \/ gc' = [gc EXCEPT !.todo = @ \ {p}]
        \/ gc' = [gc EXCEPT !.pc = "expand", !.todo = @ \ {p}, !.cur = p]
    BY <1>2 DEF Visit
  <2>4. gc'.pc \in {"sweep", "visit", "expand"}
    BY <1>0, <2>1, <2>2, <2>3 DEF Collection
  <2> QED
    BY <2>1, <2>4
<1>3. CASE Expand \/ TopoSort \/ DeleteNext
  <2>1. gc.pc \in Sweeping /\ temp' = temp
    BY <1>3 DEF Expand, TopoSort, DeleteNext
  <2>2. gc'.pc \in Sweeping
    BY <1>0, <1>3 DEF Expand, TopoSort, DeleteNext, Collection
  <2> QED
    BY <2>1, <2>2
<1>4. CASE InvalidatePathChecked \/ DeleteMarker \/ DeleteSome \/ DeleteRest \/ EndEntry
  <2>1. gc.pc \in Sweeping /\ temp' = temp
    BY <1>4 DEF InvalidatePathChecked, DeleteMarker, DeleteSome, DeleteRest, EndEntry, gcVars
  <2>2. gc'.pc \in Sweeping \cup {"stop"}
    BY <1>0, <1>4 DEF InvalidatePathChecked, DeleteMarker, DeleteSome, DeleteRest, EndEntry, gcVars,
                      Collection
  <2> QED
    BY <2>1, <2>2
<1>5. CASE StopServer \/ GCUnlock \/ GCDie
  BY <1>5 DEF StopServer, GCUnlock, GCDie, NoCollection
<1> QED
  BY <1>1, <1>2, <1>3, <1>4, <1>5 DEF Collector

LEMMA CollectorScanInv ==
  ASSUME BaseInv, ScanInv, Collector, QuietStart PROVE ScanInv'
<1>0. TypeOK /\ SweepInv /\ gc \in Collection
  BY DEF BaseInv, TypeOK, CollectorType
<1> SUFFICES ASSUME NEW c \in Clients PROVE ScanAt(c)'
  BY DEF ScanInv, ScanAt, Sweeping
<1>1. /\ UNCHANGED <<pc, job, fd>> /\ FileRoots(c)' = FileRoots(c) /\ (Holds(c)' <=> Holds(c))
      /\ ScanAt(c)
  BY <1>0, CollectorFrame, CollectorRoots, ScanIsAt DEF Holds
<1>2. link' = link \/ ReadTempRoots
  BY CollectorFrame
<1>3. temp \subseteq temp' => (Told(c) => Told(c)')
  BY <1>1 DEF Told
<1>4. CASE GCLock
  <2>1. gc'.pc = "listen" /\ link' = link
    BY <1>0, <1>4 DEF GCLock, Collection, fileVars
  <2>2. pc[c] # "write" /\ (Holds(c) => link[c] = fd[c])
    BY <1>4 DEF QuietStart
  <2> QED
    BY <1>1, <2>1, <2>2 DEF ScanAt, Sweeping
<1>5. CASE GCListen
  <2>1. gc'.pc = "roots" /\ gc.pc = "listen" /\ link' = link /\ temp' = temp
    BY <1>0, <1>5 DEF GCListen, Collection, fileVars
  <2> QED
    BY <1>1, <1>3, <2>1 DEF ScanAt, Sweeping
<1>6. CASE FindRootsNoTemp
  <2>1. /\ gc'.pc = "scan" /\ gc.pc = "roots" /\ link' = link /\ temp' = temp
        /\ gc'.files = {d \in Clients : link[d] # NoFile}
    BY <1>0, <1>6 DEF FindRootsNoTemp, Collection, fileVars
  <2>2. Holds(c) /\ link[c] = fd[c] => c \in gc'.files
    BY <2>1 DEF Holds
  <2> QED
    BY <1>1, <1>3, <2>1, <2>2 DEF ScanAt, Sweeping
<1>7. ASSUME NEW e \in Clients, OpenTempRoots(e) PROVE ScanAt(c)'
  <2>1. /\ gc'.pc = "scan" /\ gc.pc = "scan" /\ link' = link /\ temp' = temp /\ gc.file = <<>>
        /\ gc'.files = gc.files \ {e}
        /\ gc'.file = IF link[e] = NoFile THEN <<>> ELSE <<e, link[e]>>
    BY <1>0, <1>7 DEF OpenTempRoots, Collection, fileVars
  <2>2. Holds(c) => Told(c) \/ (c \in gc.files /\ link[c] = fd[c] /\ fd[c] # NoFile)
    BY <1>1, <2>1 DEF ScanAt, Holds
  <2>3. Holds(c) => Told(c) \/ (c \in gc'.files /\ link[c] = fd[c]) \/ gc'.file = <<c, fd[c]>>
    BY <2>1, <2>2
  <2> QED
    BY <1>1, <1>3, <2>1, <2>3 DEF ScanAt, Sweeping
<1>8. CASE ReadTempRoots
  <2>1. gc'.pc = "scan" /\ gc.pc = "scan" /\ gc'.files = gc.files /\ gc.file # <<>>
    BY <1>0, <1>8 DEF ReadTempRoots, Collection
  <2> DEFINE e == gc.file[1]
             i == gc.file[2]
  <2>2. /\ e \in Clients /\ e \notin gc.files /\ temp \subseteq temp'
        /\ \/ Holds(e) /\ fd[e] = i /\ temp' = temp \cup node[e][i].roots /\ link' = link
           \/ ~(Holds(e) /\ fd[e] = i) /\ link' = [link EXCEPT ![e] = NoFile]
    BY <1>0, <1>8, <2>1 DEF ReadTempRoots, SweepInv, Collection, OpenFile, fileVars
  <2>3. gc.file = <<c, fd[c]>> => e = c /\ i = fd[c]
    OBVIOUS
  <2>4. Holds(c) /\ e = c /\ i = fd[c] => Told(c)'
    BY <1>1, <2>2 DEF Told, FileRoots
  <2>5. c \in gc.files => link'[c] = link[c]
    BY <1>0, <2>2 DEF TypeOK, FileType
  <2>6. pc[c] = "write" => job[c].cur \in temp'
    BY <1>1, <2>1, <2>2 DEF ScanAt
  <2>7. Holds(c) => Told(c)' \/ (c \in gc.files /\ link'[c] = fd[c])
    BY <1>1, <1>3, <2>1, <2>2, <2>3, <2>4, <2>5 DEF ScanAt
  <2> QED
    BY <1>1, <2>1, <2>6, <2>7 DEF ScanAt, Sweeping
<1>9. CASE OpenStoreDir
  <2>1. gc'.pc = "sweep" /\ gc.pc = "scan" /\ gc.files = {} /\ gc.file = <<>> /\ temp' = temp
    BY <1>0, <1>9 DEF OpenStoreDir, Collection
  <2>2. Told(c)
    <3>1. Holds(c) => Told(c)
      BY <1>1, <2>1 DEF ScanAt
    <3> QED
      BY <3>1 DEF Told, FileRoots
  <2> QED
    BY <1>1, <1>3, <2>1, <2>2 DEF ScanAt, Sweeping
<1>10. CASE gc'.pc \in {"idle", "unlock"}
  BY <1>10 DEF ScanAt, Sweeping
<1>11. CASE gc.pc \in Sweeping /\ gc'.pc \in Sweeping \cup {"stop"} /\ temp' = temp
  BY <1>1, <1>3, <1>11 DEF ScanAt, Sweeping
<1> QED
  BY <1>0, <1>4, <1>5, <1>6, <1>7, <1>8, <1>9, <1>10, <1>11, SweepSteps

(* Nobody relies on what is deleted, or gets to write it.                  *)
LEMMA ClientDeleteInv ==
  ASSUME BaseInv, DeleteInv, NEW c \in Clients, Client(c) PROVE DeleteInv'
<1>0. TypeOK /\ ProcInv /\ gc' = gc /\ pending' = pending
  BY ClientGC DEF BaseInv
<1>1. ASSUME Removing, NEW d \in Clients
      PROVE  gc.cur \notin FileRoots(d)' /\ (pc'[d] = "write" => job'[d].cur # gc.cur)
  <2>1. pending = gc.cur /\ Collecting
    BY <1>1 DEF BaseInv, SweepInv, Removing, Collecting
  <2>2. gc.cur \notin FileRoots(d) /\ (pc[d] = "write" => job[d].cur # gc.cur)
    BY <1>1 DEF DeleteInv
  <2>3. CASE d = c
    <3>1. gc.cur \notin FileRoots(d)'
      BY <1>0, <2>2, <2>3, ClientFileRoots
    <3>2. pc'[d] = "write" => job'[d].cur # gc.cur
      BY <1>0, <2>1, <2>3, ClientWrites DEF ServerAck
    <3> QED
      BY <3>1, <3>2
  <2>4. CASE d # c
    BY <1>0, <2>2, <2>4, ClientAlone, SameFileRoots
  <2> QED
    BY <2>3, <2>4
<1>2. ASSUME gc.pc \in {"unmark", "unlink"} PROVE gc.cur \notin valid'
  <2>1. gc.cur \notin valid /\ gc.cur \notin FileRoots(c)
    BY <1>2 DEF DeleteInv, Removing
  <2>2. valid' \subseteq valid \cup job[c].need
    BY ClientStoreFrame DEF Register
  <2> QED
    BY <2>1, <2>2 DEF BaseInv, RootInv
<1> QED
  BY <1>0, <1>1, <1>2 DEF DeleteInv, Removing

LEMMA CollectorDeleteInv ==
  ASSUME BaseInv, ScanInv, DeleteInv, Collector PROVE DeleteInv'
<1>0. TypeOK /\ SweepInv /\ gc \in Collection
  BY DEF BaseInv, TypeOK, CollectorType
<1>1. \A c \in Clients : FileRoots(c)' = FileRoots(c)
  BY <1>0, CollectorRoots
<1>2. UNCHANGED <<pc, job>>
  BY CollectorFrame
<1>3. CASE DeleteNext
  <2>1. gc.pc = "delete" /\ (gc'.pc = "delete" \/ (gc'.pc = "invalidate" /\ gc'.cur \notin temp))
    BY <1>0, <1>3 DEF DeleteNext, Collection
  <2>2. \A c \in Clients : FileRoots(c) \subseteq temp /\ (pc[c] = "write" => job[c].cur \in temp)
    BY <2>1 DEF ScanInv, Told
  <2> QED
    BY <1>1, <1>2, <2>1, <2>2 DEF DeleteInv, Removing
<1>4. CASE InvalidatePathChecked \/ DeleteMarker \/ DeleteSome
  <2>1. /\ Removing
        /\ \/ gc'.pc = "delete"
           \/ gc'.pc \in {"unmark", "unlink"} /\ gc'.cur = gc.cur
    BY <1>0, <1>4 DEF InvalidatePathChecked, DeleteMarker, DeleteSome, gcVars, Collection, Removing
  <2>2. gc'.pc \in {"unmark", "unlink"} => gc.cur \notin valid'
    BY <1>0, <1>4 DEF InvalidatePathChecked, DeleteMarker, DeleteSome, DeleteInv, Collection
  <2> QED
    BY <1>1, <1>2, <2>1, <2>2 DEF DeleteInv, Removing
<1>5. CASE DeleteRest \/ EndEntry \/ StopServer \/ GCUnlock \/ GCDie
  <2>1. gc'.pc \in {"delete", "stop", "sweep", "idle", "unlock"}
    <3>1. CASE DeleteRest \/ EndEntry
      BY <1>0, <3>1 DEF DeleteRest, EndEntry, Collection
    <3>2. CASE StopServer \/ GCUnlock \/ GCDie
      BY <3>2 DEF StopServer, GCUnlock, GCDie, NoCollection
    <3> QED
      BY <1>5, <3>1, <3>2
  <2> QED
    BY <2>1 DEF DeleteInv, Removing
<1>6. CASE GCLock \/ GCListen \/ FindRootsNoTemp \/ ReadTempRoots \/ OpenStoreDir \/ Expand \/ TopoSort
  <2>1. gc'.pc \in {"listen", "roots", "scan", "sweep", "visit", "delete"}
    <3>1. CASE GCLock \/ GCListen \/ FindRootsNoTemp
      BY <1>0, <3>1 DEF GCLock, GCListen, FindRootsNoTemp, Collection
    <3>2. CASE ReadTempRoots \/ OpenStoreDir
      BY <1>0, <3>2 DEF ReadTempRoots, OpenStoreDir, Collection
    <3>3. CASE Expand
      BY <1>0, <3>3 DEF Expand, Collection
    <3>4. CASE TopoSort
      BY <1>0, <3>4 DEF TopoSort, Collection
    <3> QED
      BY <1>6, <3>1, <3>2, <3>3, <3>4
  <2> QED
    BY <2>1 DEF DeleteInv, Removing
<1>7. ASSUME NEW c \in Clients, OpenTempRoots(c) PROVE gc'.pc = "scan"
  BY <1>0, <1>7 DEF OpenTempRoots, Collection
<1>8. ASSUME NEW p \in Paths, SweepEntry(p) PROVE gc'.pc = "visit"
  BY <1>0, <1>8 DEF SweepEntry, Collection
<1>9. ASSUME NEW p \in Paths, Visit(p) PROVE gc'.pc \in {"sweep", "visit", "expand"}
  <2>2. ASSUME NEW a, BailOut(a) PROVE gc'.pc = "sweep"
    BY <1>0, <2>2 DEF BailOut, Collection
  <2>3. /\ gc.pc = "visit"
        /\ \/ \E a : BailOut(a)
           \/ gc' = [gc EXCEPT !.todo = @ \ {p}]
           \/ gc' = [gc EXCEPT !.pc = "expand", !.todo = @ \ {p}, !.cur = p]
    BY <1>9 DEF Visit
  <2> QED
    BY <1>0, <2>2, <2>3 DEF Collection
<1>10. CASE gc'.pc \in {"scan", "sweep", "visit", "expand"}
  BY <1>10 DEF DeleteInv, Removing
<1> QED
  BY <1>3, <1>4, <1>5, <1>6, <1>7, <1>8, <1>9, <1>10 DEF Collector

(* What has a root stays registered.                                       *)
LEMMA ClientRely ==
  ASSUME TypeOK, NEW c \in Clients, Client(c)
  PROVE  /\ valid \subseteq valid'
         /\ rely'[c] \subseteq rely[c] \cup valid'
<1> USE DEF TypeOK, ProcType, storeVars
<1>1. CASE Register(c)
  BY <1>1 DEF Register
<1>2. CASE Recheck(c) \/ Die(c)
  BY <1>2 DEF Recheck, Die
<1>3. CASE CheckValid(c)
  <2>1. valid' = valid /\ rely'[c] = rely[c] \cup ({job[c].cur} \cap valid)
    BY <1>3 DEF CheckValid
  <2> QED
    BY <2>1
<1>4. CASE CreateTempRootsFile(c) \/ LockTempRootsFile(c) \/ TryGCLock(c) \/ Connect(c)
           \/ ServerAck(c) \/ ServerInsert(c) \/ Disconnected(c) \/ WriteTempRoot(c)
  BY <1>4 DEF CreateTempRootsFile, LockTempRootsFile, TryGCLock, Connect, ServerAck, ServerInsert,
              Disconnected, WriteTempRoot
<1>5. CASE AddPermRoot(c) \/ Return(c) \/ FailUnpack(c)
  BY <1>5 DEF AddPermRoot, Return, FailUnpack
<1>6. ASSUME NEW j, Call(c, j) PROVE UNCHANGED <<valid, rely>>
  BY <1>6 DEF Call
<1>7. ASSUME NEW p,
             LockPath(c, p) \/ Reuse(c, p) \/ StartUnpack(c, p) \/ EndUnpack(c, p) \/ WriteMarker(c, p)
      PROVE  UNCHANGED <<valid, rely>>
  BY <1>7 DEF LockPath, Reuse, StartUnpack, EndUnpack, WriteMarker
<1> QED
  BY <1>1, <1>2, <1>3, <1>4, <1>5, <1>6, <1>7 DEF Client

LEMMA CollectorKeeps ==
  ASSUME TypeOK, Collector
  PROVE  gc'.roots \subseteq gc.roots \cup valid'
<1>0. gc \in Collection
  BY DEF TypeOK, CollectorType
<1>1. CASE GCLock \/ GCListen \/ ReadTempRoots \/ OpenStoreDir \/ TopoSort \/ DeleteNext
  <2>1. CASE GCLock \/ GCListen \/ ReadTempRoots \/ OpenStoreDir
    BY <1>0, <2>1 DEF GCLock, GCListen, ReadTempRoots, OpenStoreDir, Collection
  <2>2. CASE TopoSort \/ DeleteNext
    BY <1>0, <2>2 DEF TopoSort, DeleteNext, Collection
  <2> QED
    BY <1>1, <2>1, <2>2
<1>2. CASE FindRootsNoTemp
  BY <1>0, <1>2 DEF FindRootsNoTemp, Collection, storeVars
<1>3. CASE \/ \E c \in Clients : OpenTempRoots(c)
           \/ \E p \in Paths : SweepEntry(p)
  BY <1>0, <1>3 DEF OpenTempRoots, SweepEntry, Collection
<1>4. ASSUME NEW p \in Paths, Visit(p) PROVE gc'.roots = gc.roots
  <2>1. ASSUME NEW a, BailOut(a) PROVE gc'.roots = gc.roots
    BY <1>0, <2>1 DEF BailOut, Collection
  <2>2. \/ \E a : BailOut(a)
        \/ gc' = [gc EXCEPT !.todo = @ \ {p}]
        \/ gc' = [gc EXCEPT !.pc = "expand", !.todo = @ \ {p}, !.cur = p]
    BY <1>4 DEF Visit
  <2> QED
    BY <1>0, <2>1, <2>2 DEF Collection
<1>5. CASE Expand
  BY <1>0, <1>5 DEF Expand, Collection
<1>6. CASE InvalidatePathChecked \/ DeleteMarker \/ DeleteSome \/ DeleteRest \/ EndEntry
  <2>1. CASE InvalidatePathChecked \/ DeleteMarker \/ DeleteSome
    BY <1>0, <2>1 DEF InvalidatePathChecked, DeleteMarker, DeleteSome, gcVars, Collection
  <2>2. CASE DeleteRest \/ EndEntry
    BY <1>0, <2>2 DEF DeleteRest, EndEntry, Collection
  <2> QED
    BY <1>6, <2>1, <2>2
<1>7. CASE StopServer \/ GCUnlock \/ GCDie
  BY <1>7 DEF StopServer, GCUnlock, GCDie, NoCollection
<1> QED
  BY <1>1, <1>2, <1>3, <1>4, <1>5, <1>6, <1>7 DEF Collector

LEMMA ClientKeptInv ==
  ASSUME BaseInv, KeptInv, NEW c \in Clients, Client(c) PROVE KeptInv'
<1>1. TypeOK /\ gc' = gc
  BY ClientGC DEF BaseInv
<1>2. valid \subseteq valid' /\ rely'[c] \subseteq rely[c] \cup valid'
  BY <1>1, ClientRely
<1>3. \A d \in Clients : d # c => rely'[d] = rely[d]
  BY <1>1, ClientAlone
<1> QED
  BY <1>1, <1>2, <1>3 DEF KeptInv

LEMMA CollectorKeptInv ==
  ASSUME BaseInv, DeleteInv, KeptInv, Collector PROVE KeptInv'
<1>1. gc'.roots \subseteq gc.roots \cup valid' /\ rely' = rely
  BY CollectorKeeps, CollectorFrame DEF BaseInv
<1>2. CASE InvalidatePathChecked
  <2>1. valid \ {gc.cur} \subseteq valid' /\ Removing
    BY <1>2 DEF InvalidatePathChecked, Removing
  <2>2. gc.cur \notin gc.roots
    BY <2>1 DEF BaseInv, SweepInv
  <2>3. \A c \in Clients : gc.cur \notin rely[c]
    BY <2>1 DEF DeleteInv, BaseInv, RootInv
  <2> QED
    BY <1>1, <2>1, <2>2, <2>3 DEF KeptInv
<1>3. CASE UNCHANGED valid
  BY <1>1, <1>3 DEF KeptInv
<1> QED
  BY <1>2, <1>3, CollectorFrame

QuietInv == ScanInv /\ DeleteInv /\ KeptInv

LEMMA QuietInit == Init => QuietInv
<1> SUFFICES ASSUME Init PROVE QuietInv
  OBVIOUS
<1>1. gc.pc = "idle" /\ gc.roots = {} /\ \A c \in Clients : rely[c] = {}
  BY DEF Init, NoCollection
<1> QED
  BY <1>1 DEF QuietInv, ScanInv, DeleteInv, KeptInv, Removing

LEMMA QuietStep == BaseInv /\ QuietInv /\ [Next]_vars /\ [QuietStart]_vars => QuietInv'
<1> SUFFICES ASSUME BaseInv, QuietInv, [Next]_vars, [QuietStart]_vars PROVE QuietInv'
  OBVIOUS
<1>1. CASE UNCHANGED vars
  <2> USE <1>1 DEF QuietInv, vars, storeVars, fileVars, clientVars, gcVars
  <2>1. ScanInv'
    BY DEF ScanInv, Told, FileRoots, Holds
  <2>2. DeleteInv' /\ KeptInv'
    BY DEF DeleteInv, KeptInv, Removing, FileRoots, Holds
  <2> QED
    BY <2>1, <2>2
<1>2. ASSUME NEW c \in Clients, Client(c) PROVE QuietInv'
  BY <1>2, ClientScanInv, ClientDeleteInv, ClientKeptInv DEF QuietInv
<1>3. CASE Collector /\ QuietStart
  BY <1>3, CollectorScanInv, CollectorDeleteInv, CollectorKeptInv DEF QuietInv
<1> QED
  BY <1>1, <1>2, <1>3 DEF Next

LEMMA QuietHolds == Spec /\ [][QuietStart]_vars => []QuietInv
BY QuietInit, QuietStep, BaseHolds, PTL DEF Spec

(* When every collection starts quietly (QuietStart), no two processes     *)
(* write the same path, and the collector never deletes one that is being  *)
(* written: the locks exclude the former, and the answer to addTempRoots,  *)
(* which waits for `pending', the latter.                                  *)
THEOREM WritersAlone == Spec /\ [][QuietStart]_vars => []WriterAlone
<1>1. BaseInv /\ QuietInv => WriterAlone
  <2> SUFFICES ASSUME BaseInv, QuietInv, NEW c \in Clients, NEW p \in Writing(c)
               PROVE  /\ \A d \in Clients \ {c} : p \notin Writing(d)
                      /\ ~(gc.pc \in {"unmark", "unlink"} /\ gc.cur = p)
    BY DEF WriterAlone
  <2>1. ASSUME NEW d \in Clients, p \in Writing(d)
        PROVE  p \in job[d].need /\ p \in Paths /\ locks[p] = d
    <3>1. pc[d] = "unpack" /\ p \in job[d].open
      BY <2>1 DEF Writing
    <3>2. p \in job[d].need /\ p \in job[d].got
      BY <3>1 DEF BaseInv, LockInv
    <3>3. p \in Paths
      BY <3>2 DEF BaseInv, TypeOK, Job
    <3> QED
      BY <3>2, <3>3 DEF BaseInv, LockInv
  <2>2. p \in FileRoots(c)
    BY <2>1 DEF BaseInv, RootInv
  <2> QED
    BY <2>1, <2>2 DEF QuietInv, DeleteInv, Removing
<1> QED
  BY <1>1, BaseHolds, QuietHolds, PTL

(* Nor does a path that a running process relies on, or that had a         *)
(* permanent root when the collection looked, lose its registration.       *)
THEOREM RootsStayValid == Spec /\ [][QuietStart]_vars => []KeptInv
<1>1. QuietInv => KeptInv
  BY DEF QuietInv
<1> QED
  BY <1>1, QuietHolds, PTL

--------------------------------------------------------------------------------
(* What is on disk.                                                        *)

(* No path is added by both functions: addMultipleToStore trusts a marker  *)
(* that addToStore does not know of (StoreMarker shows what happens then). *)
Separate == AddedBy("single") \cap AddedBy("multi") = {}

KindAt(c) ==
  \A k \in {"single", "multi"} : job[c].kind = k =>
    (({job[c].cur} \cap Paths) \cup job[c].todo \cup job[c].need) \subseteq AddedBy(k)

LEMMA KindKept ==
  ASSUME TypeOK, NEW c \in Clients, KindAt(c),
         \/ job'[c] = Idle
         \/ /\ job'[c].kind = job[c].kind
            /\ {job'[c].cur} \cap Paths \subseteq ({job[c].cur} \cap Paths) \cup job[c].todo
            /\ job'[c].todo \subseteq job[c].todo
            /\ job'[c].need \subseteq job[c].need \cup ({job[c].cur} \cap Paths)
  PROVE  KindAt(c)'
BY DEF KindAt, Idle, NoPath

LEMMA ClientKindAt ==
  ASSUME TypeOK, ProcInv, KindInv, NEW c \in Clients, Client(c) PROVE KindAt(c)'
<1>0. KindAt(c) /\ job[c] \in Job
  BY DEF KindInv, KindAt, TypeOK
<1> USE DEF TypeOK
<1>1. ASSUME NEW j \in Jobs, Call(c, j) PROVE KindAt(c)'
  <2>1. PICK p \in j.paths :
          job' = [job EXCEPT ![c] = [Idle EXCEPT !.kind = j.kind, !.cur = p, !.todo = j.paths \ {p}]]
    BY <1>1 DEF Call
  <2>2. /\ job'[c].kind = j.kind /\ job'[c].cur = p /\ job'[c].todo \subseteq j.paths
        /\ job'[c].need = {}
    BY <2>1 DEF Idle
  <2>3. j.paths \subseteq AddedBy(j.kind)
    BY DEF AddedBy
  <2> QED
    BY <2>2, <2>3 DEF KindAt
<1>2. CASE CheckValid(c)
  <2>1. pc[c] = "check"
    BY <1>2 DEF CheckValid
  <2>2. job[c].cur \in Paths
    BY <2>1 DEF ProcInv
  <2>3. Needed(c) \subseteq job[c].need \cup ({job[c].cur} \cap Paths)
    BY <2>2 DEF Needed
  <2>4. NoPath \notin Paths
    BY StoreAssumption DEF NoPath
  <2>5. \/ job'[c] = Idle
        \/ /\ job'[c].kind = job[c].kind
           /\ {job'[c].cur} \cap Paths \subseteq ({job[c].cur} \cap Paths) \cup job[c].todo
           /\ job'[c].todo \subseteq job[c].todo /\ job'[c].need = Needed(c)
    BY <1>2, <2>4, CheckValidFacts DEF Goes
  <2> QED
    BY <1>0, <2>3, <2>5, KindKept
<1>3. ASSUME NEW p \in Paths,
             LockPath(c, p) \/ Reuse(c, p) \/ StartUnpack(c, p) \/ EndUnpack(c, p) \/ WriteMarker(c, p)
      PROVE  KindAt(c)'
  <2>1. /\ job'[c].kind = job[c].kind /\ job'[c].cur = job[c].cur
        /\ job'[c].todo = job[c].todo /\ job'[c].need = job[c].need
    BY <1>0, <1>3 DEF LockPath, Reuse, StartUnpack, EndUnpack, WriteMarker, Job
  <2> QED
    BY <1>0, <2>1, KindKept
<1>4. CASE Recheck(c)
  <2>1. \/ job'[c] = Idle
        \/ /\ job'[c].kind = job[c].kind /\ job'[c].cur = job[c].cur
           /\ job'[c].todo = job[c].todo /\ job'[c].need \subseteq job[c].need
    BY <1>0, <1>4 DEF Recheck, Job
  <2> QED
    BY <1>0, <2>1, KindKept
<1>5. CASE Register(c) \/ Return(c) \/ FailUnpack(c) \/ Die(c) \/ AddPermRoot(c)
  <2>1. job'[c] = Idle \/ job'[c] = job[c]
    BY <1>5 DEF Register, Return, FailUnpack, Die, AddPermRoot
  <2> QED
    BY <1>0, <2>1, KindKept
<1>6. CASE CreateTempRootsFile(c) \/ LockTempRootsFile(c) \/ TryGCLock(c) \/ Connect(c)
           \/ ServerInsert(c) \/ ServerAck(c) \/ Disconnected(c) \/ WriteTempRoot(c)
  <2>1. job' = job
    BY <1>6 DEF CreateTempRootsFile, LockTempRootsFile, TryGCLock, Connect, ServerInsert, ServerAck,
                Disconnected, WriteTempRoot
  <2> QED
    BY <1>0, <2>1, KindKept
<1> QED
  BY <1>1, <1>2, <1>3, <1>4, <1>5, <1>6 DEF Client

LEMMA ClientKindInv ==
  ASSUME TypeOK, ProcInv, KindInv, NEW c \in Clients, Client(c) PROVE KindInv'
<1>1. KindAt(c)'
  BY ClientKindAt
<1>2. ASSUME NEW d \in Clients, d # c PROVE KindAt(d)'
  <2>1. KindAt(d) /\ job'[d] = job[d]
    BY <1>2, ClientAlone DEF KindInv, KindAt
  <2> QED
    BY <2>1 DEF KindAt
<1> QED
  BY <1>1, <1>2 DEF KindInv, KindAt

(* Only the process that holds a path's lock, or the collector, changes    *)
(* what is on disk for it.                                                 *)
LEMMA OwnerOnly ==
  ASSUME BaseInv, NEW c \in Clients, NEW d \in Clients, d # c, NEW p,
         pc[c] \in {"unpack", "unmark"}, p \in job[c].need,
         pc[d] \in {"unpack", "unmark"}
  PROVE  p \notin job[d].need
<1>1. p \in Paths
  BY DEF BaseInv, TypeOK, Job
<1> QED
  BY <1>1 DEF BaseInv, LockInv

WrittenAt(c) ==
  pc[c] = "unpack" => job[c].need \cap valid = {} /\ \A p \in job[c].done : disk[p] = "whole"

MarkedWhole == \A p \in marker : disk[p] = "whole" /\ p \in AddedBy("multi")

LEMMA DiskIsAt ==
  DiskInv <=> /\ ValidComplete /\ MarkedWhole /\ (gc.pc = "unlink" => gc.cur \notin marker)
              /\ \A c \in Clients : WrittenAt(c)
BY DEF DiskInv, WrittenAt, MarkedWhole

LEMMA ClientDiskInv ==
  ASSUME Separate, BaseInv, DeleteInv, KindInv, DiskInv, NEW c \in Clients, Client(c)
  PROVE  DiskInv'
<1>0. TypeOK /\ ProcInv /\ LockInv /\ gc' = gc /\ job[c] \in Job
  BY ClientGC DEF BaseInv, TypeOK
<1>a. /\ ValidComplete /\ MarkedWhole /\ (gc.pc = "unlink" => gc.cur \notin marker)
      /\ \A d \in Clients : WrittenAt(d)
  BY DiskIsAt
<1>b. ASSUME NEW d \in Clients, d # c
      PROVE  pc'[d] = pc[d] /\ job'[d] = job[d]
  BY <1>0, <1>b, ClientAlone
<1>c. pc[c] \in {"unpack", "unmark"} => job[c].done \subseteq job[c].need
  BY <1>0 DEF LockInv
<1>s. SUFFICES /\ ValidComplete' /\ MarkedWhole' /\ (gc.pc = "unlink" => gc.cur \notin marker')
               /\ \A d \in Clients : WrittenAt(d)'
  BY <1>0 DEF DiskInv, WrittenAt, MarkedWhole
<1>1. ASSUME NEW p \in Paths, StartUnpack(c, p)
      PROVE  /\ ValidComplete' /\ MarkedWhole' /\ (gc.pc = "unlink" => gc.cur \notin marker')
             /\ \A d \in Clients : WrittenAt(d)'
  <2>1. /\ pc[c] = "unpack" /\ p \in job[c].need /\ p \notin job[c].done /\ ~Reusable(c, p)
        /\ disk' = [disk EXCEPT ![p] = "partial"] /\ UNCHANGED <<valid, marker, pc>>
        /\ job'[c].done = job[c].done /\ job'[c].need = job[c].need
    BY <1>0, <1>1 DEF StartUnpack, TypeOK, Job
  <2>2. \A q \in Paths : q # p => disk'[q] = disk[q]
    BY <1>0, <2>1 DEF TypeOK, StoreType
  <2>3. p \notin valid
    BY <1>a, <2>1 DEF WrittenAt
  <2>4. p \notin marker
    <3>1. job[c].kind = "multi" => p \notin marker
      BY <1>a, <2>1 DEF Reusable, MarkedWhole
    <3>2. job[c].kind = "single" => p \in AddedBy("single")
      BY <2>1 DEF KindInv
    <3>3. job[c].kind \in {"single", "multi"}
      BY <1>0, <2>1 DEF ProcInv
    <3> QED
      BY <1>a, <3>1, <3>2, <3>3 DEF Separate, MarkedWhole
  <2>5. valid \subseteq Paths /\ marker \subseteq Paths
    BY <1>0 DEF TypeOK, StoreType
  <2>6. ASSUME NEW d \in Clients PROVE WrittenAt(d)'
    <3>1. WrittenAt(d)
      BY <1>a
    <3>2. CASE d = c
      <4>1. job[c].done \subseteq Paths
        BY <1>0 DEF Job
      <4> QED
        BY <2>1, <2>2, <3>1, <3>2, <4>1 DEF WrittenAt
    <3>3. CASE d # c
      <4>1. pc'[d] = pc[d] /\ job'[d] = job[d] /\ job[d].done \subseteq Paths
        BY <1>0, <1>b, <3>3 DEF TypeOK, Job
      <4>2. pc[d] = "unpack" => job[d].done \subseteq job[d].need /\ p \notin job[d].need
        BY <1>0, <2>1, <3>3, OwnerOnly DEF LockInv
      <4> QED
        BY <2>1, <2>2, <3>1, <4>1, <4>2 DEF WrittenAt
    <3> QED
      BY <3>2, <3>3
  <2> QED
    BY <1>a, <2>1, <2>2, <2>3, <2>4, <2>5, <2>6 DEF ValidComplete, MarkedWhole
<1>2. ASSUME NEW p \in Paths, EndUnpack(c, p)
      PROVE  /\ ValidComplete' /\ MarkedWhole' /\ (gc.pc = "unlink" => gc.cur \notin marker')
             /\ \A d \in Clients : WrittenAt(d)'
  <2>1. /\ pc[c] = "unpack" /\ disk' = [disk EXCEPT ![p] = "whole"] /\ UNCHANGED <<valid, marker, pc>>
        /\ job'[c].done \subseteq job[c].done \cup {p} /\ job'[c].need = job[c].need
    BY <1>0, <1>2 DEF EndUnpack, TypeOK, Job
  <2>2. \A q \in Paths : disk'[q] = disk[q] \/ disk'[q] = "whole"
    BY <1>0, <2>1 DEF TypeOK, StoreType
  <2>3. disk'[p] = "whole" /\ valid \subseteq Paths /\ marker \subseteq Paths
    BY <1>0, <2>1 DEF TypeOK, StoreType
  <2>4. ASSUME NEW d \in Clients PROVE WrittenAt(d)'
    <3>1. WrittenAt(d) /\ job[d].done \subseteq Paths
      BY <1>0, <1>a DEF TypeOK, Job
    <3> QED
      BY <1>b, <2>1, <2>2, <2>3, <3>1 DEF WrittenAt
  <2> QED
    BY <1>a, <2>1, <2>2, <2>3, <2>4 DEF ValidComplete, MarkedWhole
<1>3. ASSUME NEW p \in Paths, WriteMarker(c, p)
      PROVE  /\ ValidComplete' /\ MarkedWhole' /\ (gc.pc = "unlink" => gc.cur \notin marker')
             /\ \A d \in Clients : WrittenAt(d)'
  <2>1. /\ pc[c] = "unpack" /\ disk[p] = "whole" /\ marker' = marker \cup {p} /\ job[c].kind = "multi"
        /\ p \in job[c].open /\ UNCHANGED <<valid, disk, pc>>
        /\ job'[c].done = job[c].done \cup {p} /\ job'[c].need = job[c].need
    BY <1>0, <1>3 DEF WriteMarker, TypeOK, Job
  <2>2. p \in job[c].need /\ p \in AddedBy("multi")
    BY <1>0, <2>1 DEF LockInv, KindInv
  <2>3. gc.pc = "unlink" => gc.cur # p
    BY <2>2 DEF DeleteInv, Removing, BaseInv, RootInv
  <2>4. \A d \in Clients : WrittenAt(d)'
    BY <1>a, <1>b, <2>1 DEF WrittenAt
  <2> QED
    BY <1>a, <2>1, <2>2, <2>3, <2>4 DEF ValidComplete, MarkedWhole
<1>4. ASSUME NEW p \in Paths, Reuse(c, p)
      PROVE  /\ ValidComplete' /\ MarkedWhole' /\ (gc.pc = "unlink" => gc.cur \notin marker')
             /\ \A d \in Clients : WrittenAt(d)'
  <2>1. /\ p \in marker /\ UNCHANGED <<valid, disk, marker, pc>>
        /\ job'[c].done = job[c].done \cup {p} /\ job'[c].need = job[c].need
    BY <1>0, <1>4 DEF Reuse, Reusable, TypeOK, Job, storeVars
  <2>2. \A d \in Clients : WrittenAt(d)'
    BY <1>a, <1>b, <2>1 DEF WrittenAt, MarkedWhole
  <2> QED
    BY <1>a, <2>1, <2>2 DEF ValidComplete, MarkedWhole
<1>5. CASE Register(c)
  <2>1. /\ pc[c] = "unpack" /\ pc'[c] # "unpack" /\ UNCHANGED <<disk, marker>>
        /\ job[c].done = job[c].need /\ valid' \subseteq valid \cup job[c].need
    BY <1>0, <1>5 DEF Register, TypeOK, ProcType
  <2>2. \A p \in job[c].need : disk[p] = "whole"
    BY <1>a, <2>1 DEF WrittenAt
  <2>3. ASSUME NEW d \in Clients PROVE WrittenAt(d)'
    <3>1. CASE d # c
      <4>1. pc[d] = "unpack" => job[d].need \cap job[c].need = {}
        BY <2>1, <3>1, OwnerOnly
      <4> QED
        BY <1>a, <1>b, <2>1, <3>1, <4>1 DEF WrittenAt
    <3> QED
      BY <2>1, <3>1 DEF WrittenAt
  <2> QED
    BY <1>a, <2>1, <2>2, <2>3 DEF ValidComplete, MarkedWhole
<1>6. CASE Recheck(c)
  <2>1. /\ pc[c] = "lock" /\ UNCHANGED <<valid, disk, marker>>
        /\ pc'[c] = "unpack" => job'[c].need = job[c].need \ valid /\ job'[c].done = job[c].done
    BY <1>0, <1>6 DEF Recheck, TypeOK, ProcType, Job
  <2>2. job[c].done = {}
    BY <1>0, <2>1 DEF LockInv
  <2>3. \A d \in Clients : WrittenAt(d)'
    BY <1>a, <1>b, <2>1, <2>2 DEF WrittenAt
  <2> QED
    BY <1>a, <2>1, <2>3 DEF ValidComplete, MarkedWhole
<1>7. ASSUME UNCHANGED <<valid, disk>>, marker' \subseteq marker, pc'[c] # "unpack"
      PROVE  /\ ValidComplete' /\ MarkedWhole' /\ (gc.pc = "unlink" => gc.cur \notin marker')
             /\ \A d \in Clients : WrittenAt(d)'
  <2>1. \A d \in Clients : WrittenAt(d)'
    BY <1>a, <1>b, <1>7 DEF WrittenAt
  <2> QED
    BY <1>a, <1>7, <2>1 DEF ValidComplete, MarkedWhole
<1>8. CASE CreateTempRootsFile(c) \/ LockTempRootsFile(c) \/ TryGCLock(c) \/ Connect(c)
           \/ ServerInsert(c) \/ ServerAck(c) \/ Disconnected(c) \/ WriteTempRoot(c)
  <2>1. UNCHANGED <<valid, disk, marker>> /\ pc'[c] # "unpack"
    BY <1>0, <1>8 DEF CreateTempRootsFile, LockTempRootsFile, TryGCLock, Connect, ServerInsert,
       ServerAck, Disconnected, WriteTempRoot, TypeOK, ProcType, storeVars
  <2> QED
    BY <1>7, <2>1
<1>9. CASE CheckValid(c) \/ AddPermRoot(c) \/ Return(c) \/ FailUnpack(c) \/ Die(c)
  <2>1. UNCHANGED <<valid, disk>> /\ marker' \subseteq marker /\ pc'[c] # "unpack"
    BY <1>0, <1>9 DEF CheckValid, AddPermRoot, Return, FailUnpack, Die, TypeOK, ProcType, storeVars
  <2> QED
    BY <1>7, <2>1
<1>10. ASSUME NEW j, Call(c, j)
       PROVE  UNCHANGED <<valid, disk, marker>> /\ pc'[c] # "unpack"
  BY <1>0, <1>10 DEF Call, TypeOK, ProcType, storeVars
<1>11. ASSUME NEW p, LockPath(c, p)
       PROVE  UNCHANGED <<valid, disk, marker>> /\ pc'[c] # "unpack"
  BY <1>0, <1>11 DEF LockPath
<1> QED
  BY <1>1, <1>2, <1>3, <1>4, <1>5, <1>6, <1>7, <1>8, <1>9, <1>10, <1>11 DEF Client

LEMMA UnlinkSteps ==
  ASSUME gc \in Collection, Collector, ~DeleteMarker, ~DeleteSome PROVE gc'.pc # "unlink"
<1>1. CASE GCLock \/ GCListen \/ FindRootsNoTemp \/ ReadTempRoots \/ OpenStoreDir
  BY <1>1 DEF GCLock, GCListen, FindRootsNoTemp, ReadTempRoots, OpenStoreDir, Collection
<1>2. CASE \/ \E c \in Clients : OpenTempRoots(c)
           \/ \E p \in Paths : SweepEntry(p)
  BY <1>2 DEF OpenTempRoots, SweepEntry, Collection
<1>3. ASSUME NEW p \in Paths, Visit(p) PROVE gc'.pc # "unlink"
  <2>1. ASSUME NEW a, BailOut(a) PROVE gc'.pc = "sweep"
    BY <2>1 DEF BailOut, Collection
  <2>2. /\ gc.pc = "visit"
        /\ \/ \E a : BailOut(a)
           \/ gc' = [gc EXCEPT !.todo = @ \ {p}]
           \/ gc' = [gc EXCEPT !.pc = "expand", !.todo = @ \ {p}, !.cur = p]
    BY <1>3 DEF Visit
  <2> QED
    BY <2>1, <2>2 DEF Collection
<1>4. CASE Expand
  BY <1>4 DEF Expand, Collection
<1>5. CASE TopoSort \/ DeleteNext
  BY <1>5 DEF TopoSort, DeleteNext, Collection
<1>6. CASE InvalidatePathChecked \/ DeleteRest \/ EndEntry
  BY <1>6 DEF InvalidatePathChecked, DeleteRest, EndEntry, Collection
<1>7. CASE StopServer \/ GCUnlock \/ GCDie
  BY <1>7 DEF StopServer, GCUnlock, GCDie, NoCollection
<1> QED
  BY <1>1, <1>2, <1>3, <1>4, <1>5, <1>6, <1>7 DEF Collector

LEMMA CollectorDiskInv ==
  ASSUME BaseInv, DeleteInv, DiskInv, Collector PROVE DiskInv'
<1>0. TypeOK /\ LockInv /\ RootInv /\ gc \in Collection
  BY DEF BaseInv, TypeOK, CollectorType
<1>a. /\ ValidComplete /\ MarkedWhole /\ (gc.pc = "unlink" => gc.cur \notin marker)
      /\ \A c \in Clients : WrittenAt(c)
  BY DiskIsAt
<1>b. UNCHANGED <<pc, job>>
  BY CollectorFrame
<1>c. valid' \subseteq valid /\ marker' \subseteq marker
  BY CollectorFrame DEF InvalidatePathChecked, DeleteMarker
<1>d. gc'.pc = "unlink" => gc'.cur \notin marker'
  <2>1. CASE DeleteMarker
    BY <1>0, <2>1 DEF DeleteMarker, Collection
  <2>2. CASE DeleteSome
    BY <1>a, <2>2 DEF DeleteSome, gcVars
  <2>3. CASE ~DeleteMarker /\ ~DeleteSome
    <3>1. gc'.pc # "unlink"
      BY <1>0, <2>3, UnlinkSteps
    <3> QED
      BY <3>1
  <2> QED
    BY <2>1, <2>2, <2>3
<1>e. \A p \in Paths : disk'[p] = disk[p] \/ (gc.pc = "unlink" /\ p = gc.cur)
  BY <1>0, CollectorFrame DEF DeleteSome, DeleteRest, TypeOK, StoreType
<1>f. valid \subseteq Paths /\ marker \subseteq Paths
  BY <1>0 DEF TypeOK, StoreType
<1>g. gc.pc = "unlink" => gc.cur \notin valid /\ \A c \in Clients : gc.cur \notin FileRoots(c)
  BY DEF DeleteInv, Removing
<1>1. ValidComplete' /\ MarkedWhole'
  BY <1>a, <1>c, <1>e, <1>f, <1>g DEF ValidComplete, MarkedWhole
<1>2. ASSUME NEW c \in Clients PROVE WrittenAt(c)'
  <2>1. WrittenAt(c) /\ job[c].done \subseteq Paths
    BY <1>0, <1>a DEF TypeOK, Job
  <2>2. pc[c] = "unpack" => job[c].done \subseteq FileRoots(c)
    BY <1>0 DEF LockInv, RootInv
  <2> QED
    BY <1>b, <1>c, <1>e, <1>g, <2>1, <2>2 DEF WrittenAt
<1> QED
  BY <1>1, <1>2, <1>d DEF DiskInv, WrittenAt, MarkedWhole

LEMMA DiskInit == Init => KindInv /\ DiskInv
<1> SUFFICES ASSUME Init PROVE KindInv /\ DiskInv
  OBVIOUS
<1>1. KindInv
  BY DEF Init, KindInv, Idle
<1>2. DiskInv
  BY DEF Init, DiskInv, ValidComplete, NoCollection
<1> QED
  BY <1>1, <1>2

LEMMA DiskStep ==
  ASSUME Separate
  PROVE  BaseInv /\ QuietInv /\ KindInv /\ DiskInv /\ [Next]_vars => KindInv' /\ DiskInv'
<1> SUFFICES ASSUME BaseInv, QuietInv, KindInv, DiskInv, [Next]_vars PROVE KindInv' /\ DiskInv'
  OBVIOUS
<1>0. TypeOK /\ ProcInv /\ DeleteInv
  BY DEF BaseInv, QuietInv
<1>1. CASE UNCHANGED vars
  <2> USE <1>1 DEF vars, storeVars, clientVars, gcVars
  <2>1. KindInv'
    BY DEF KindInv
  <2>2. DiskInv'
    BY DEF DiskInv, ValidComplete
  <2> QED
    BY <2>1, <2>2
<1>2. ASSUME NEW c \in Clients, Client(c) PROVE KindInv' /\ DiskInv'
  BY <1>0, <1>2, ClientKindInv, ClientDiskInv
<1>3. CASE Collector
  <2>1. job' = job
    BY <1>3, CollectorFrame
  <2>2. KindInv'
    BY <2>1 DEF KindInv
  <2> QED
    BY <1>0, <1>3, <2>2, CollectorDiskInv
<1> QED
  BY <1>1, <1>2, <1>3 DEF Next

(* What the database calls valid is completely on disk, after any crash of *)
(* processes and collectors, when no path is added by both functions:      *)
(* files are whole before registration, and gone after invalidation.       *)
THEOREM ValidIsComplete ==
  ASSUME Separate PROVE Spec /\ [][QuietStart]_vars => []ValidComplete
<1>1. DiskInv => ValidComplete
  BY DEF DiskInv
<1> QED
  BY <1>1, DiskInit, DiskStep, BaseHolds, QuietHolds, PTL DEF Spec

(* A path that a running process rooted and saw valid, or that had a       *)
(* permanent root when the collection looked, stays registered and whole,  *)
(* for any number of processes, collections and crashes.                   *)
THEOREM RootedPathsKept ==
  ASSUME Separate PROVE Spec /\ [][QuietStart]_vars => []RootedKept
<1>1. KeptInv /\ ValidComplete => RootedKept
  BY DEF KeptInv, ValidComplete, RootedKept
<1> QED
  BY <1>1, ValidIsComplete, RootsStayValid, PTL

--------------------------------------------------------------------------------
(* The first collection starts quietly.                                    *)

FirstAt(c) ==
  /\ pc[c] \notin {"connect", "send", "ack"}
  /\ fd[c] # NoFile => link[c] = fd[c]
  /\ pc[c] = "write" => c \in shared

FirstInv == collections = 0 => gc.pc = "idle" /\ \A c \in Clients : FirstAt(c)

LEMMA ClientFirst ==
  ASSUME TypeOK, NEW c \in Clients, Client(c), gc.pc = "idle", FirstAt(c) PROVE FirstAt(c)'
<1> USE DEF TypeOK, ProcType, FileType, fileVars
<1>1. CASE CreateTempRootsFile(c) \/ LockTempRootsFile(c)
  BY <1>1 DEF CreateTempRootsFile, LockTempRootsFile, FirstAt
<1>2. CASE TryGCLock(c)
  BY <1>2 DEF TryGCLock, Collecting, FirstAt
<1>3. CASE Connect(c) \/ ServerInsert(c) \/ ServerAck(c) \/ Disconnected(c)
  BY <1>3 DEF Connect, ServerInsert, ServerAck, Disconnected, FirstAt
<1>4. CASE WriteTempRoot(c) \/ Die(c)
  BY <1>4 DEF WriteTempRoot, Die, FirstAt
<1>5. CASE CheckValid(c) \/ AddPermRoot(c) \/ Recheck(c) \/ Register(c) \/ Return(c) \/ FailUnpack(c)
  <2>1. UNCHANGED <<link, fd>> /\ pc'[c] \in {"root", "lock", "idle", "unpack", "unmark"}
    BY <1>5 DEF CheckValid, AddPermRoot, Recheck, Register, Return, FailUnpack
  <2> QED
    BY <2>1 DEF FirstAt
<1>6. ASSUME NEW j, Call(c, j) PROVE FirstAt(c)'
  BY <1>6 DEF Call, FirstAt
<1>7. ASSUME NEW p,
             LockPath(c, p) \/ Reuse(c, p) \/ StartUnpack(c, p) \/ EndUnpack(c, p) \/ WriteMarker(c, p)
      PROVE  UNCHANGED <<link, fd, pc, shared>>
  BY <1>7 DEF LockPath, Reuse, StartUnpack, EndUnpack, WriteMarker
<1>8. CASE UNCHANGED <<link, fd, pc, shared>>
  BY <1>8 DEF FirstAt
<1> QED
  BY <1>1, <1>2, <1>3, <1>4, <1>5, <1>6, <1>7, <1>8 DEF Client

LEMMA FirstStep == BaseInv /\ FirstInv /\ [Next]_vars => FirstInv'
<1> SUFFICES ASSUME BaseInv, FirstInv, [Next]_vars PROVE FirstInv'
  OBVIOUS
<1>0. TypeOK /\ SweepInv /\ collections \in Nat
  BY StoreAssumption DEF BaseInv, TypeOK, CountType
<1>1. CASE UNCHANGED vars
  BY <1>1 DEF FirstInv, FirstAt, vars, fileVars, clientVars, gcVars
<1>2. ASSUME NEW c \in Clients, Client(c) PROVE FirstInv'
  <2>1. UNCHANGED <<gc, collections>>
    BY <1>2, ClientGC
  <2>2. ASSUME collections = 0, NEW d \in Clients PROVE FirstAt(d)'
    <3>1. gc.pc = "idle" /\ FirstAt(d)
      BY <2>2 DEF FirstInv
    <3>2. CASE d = c
      BY <1>0, <1>2, <3>1, <3>2, ClientFirst
    <3>3. CASE d # c
      BY <1>0, <1>2, <3>1, <3>3, ClientAlone DEF FirstAt
    <3> QED
      BY <3>2, <3>3
  <2> QED
    BY <2>1, <2>2 DEF FirstInv
<1>3. CASE Collector
  <2>1. collections' # 0
    BY <1>0, <1>3, CollectorFrame, CollectorServer DEF GCLock, FirstInv, Collecting
  <2> QED
    BY <2>1 DEF FirstInv
<1> QED
  BY <1>1, <1>2, <1>3 DEF Next

(* A store's first collection meets none of the windows that QuietStart    *)
(* excludes, so the results above hold of it without that hypothesis: the  *)
(* shared GC lock covers every write of a temporary root before it.        *)
THEOREM FirstCollection ==
  ASSUME MaxCollections <= 1 PROVE Spec => [](WriterAlone /\ KeptInv)
<1>1. Init => FirstInv
  BY DEF Init, FirstInv, FirstAt, NoCollection
<1>2. BaseInv /\ FirstInv /\ [Next]_vars => [QuietStart]_vars
  <2> SUFFICES ASSUME BaseInv, FirstInv, GCLock, NEW c \in Clients
               PROVE  pc[c] # "write" /\ (Holds(c) => link[c] = fd[c])
    BY DEF QuietStart
  <2>1. collections \in Nat /\ MaxCollections \in Nat
    BY StoreAssumption DEF BaseInv, TypeOK, CountType
  <2>2. collections = 0 /\ shared = {}
    BY <2>1 DEF GCLock
  <2> QED
    BY <2>2 DEF FirstInv, FirstAt, Holds
<1>3. Spec => [][QuietStart]_vars
  BY <1>1, <1>2, FirstStep, BaseHolds, PTL DEF Spec
<1> QED
  BY <1>3, WritersAlone, RootsStayValid, PTL
================================================================================
