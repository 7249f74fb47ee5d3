-------------------------- MODULE DbConnectionsProofs --------------------------
(***************************************************************************)
(* The connections to the database, for any number of workers and commands *)
(* and any sizes of the pool and of the database.  DbInv is inductive:     *)
(* InitInv, one lemma per action, NextInv.  That the database has a        *)
(* connection left is counted in Enough.                                   *)
(***************************************************************************)
EXTENDS DbConnections, FiniteSetTheorems, WellFoundedInduction, TLAPS

\* What is assumed of the constants.
LEMMA Constants ==
  /\ PoolSize \in Nat /\ PoolSize # 0 /\ Limit \in Nat /\ MaxCommands \in Nat
  /\ IsFiniteSet(Workers) /\ Commands \subseteq DOMAIN Flow
  /\ NULL \notin Nat /\ NULL \notin Commands /\ NULL \notin Workers \X Queries
  /\ NULL \notin Conns /\ Conns \subseteq Nat
<1>1. Conns \subseteq Nat
  BY DbAssumption DEF Conns
<1>. QED BY <1>1, DbAssumption

USE Constants DEF connections

\* What all runs check of the connections, but for their number.
DbInv == TypeOK /\ ConnsInUse /\ ConnsAccounted /\ PendingIsAwaited /\ ReadsOwn

Updates == {"updUser", "delV", "delDir", "updTime"}
Looked  == {"dirOf", "hashOfV", "dirId", "linkCount"}

\* Where the statements of a command lead: an update follows a SELECT of its row.
LEMMA Edges ==
  ASSUME NEW cmd \in Commands, NEW e \in Flow[cmd]
  PROVE  /\ e[2] \in Queries \cup {"stop", "loop", "die"}
         /\ e[2] \in Updates => e[1] \in Looked
<1>1. cmd \in DOMAIN Flow
  OBVIOUS
<1>2. DOMAIN Flow = {"pwd", "gets", "cd", "rm", "rmdir", "puts", "instant", "ls", "mkdir"}
  BY DEF Flow
<1>3. CASE cmd = "pwd"
  BY <1>3 DEF Flow, PwdFlow, Queries, Selects, Updates, Looked
<1>4. CASE cmd = "gets"
  BY <1>4 DEF Flow, GetsFlow, Queries, Selects, Updates, Looked
<1>5. CASE cmd = "cd"
  BY <1>5 DEF Flow, CdFlow, Queries, Selects, Updates, Looked
<1>6. CASE cmd = "rm"
  BY <1>6 DEF Flow, RmFlow, RmCommandFlow, Queries, Selects, Updates, Looked
<1>7. CASE cmd = "rmdir"
  BY <1>7 DEF Flow, RmdirFlow, RmCommandFlow, Queries, Selects, Updates, Looked
<1>8. CASE cmd = "puts"
  BY <1>8 DEF Flow, PutsFlow, Queries, Selects, Updates, Looked
<1>9. CASE cmd = "instant"
  BY <1>9 DEF Flow, InstantFlow, Queries, Selects, Updates, Looked
<1>10. CASE cmd = "ls"
  BY <1>10 DEF Flow, LsFlow, Queries, Selects, Updates, Looked
<1>11. CASE cmd = "mkdir"
  BY <1>11 DEF Flow, MkdirFlow, Queries, Selects, Updates, Looked
<1>. QED BY <1>1, <1>2, <1>3, <1>4, <1>5, <1>6, <1>7, <1>8, <1>9, <1>10, <1>11

\* The statement after one that went well.
LEMMA AfterPlace ==
  ASSUME TypeOK, NEW w \in Workers, task[w].step # "idle", NEW next \in After(w)
  PROVE  /\ next \in Queries \cup {"stop", "loop", "die"}
         /\ next \in Updates => task[w].query \in Looked
<1>1. task[w].cmd \in Commands
  BY DEF TypeOK, Task, Idle
<1>2. PICK e \in Flow[task[w].cmd] : e[1] = task[w].query /\ next = e[2]
  BY DEF After
<1>. QED BY <1>1, <1>2, Edges

\* The statement after one that was refused or had no row: no update.
LEMMA WithoutPlace ==
  ASSUME TypeOK, NEW w \in Workers, task[w].step # "idle", NEW next \in Without(w)
  PROVE  next \in (Queries \cup {"stop", "loop", "die"}) \ Updates
<1>1. CASE task[w].query \in {"curPath", "hash"}
  BY <1>1, AfterPlace DEF Without, Looked, Updates, Queries
<1>2. CASE task[w].query \in {"userId", "fileMess", "hashId", "insG", "insV"}
  BY <1>2, AfterPlace DEF Without, Looked, Updates, Queries
<1>3. CASE task[w].query \notin {"curPath", "hash", "userId", "fileMess", "hashId", "insG", "insV"}
  BY <1>3 DEF Without, Updates, Queries
<1>. QED BY <1>1, <1>2, <1>3

\* Where a worker is after Goto.
LEMMA GotoMoves ==
  ASSUME TypeOK, NEW w \in Workers, task[w].step # "idle",
         NEW next \in Queries \cup {"stop", "loop", "die"}, Goto(w, next)
  PROVE  \E t \in Task :
           /\ task' = [task EXCEPT ![w] = t]
           /\ \/ t.step = "idle" /\ server' = "exited"
              \/ /\ t.step \in {"query", "end"} /\ server' = server
                 /\ t.query \in Updates => t.query = next
<1>1. task[w] \in Task /\ task[w] # Idle
  BY DEF TypeOK, Idle
<1>2. CASE next = "die" /\ server' = "exited" /\ task' = [task EXCEPT ![w] = Idle]
  <2>1. Idle \in Task /\ Idle.step = "idle"
    BY DEF Task, Idle
  <2>. HIDE DEF Idle
  <2>. QED BY <1>2, <2>1
<1>3. ASSUME NEW place \in Queries, place = next \/ place \in {"hashOfV", "dirId", "end"},
             NEW looping \in BOOLEAN, UNCHANGED server,
             task' = [task EXCEPT ![w].query = place,
                                  ![w].step = IF place = "end" THEN "end" ELSE "query",
                                  ![w].inLoop = looping]
      PROVE  \E t \in Task :
               /\ task' = [task EXCEPT ![w] = t]
               /\ t.step \in {"query", "end"} /\ (t.query \in Updates => t.query = next)
  <2>. DEFINE t == [task[w] EXCEPT !.query = place, !.inLoop = looping,
                                   !.step = IF place = "end" THEN "end" ELSE "query"]
  <2>1. t \in Task /\ t.query = place /\ t.step \in {"query", "end"}
    BY <1>1 DEF Task
  <2>2. task' = [task EXCEPT ![w] = t]
    BY <1>3, <1>1 DEF TypeOK, Task
  <2>3. t.query \in Updates => t.query = next
    BY <2>1, <1>3 DEF Updates
  <2>. HIDE DEF t
  <2>. QED BY <2>1, <2>2, <2>3
<1>4. task[w].inLoop \in BOOLEAN
  BY <1>1 DEF Task
<1>5. {"hashOfV", "dirId", "end"} \subseteq Queries
  BY DEF Queries, Selects
<1>6. ASSUME ~ (next = "die" /\ server' = "exited" /\ task' = [task EXCEPT ![w] = Idle])
      PROVE  \E place \in Queries : \E looping \in BOOLEAN :
               /\ place = next \/ place \in {"hashOfV", "dirId", "end"}
               /\ UNCHANGED server
               /\ task' = [task EXCEPT ![w].query = place,
                                       ![w].step = IF place = "end" THEN "end" ELSE "query",
                                       ![w].inLoop = looping]
  BY <1>4, <1>5, <1>6 DEF Goto
<1>. QED BY <1>2, <1>3, <1>6

\* A worker's connection exists while the server runs.
LEMMA ConnType ==
  ASSUME DbInv, Running, NEW w \in Workers
  PROVE  ConnOf(w) \in Conns
  BY DEF DbInv, TypeOK, ConnsInUse, ConnOf

\* The connections stay where they are when no step of theirs is taken.
LEMMA ConnsStay ==
  ASSUME DbInv, UNCHANGED <<pool, conn, own, live>>
  PROVE  ConnsAccounted' /\ \A w \in Workers : ConnOf(w)' = ConnOf(w)
  BY DEF DbInv, ConnsAccounted, ConnOf

LEMMA InitInv == Init => DbInv
<1> SUFFICES ASSUME Init PROVE DbInv
  OBVIOUS
<1>. USE DEF Init
<1>1. TypeOK
  <2>1. forced \in BOOLEAN
    BY Zenon
  <2>. QED BY <2>1 DEF TypeOK, Task
<1>2. ConnsInUse
  BY DEF ConnsInUse, Running
<1>3. ConnsAccounted
  BY DEF ConnsAccounted
<1>4. PendingIsAwaited /\ ReadsOwn
  BY DEF PendingIsAwaited, ReadsOwn, StoresOwn, OwnUnlessForced, WritesOwnRow, Running, Idle
<1>. QED BY <1>1, <1>2, <1>3, <1>4 DEF DbInv

\* Counting up to i, the j-th member of a set of numbers gets a number of its own.
LEMMA CountedApart ==
  ASSUME NEW n \in Nat, NEW ok \in SUBSET (1..n), Cardinality(ok) <= Limit
  PROVE  /\ \A i \in ok : Cardinality({ j \in ok : j <= i }) \in Conns
         /\ \A i, k \in ok :
              Cardinality({ j \in ok : j <= i }) = Cardinality({ j \in ok : j <= k }) => i = k
<1>. DEFINE Upto(i) == { j \in ok : j <= i }
<1>1. IsFiniteSet(ok) /\ ok \subseteq Nat
  <2>1. IsFiniteSet(1..n)
    BY FS_Interval
  <2>2. IsFiniteSet(ok)
    BY <2>1, FS_Subset
  <2>. QED BY <2>2
<1>2. ASSUME NEW i \in ok
      PROVE  /\ IsFiniteSet(Upto(i)) /\ Cardinality(Upto(i)) \in Nat
             /\ Cardinality(Upto(i)) <= Cardinality(ok) /\ Upto(i) # {} /\ Upto(i) \subseteq ok
  <2>1. i \in Upto(i)
    OBVIOUS
  <2>. QED BY <1>1, <2>1, FS_Subset, FS_CardinalityType
<1>3. ASSUME NEW i \in ok PROVE Cardinality(Upto(i)) \in Conns
  <2>1. Cardinality(Upto(i)) # 0
    BY <1>2, FS_EmptySet
  <2>2. Cardinality(ok) \in Nat
    BY <1>1, FS_CardinalityType
  <2>. HIDE DEF Upto
  <2>. QED BY <1>2, <2>1, <2>2 DEF Conns
<1>4. ASSUME NEW i \in ok, NEW k \in ok, i < k
      PROVE  Cardinality(Upto(i)) # Cardinality(Upto(k))
  <2>1. Upto(i) \subseteq Upto(k) /\ k \in Upto(k) /\ k \notin Upto(i)
    <3>1. i \in Nat /\ k \in Nat
      BY <1>1
    <3>2. \A j \in ok : j \in Nat /\ (j <= i => j <= k)
      BY <1>1, <1>4, <3>1
    <3>3. ~ (k <= i)
      BY <1>4, <3>1
    <3>4. Upto(i) \subseteq Upto(k)
      BY <3>2
    <3>5. k \in Upto(k)
      BY <3>1
    <3>. QED BY <3>3, <3>4, <3>5
  <2>2. Upto(i) # Upto(k)
    BY <2>1
  <2>. HIDE DEF Upto
  <2>. QED BY <1>2, <2>1, <2>2, FS_Subset
<1>5. \A i, k \in ok : i < k \/ k < i \/ i = k
  OBVIOUS
<1>. HIDE DEF Upto
<1>6. \A i, k \in ok : Cardinality(Upto(i)) = Cardinality(Upto(k)) => i = k
  BY <1>4, <1>5
<1>. QED BY <1>3, <1>6 DEF Upto

\* The connections in the slots that are not empty.
LEMMA Filled ==
  ASSUME NEW n, NEW ok \in SUBSET n, NEW p, \A i \in ok : p[i] \in Conns,
         \A i \in n : i \notin ok => p[i] = NULL
  PROVE  /\ { p[i] : i \in ok } \subseteq Conns
         /\ { p[i] : i \in n } \ {NULL} = { p[i] : i \in ok }
  OBVIOUS

LEMMA CreatePoolInv == ASSUME DbInv, CreatePool PROVE DbInv'
<1>1. server = "starting" /\ UNCHANGED <<conn, own, pending, task, got, forced, begun>>
  BY DEF CreatePool
<1>2. PICK ok \in SUBSET (1..PoolSize) :
        /\ Cardinality(ok) <= Limit
        /\ pool' = [i \in 1..PoolSize |->
                      IF i \in ok THEN Cardinality({ j \in ok : j <= i }) ELSE NULL]
        /\ live' = { pool'[i] : i \in ok }
        /\ server' = IF ok = {} THEN "exited" ELSE "pooled"
  BY DEF CreatePool
<1>3. /\ \A i \in ok : pool'[i] \in Conns
      /\ \A i, k \in ok : pool'[i] = pool'[k] => i = k
      /\ \A i \in 1..PoolSize : i \notin ok => pool'[i] = NULL
  <2>. DEFINE Count(i) == Cardinality({ j \in ok : j <= i })
  <2>1. /\ \A i \in ok : Count(i) \in Conns
        /\ \A i, k \in ok : Count(i) = Count(k) => i = k
    BY <1>2, CountedApart
  <2>2. pool' = [i \in 1..PoolSize |-> IF i \in ok THEN Count(i) ELSE NULL]
    BY <1>2
  <2>. HIDE DEF Count
  <2>. QED BY <2>1, <2>2
<1>4. pool' = [i \in 1..PoolSize |-> IF i \in ok THEN pool'[i] ELSE NULL]
  BY <1>2
<1>. DEFINE given == { pool'[i] : i \in ok }
<1>5. live' = given
  BY <1>2
<1>6. TypeOK'
  <2>1. forced' \in BOOLEAN
    BY <1>1, Zenon DEF DbInv, TypeOK
  <2>2. pool' \in [1..PoolSize -> Conns \cup {NULL}]
    BY <1>3, <1>4
  <2>3. live' \subseteq Conns
    BY <1>3, <1>5, Filled
  <2>. QED BY <1>1, <1>2, <2>1, <2>2, <2>3 DEF DbInv, TypeOK
<1>7. ConnsInUse'
  BY <1>1, <1>2 DEF DbInv, ConnsInUse, Running
<1>8. ConnsAccounted'
  <2>1. conn' = NULL /\ \A w \in Workers : own'[w] = NULL
    BY <1>1 DEF DbInv, ConnsInUse
  <2>2. live' = ({ pool'[i] : i \in 1..PoolSize } \cup { own'[w] : w \in Workers } \cup {conn'})
                \ {NULL}
    <3>1. { pool'[i] : i \in 1..PoolSize } \ {NULL} = given
      BY <1>3, Filled
    <3>2. { own'[w] : w \in Workers } \subseteq {NULL}
      BY <2>1
    <3>3. NULL \notin given
      BY <1>3, Filled
    <3>. HIDE DEF given
    <3>. QED BY <1>5, <2>1, <3>1, <3>2, <3>3
  <2>. QED BY <1>3, <2>1, <2>2 DEF ConnsAccounted
<1>9. PendingIsAwaited' /\ ReadsOwn'
  BY <1>1, <1>2 DEF DbInv, PendingIsAwaited, ReadsOwn, StoresOwn, OwnUnlessForced, WritesOwnRow, Running
<1>. QED BY <1>6, <1>7, <1>8, <1>9 DEF DbInv

LEMMA GetDbConnectionInv == ASSUME DbInv, GetDbConnection PROVE DbInv'
<1>. USE DEF GetDbConnection
<1>1. PICK i \in 1..PoolSize :
        pool[i] # NULL /\ conn' = pool[i] /\ pool' = [pool EXCEPT ![i] = NULL]
  OBVIOUS
<1>2. pool \in [1..PoolSize -> Conns \cup {NULL}]
  BY DEF DbInv, TypeOK
<1>3. conn = NULL /\ \A w \in Workers : own[w] = NULL /\ task[w] = Idle
  BY DEF DbInv, ConnsInUse
<1>4. TypeOK'
  <2>1. forced' \in BOOLEAN
    BY Zenon DEF DbInv, TypeOK
  <2>. QED BY <1>1, <1>2, <2>1 DEF DbInv, TypeOK
<1>5. ConnsInUse'
  BY <1>1, <1>2, <1>3 DEF ConnsInUse, Running, Idle
<1>6. ConnsAccounted'
  BY <1>1, <1>2, <1>3 DEF DbInv, ConnsAccounted
<1>7. PendingIsAwaited' /\ ReadsOwn'
  <2>1. \A c \in Conns : pending[c] = NULL
    BY DEF DbInv, ConnsInUse
  <2>. QED BY <1>3, <2>1 DEF DbInv, PendingIsAwaited, ReadsOwn, StoresOwn, OwnUnlessForced,
                             WritesOwnRow, Running, Idle
<1>. QED BY <1>4, <1>5, <1>6, <1>7 DEF DbInv

\* Where a worker stands does not matter to the connections' places.
LEMMA WorkerGoes ==
  ASSUME DbInv, Running, NEW w \in Workers, NEW t \in Task, task' = [task EXCEPT ![w] = t],
         UNCHANGED <<pool, conn, own, live>>, server' \in {server, "exited"},
         pending' \in [Conns -> Answers \cup {NULL}], got' \in [Workers -> Answers \cup {NULL}],
         forced' \in BOOLEAN, begun' \in 0..MaxCommands,
         server' = server /\ own[w] # NULL => t.step \in {"query", "store", "end"},
         t.step = "connect" => t.query = First[t.cmd]
  PROVE  TypeOK' /\ ConnsInUse' /\ ConnsAccounted' /\ \A v \in Workers : ConnOf(v)' = ConnOf(v)
<1>1. TypeOK'
  BY DEF DbInv, TypeOK, Running
<1>2. ConnsInUse'
  BY DEF DbInv, ConnsInUse, TypeOK, Running
<1>. QED BY <1>1, <1>2, ConnsStay

\* What a worker's step reads.
LEMMA WorkerType ==
  ASSUME DbInv, NEW w \in Workers
  PROVE  /\ task \in [Workers -> Task] /\ task[w] \in Task
         /\ pending \in [Conns -> Answers \cup {NULL}] /\ got \in [Workers -> Answers \cup {NULL}]
         /\ server \in {"starting", "pooled", "running", "exited"} /\ begun \in 0..MaxCommands
         /\ task[w].step \in {"idle", "connect", "query", "store", "end"}
         /\ NULL \notin Answers
  BY DEF DbInv, TypeOK, Task, Idle, Answers, Queries

\* No command begins with an update.
LEMMA FirstPlace == ASSUME NEW cmd \in Commands PROVE First[cmd] \in Queries \ Updates
  BY DEF Flow, First, Queries, Selects, Updates

LEMMA DoTaskInv == ASSUME DbInv, NEW w \in Workers, DoTask(w) PROVE DbInv'
<1>1. /\ Running /\ task[w].step = "idle" /\ begun < MaxCommands
      /\ got' = [got EXCEPT ![w] = NULL] /\ begun' = begun + 1
      /\ UNCHANGED <<server, pool, conn, own, live, pending, forced>>
  BY DEF DoTask, On
<1>2. PICK cmd \in Commands :
        task' = [task EXCEPT ![w] = [cmd |-> cmd, query |-> First[cmd], inLoop |-> FALSE,
                                     step |-> IF cmd \in OpensOwn THEN "connect" ELSE "query"]]
  BY DEF DoTask
<1>. DEFINE t == [cmd |-> cmd, query |-> First[cmd], inLoop |-> FALSE,
                  step |-> IF cmd \in OpensOwn THEN "connect" ELSE "query"]
<1>3. First[cmd] \in Queries \ Updates
  BY FirstPlace
<1>4. /\ t \in Task /\ t.query \notin Updates /\ t.step \in {"connect", "query"}
      /\ t.query = First[t.cmd]
  BY <1>3 DEF Task
<1>5. task' = [task EXCEPT ![w] = t]
  BY <1>2
<1>. HIDE DEF t
<1>6. forced' \in BOOLEAN
  BY <1>1, Zenon DEF DbInv, TypeOK
<1>7. own[w] = NULL
  BY <1>1 DEF DbInv, ConnsInUse
<1>8. TypeOK' /\ ConnsInUse' /\ ConnsAccounted' /\ \A v \in Workers : ConnOf(v)' = ConnOf(v)
  <2>1. got' \in [Workers -> Answers \cup {NULL}] /\ begun' \in 0..MaxCommands
    BY <1>1, WorkerType
  <2>. QED BY <1>1, <1>4, <1>5, <1>6, <1>7, <2>1, WorkerGoes, WorkerType
<1>9. PendingIsAwaited'
  BY <1>1, <1>4, <1>5, <1>8, WorkerType DEF DbInv, PendingIsAwaited, Running
<1>10. StoresOwn' /\ OwnUnlessForced' /\ WritesOwnRow'
  BY <1>1, <1>4, <1>5, <1>8, WorkerType
     DEF DbInv, ReadsOwn, StoresOwn, OwnUnlessForced, WritesOwnRow, Running, Updates
<1>. QED BY <1>8, <1>9, <1>10 DEF DbInv, ReadsOwn

\* The lowest connection that is not open.
LEMMA LowestConn ==
  ASSUME NEW T \in SUBSET Conns, T # {}
  PROVE  (CHOOSE c \in T : \A d \in T : c <= d) \in T
<1>1. PICK c \in T : \A d \in T : ~ (<<d, c>> \in OpToRel(<, Nat))
  BY NatLessThanWellFounded, WFMin
<1>2. ASSUME NEW d \in T PROVE c <= d
  <2>1. c \in Nat /\ d \in Nat
    OBVIOUS
  <2>2. ~ (d < c)
    BY <1>1, <2>1 DEF OpToRel
  <2>. QED BY <2>1, <2>2
<1>. QED BY <1>2

LEMMA ConnectInv == ASSUME DbInv, NEW w \in Workers, Connect(w) PROVE DbInv'
<1>1. /\ Running /\ task[w].step = "connect"
      /\ UNCHANGED <<pool, conn, pending, got, forced, begun>>
  BY DEF Connect, On
<1>2. own[w] = NULL
  BY <1>1 DEF DbInv, ConnsInUse
<1>3. forced' \in BOOLEAN
  BY <1>1, Zenon DEF DbInv, TypeOK
<1>4. CASE server' = "exited" /\ UNCHANGED <<own, live, task>>
  BY <1>1, <1>3, <1>4 DEF DbInv, TypeOK, ConnsInUse, ConnsAccounted, PendingIsAwaited, ReadsOwn,
                          StoresOwn, OwnUnlessForced, WritesOwnRow, Running
<1>5. ASSUME NEW c \in Conns \ live, own' = [own EXCEPT ![w] = c], live' = live \cup {c},
             task' = [task EXCEPT ![w].step = "query"], UNCHANGED server
      PROVE  DbInv'
  <2>. DEFINE t == [task[w] EXCEPT !.step = "query"]
  <2>1. t \in Task /\ t.step = "query" /\ t.query = task[w].query /\ task' = [task EXCEPT ![w] = t]
    BY <1>1, <1>5, WorkerType DEF Task, Idle
  <2>. HIDE DEF t
  <2>2. TypeOK'
    <3>1. own' \in [Workers -> Conns \cup {NULL}] /\ live' \subseteq Conns
      BY <1>5 DEF DbInv, TypeOK
    <3>2. task' \in [Workers -> Task]
      BY <2>1 DEF DbInv, TypeOK
    <3>. QED BY <1>1, <1>3, <1>5, <3>1, <3>2 DEF DbInv, TypeOK
  <2>3. ConnsInUse'
    BY <1>1, <1>5, <2>1 DEF DbInv, ConnsInUse, TypeOK, Running
  <2>4. ConnsAccounted'
    BY <1>1, <1>2, <1>5 DEF DbInv, ConnsAccounted, TypeOK
  <2>5. \A v \in Workers \ {w} : ConnOf(v)' = ConnOf(v) /\ task'[v] = task[v]
    BY <1>1, <1>5, <2>1 DEF DbInv, TypeOK, ConnOf
  <2>6. PendingIsAwaited'
    BY <1>1, <1>5, <2>1, <2>5 DEF DbInv, PendingIsAwaited, Running
  <2>7. StoresOwn' /\ OwnUnlessForced' 
    BY <1>1, <1>5, <2>1, <2>5, WorkerType DEF DbInv, ReadsOwn, StoresOwn, OwnUnlessForced, Running
  <2>8. WritesOwnRow'
    <3>1. task[w].cmd \in Commands /\ task[w].query = First[task[w].cmd]
      BY <1>1, WorkerType DEF DbInv, ConnsInUse, Task, Idle
    <3>2. t.query \notin Updates
      BY <2>1, <3>1, FirstPlace
    <3>. QED BY <1>1, <1>5, <2>1, <2>5, <3>2, WorkerType DEF DbInv, ReadsOwn, WritesOwnRow, Updates
  <2>. QED BY <2>2, <2>3, <2>4, <2>6, <2>7, <2>8 DEF DbInv, ReadsOwn
<1>6. CASE live # Conns
  <2>1. Conns \ live # {}
    BY <1>6 DEF DbInv, TypeOK
  <2>2. (CHOOSE c \in Conns \ live : \A d \in Conns \ live : c <= d) \in Conns \ live
    BY <2>1, LowestConn
  <2>. QED BY <1>4, <1>5, <1>6, <2>2 DEF Connect
<1>. QED BY <1>4, <1>6 DEF Connect

LEMMA QueryRunInv == ASSUME DbInv, NEW w \in Workers, QueryRun(w) PROVE DbInv'
<1>1. /\ Running /\ task[w].step = "query" /\ pending[ConnOf(w)] = NULL
      /\ got' = [got EXCEPT ![w] = NULL]
      /\ UNCHANGED <<pool, conn, own, live, forced, begun>>
  BY DEF QueryRun, On
<1>2. ConnOf(w) \in Conns
  BY <1>1, ConnType
<1>3. forced' \in BOOLEAN
  BY <1>1, Zenon DEF DbInv, TypeOK
<1>4. got' \in [Workers -> Answers \cup {NULL}] /\ begun' \in 0..MaxCommands
  BY <1>1, WorkerType
<1>5. CASE /\ task[w].query \in Selects
           /\ pending' = [pending EXCEPT ![ConnOf(w)] = <<w, task[w].query>>]
           /\ task' = [task EXCEPT ![w].step = "store"]
           /\ UNCHANGED server
  <2>. DEFINE t == [task[w] EXCEPT !.step = "store"]
  <2>1. t \in Task /\ t.step = "store" /\ t.query = task[w].query /\ task' = [task EXCEPT ![w] = t]
    BY <1>1, <1>5, WorkerType DEF Task, Idle
  <2>. HIDE DEF t
  <2>2. <<w, task[w].query>> \in Answers /\ <<w, task[w].query>> # NULL
    BY <1>5 DEF Answers, Queries
  <2>3. pending' \in [Conns -> Answers \cup {NULL}]
    BY <1>5, <2>2, WorkerType
  <2>4. TypeOK' /\ ConnsInUse' /\ ConnsAccounted' /\ \A v \in Workers : ConnOf(v)' = ConnOf(v)
    BY <1>1, <1>3, <1>4, <1>5, <2>1, <2>3, WorkerGoes
  <2>5. PendingIsAwaited'
    BY <1>1, <1>2, <1>5, <2>1, <2>4, WorkerType DEF DbInv, PendingIsAwaited, Running
  <2>6. StoresOwn'
    <3>1. ASSUME ~forced, NEW v \in Workers \ {w}, task[v].step = "store"
          PROVE  pending[ConnOf(v)] = <<v, task[v].query>> /\ ConnOf(v) # ConnOf(w)
      <4>1. pending[ConnOf(v)] = <<v, task[v].query>>
        BY <1>1, <3>1 DEF DbInv, ReadsOwn, StoresOwn
      <4>2. ConnOf(v) \in Conns
        BY <1>1, ConnType
      <4>3. <<v, task[v].query>> # NULL
        <5>1. task[v] \in Task
          BY WorkerType
        <5>2. task[v].query \in Queries
          BY <3>1, <5>1 DEF Task, Idle
        <5>. QED BY <5>2
      <4>. QED BY <1>1, <4>1, <4>3
    <3>2. ASSUME ~forced PROVE \A v \in Workers : ConnOf(v) \in Conns
      BY <1>1, ConnType
    <3>. QED BY <1>1, <1>2, <1>5, <2>1, <2>4, <3>1, <3>2, WorkerType DEF StoresOwn, Running
  <2>7. OwnUnlessForced' /\ WritesOwnRow'
    BY <1>1, <2>1, WorkerType DEF DbInv, ReadsOwn, OwnUnlessForced, WritesOwnRow
  <2>. QED BY <2>4, <2>5, <2>6, <2>7 DEF DbInv, ReadsOwn
<1>6. ASSUME task[w].query \notin Selects, UNCHANGED pending, NEW next \in After(w), Goto(w, next)
      PROVE  DbInv'
  <2>1. next \in (Queries \cup {"stop", "loop", "die"}) \ Updates
    BY <1>1, <1>6, AfterPlace DEF DbInv, Looked, Selects
  <2>2. PICK t \in Task :
          /\ task' = [task EXCEPT ![w] = t]
          /\ \/ t.step = "idle" /\ server' = "exited"
             \/ /\ t.step \in {"query", "end"} /\ server' = server
                /\ t.query \in Updates => t.query = next
    BY <1>1, <1>6, <2>1, GotoMoves DEF DbInv
  <2>3. TypeOK' /\ ConnsInUse' /\ ConnsAccounted' /\ \A v \in Workers : ConnOf(v)' = ConnOf(v)
    BY <1>1, <1>3, <1>4, <1>6, <2>2, WorkerGoes, WorkerType DEF Running
  <2>4. PendingIsAwaited'
    BY <1>1, <1>6, <2>2, <2>3, WorkerType DEF DbInv, PendingIsAwaited, Running
  <2>5. StoresOwn' /\ OwnUnlessForced' /\ WritesOwnRow'
    BY <1>1, <1>6, <2>1, <2>2, <2>3, WorkerType
       DEF DbInv, ReadsOwn, StoresOwn, OwnUnlessForced, WritesOwnRow, Running, Updates
  <2>. QED BY <2>3, <2>4, <2>5 DEF DbInv, ReadsOwn
<1>. QED BY <1>5, <1>6 DEF QueryRun

LEMMA QueryRefusedInv == ASSUME DbInv, NEW w \in Workers, QueryRefused(w) PROVE DbInv'
<1>1. /\ Running /\ task[w].step = "query"
      /\ forced' = (forced \/ task[w].query \in {"curPath", "hash"})
      /\ UNCHANGED <<pool, conn, own, live, pending, got, begun>>
  BY DEF QueryRefused, On
<1>2. forced' \in BOOLEAN
  BY <1>1, Zenon DEF DbInv, TypeOK
<1>3. ASSUME NEW t \in Task, task' = [task EXCEPT ![w] = t], server' \in {server, "exited"},
             t.step \in {"query", "store", "end", "idle"},
             t.step = "store" => forced', t.step = "query" => t.query \notin Updates,
             t.step = "idle" => server' = "exited"
      PROVE  DbInv'
  <2>1. TypeOK' /\ ConnsInUse' /\ ConnsAccounted' /\ \A v \in Workers : ConnOf(v)' = ConnOf(v)
    BY <1>1, <1>2, <1>3, WorkerGoes, WorkerType DEF Running
  <2>2. PendingIsAwaited'
    BY <1>1, <1>3, <2>1, WorkerType DEF DbInv, PendingIsAwaited, Running
  <2>3. StoresOwn' /\ OwnUnlessForced' /\ WritesOwnRow'
    BY <1>1, <1>3, <2>1, WorkerType
       DEF DbInv, ReadsOwn, StoresOwn, OwnUnlessForced, WritesOwnRow, Running, Updates
  <2>. QED BY <2>1, <2>2, <2>3 DEF DbInv, ReadsOwn
<1>4. CASE task[w].query \in GoesOn /\ task' = [task EXCEPT ![w].step = "store"] /\ UNCHANGED server
  <2>. DEFINE t == [task[w] EXCEPT !.step = "store"]
  <2>1. t \in Task /\ t.step = "store" /\ task' = [task EXCEPT ![w] = t]
    BY <1>1, <1>4, WorkerType DEF Task, Idle
  <2>2. forced'
    BY <1>1, <1>4 DEF GoesOn
  <2>. HIDE DEF t
  <2>3. t.step \in {"query", "store", "end", "idle"}
    BY <2>1
  <2>4. t.step # "query" /\ t.step # "idle"
    BY <2>1
  <2>5. server' \in {server, "exited"}
    BY <1>4
  <2>. QED BY <1>3, <2>1, <2>2, <2>3, <2>4, <2>5
<1>5. ASSUME NEW next \in Without(w), Goto(w, next) PROVE DbInv'
  <2>1. next \in (Queries \cup {"stop", "loop", "die"}) \ Updates
    BY <1>1, WithoutPlace DEF DbInv
  <2>2. PICK t \in Task :
          /\ task' = [task EXCEPT ![w] = t]
          /\ \/ t.step = "idle" /\ server' = "exited"
             \/ /\ t.step \in {"query", "end"} /\ server' = server
                /\ t.query \in Updates => t.query = next
    BY <1>1, <1>5, <2>1, GotoMoves DEF DbInv
  <2>3. t.step \in {"query", "store", "end", "idle"} /\ t.step # "store"
    BY <2>2
  <2>4. t.step = "query" => t.query \notin Updates
    BY <2>1, <2>2
  <2>5. server' \in {server, "exited"} /\ (t.step = "idle" => server' = "exited")
    BY <2>2
  <2>. QED BY <1>3, <2>2, <2>3, <2>4, <2>5
<1>. QED BY <1>4, <1>5 DEF QueryRefused

LEMMA StoreInv == ASSUME DbInv, NEW w \in Workers, Store(w) PROVE DbInv'
<1>1. /\ Running /\ task[w].step = "store"
      /\ got' = [got EXCEPT ![w] = pending[ConnOf(w)]]
      /\ pending' = [pending EXCEPT ![ConnOf(w)] = NULL]
      /\ UNCHANGED <<pool, conn, own, live, forced, begun>>
  BY DEF Store, On
<1>2. ConnOf(w) \in Conns
  BY <1>1, ConnType
<1>3. /\ got'[w] = pending[ConnOf(w)]
      /\ got' \in [Workers -> Answers \cup {NULL}] /\ begun' \in 0..MaxCommands
      /\ pending' \in [Conns -> Answers \cup {NULL}]
  BY <1>1, <1>2, WorkerType
<1>4. forced' \in BOOLEAN
  BY <1>1, Zenon DEF DbInv, TypeOK
<1>5. ~forced => pending[ConnOf(w)] = <<w, task[w].query>>
  BY <1>1 DEF DbInv, ReadsOwn, StoresOwn
<1>6. PICK next \in IF got'[w] = NULL THEN Without(w) ELSE After(w) : Goto(w, next)
  BY DEF Store
<1>7. /\ next \in Queries \cup {"stop", "loop", "die"}
      /\ next \in Updates => got'[w] # NULL /\ task[w].query \in Looked
  <2>1. CASE got'[w] = NULL
    BY <1>1, <1>6, <2>1, WithoutPlace DEF DbInv
  <2>2. CASE got'[w] # NULL
    BY <1>1, <1>6, <2>2, AfterPlace DEF DbInv
  <2>. QED BY <2>1, <2>2
<1>8. PICK t \in Task :
        /\ task' = [task EXCEPT ![w] = t]
        /\ \/ t.step = "idle" /\ server' = "exited"
           \/ /\ t.step \in {"query", "end"} /\ server' = server
              /\ t.query \in Updates => t.query = next
  BY <1>1, <1>6, <1>7, GotoMoves DEF DbInv
<1>9. TypeOK' /\ ConnsInUse' /\ ConnsAccounted' /\ \A v \in Workers : ConnOf(v)' = ConnOf(v)
  BY <1>1, <1>3, <1>4, <1>8, WorkerGoes, WorkerType DEF Running
<1>10. PendingIsAwaited'
  BY <1>1, <1>2, <1>8, <1>9, WorkerType DEF DbInv, PendingIsAwaited, Running
<1>11. StoresOwn'
  BY <1>1, <1>2, <1>8, <1>9, WorkerType, ConnType DEF DbInv, ReadsOwn, StoresOwn, Running
<1>12. OwnUnlessForced'
  BY <1>1, <1>5, WorkerType DEF DbInv, ReadsOwn, OwnUnlessForced
<1>13. WritesOwnRow'
  <2>1. ASSUME ~forced, t.query \in Updates, t.step = "query"
        PROVE  got'[w] # NULL /\ got'[w] \in {w} \X Looked
    <3>1. t.step # "idle"
      BY <2>1
    <3>2. t.query = next
      BY <1>8, <2>1, <3>1
    <3>3. got'[w] # NULL /\ task[w].query \in Looked
      BY <1>7, <2>1, <3>2
    <3>4. got'[w] = <<w, task[w].query>>
      BY <1>3, <1>5, <2>1
    <3>. QED BY <3>3, <3>4
  <2>. QED BY <1>1, <1>8, <2>1, WorkerType DEF DbInv, ReadsOwn, WritesOwnRow, Updates, Looked
<1>. QED BY <1>9, <1>10, <1>11, <1>12, <1>13 DEF DbInv, ReadsOwn

LEMMA CloseOwnInv == ASSUME DbInv, NEW w \in Workers, CloseOwn(w) PROVE DbInv'
<1>1. /\ Running /\ task[w].step = "end" /\ own[w] # NULL
      /\ own' = [own EXCEPT ![w] = NULL] /\ live' = live \ {own[w]}
      /\ UNCHANGED <<server, pool, conn, pending, task, got, forced, begun>>
  BY DEF CloseOwn, On
<1>2. forced' \in BOOLEAN
  BY <1>1, Zenon DEF DbInv, TypeOK
<1>3. TypeOK'
  BY <1>1, <1>2 DEF DbInv, TypeOK
<1>4. ConnsInUse'
  BY <1>1 DEF DbInv, ConnsInUse, TypeOK, Running
<1>5. ConnsAccounted'
  BY <1>1 DEF DbInv, ConnsAccounted, TypeOK
<1>6. \A v \in Workers \ {w} : ConnOf(v)' = ConnOf(v)
  BY <1>1 DEF DbInv, TypeOK, ConnOf
<1>7. PendingIsAwaited' /\ ReadsOwn'
  BY <1>1, <1>6 DEF DbInv, PendingIsAwaited, ReadsOwn, StoresOwn, OwnUnlessForced, WritesOwnRow,
                    Running
<1>. QED BY <1>3, <1>4, <1>5, <1>7 DEF DbInv

LEMMA MyLogInv == ASSUME DbInv, NEW w \in Workers, MyLog(w) PROVE DbInv'
<1>1. /\ Running /\ task[w].step = "end" /\ own[w] = NULL
      /\ task' = [task EXCEPT ![w] = Idle] /\ got' = [got EXCEPT ![w] = NULL]
      /\ UNCHANGED <<server, pool, conn, own, live, pending, forced, begun>>
  BY DEF MyLog, On
<1>2. forced' \in BOOLEAN
  BY <1>1, Zenon DEF DbInv, TypeOK
<1>3. Idle \in Task /\ Idle.step = "idle"
  BY DEF Task, Idle
<1>. HIDE DEF Idle
<1>4. got' \in [Workers -> Answers \cup {NULL}]
  BY <1>1, WorkerType
<1>5. TypeOK' /\ ConnsInUse' /\ ConnsAccounted' /\ \A v \in Workers : ConnOf(v)' = ConnOf(v)
  BY <1>1, <1>2, <1>3, <1>4, WorkerGoes, WorkerType
<1>6. PendingIsAwaited'
  BY <1>1, <1>3, <1>5, WorkerType DEF DbInv, PendingIsAwaited, Running
<1>7. StoresOwn' /\ OwnUnlessForced' /\ WritesOwnRow'
  BY <1>1, <1>3, <1>5, WorkerType
     DEF DbInv, ReadsOwn, StoresOwn, OwnUnlessForced, WritesOwnRow, Running
<1>. QED BY <1>5, <1>6, <1>7 DEF DbInv, ReadsOwn

-------------------------------------------------------------------------------

\* No step breaks the invariant.
LEMMA NextInv == DbInv /\ [Next]_vars => DbInv'
<1> SUFFICES ASSUME DbInv, [Next]_vars PROVE DbInv'
  OBVIOUS
<1>1. CASE CreatePool
  BY <1>1, CreatePoolInv
<1>2. CASE GetDbConnection
  BY <1>2, GetDbConnectionInv
<1>3. ASSUME NEW w \in Workers, WorkerStep(w) PROVE DbInv'
  BY <1>3, DoTaskInv, ConnectInv, QueryRunInv, QueryRefusedInv, StoreInv, CloseOwnInv, MyLogInv
     DEF WorkerStep
<1>4. CASE UNCHANGED vars
  <2>1. forced' \in BOOLEAN
    BY <1>4, Zenon DEF DbInv, TypeOK, vars
  <2>. QED BY <1>4, <2>1 DEF DbInv, TypeOK, ConnsInUse, ConnsAccounted, PendingIsAwaited, ReadsOwn,
                            StoresOwn, OwnUnlessForced, WritesOwnRow, Running, ConnOf, vars
<1>. QED BY <1>1, <1>2, <1>3, <1>4 DEF Next, Done

\* The image of a finite set under a function is not larger than the set.
LEMMA ImageBound ==
  ASSUME NEW S, IsFiniteSet(S), NEW f, f = [x \in S |-> f[x]]
  PROVE  LET T == { f[x] : x \in S } IN IsFiniteSet(T) /\ Cardinality(T) <= Cardinality(S)
<1>. DEFINE T == { f[x] : x \in S }
<1>1. f \in Surjection(S, T)
  BY DEF Surjection
<1>. HIDE DEF T
<1>2. IsFiniteSet(T) /\ Cardinality(T) <= Cardinality(S)
  BY <1>1, FS_Surjection
<1>. QED BY <1>2 DEF T

\* While a worker has yet to connect, the pool's slots and the other workers cannot
\* hold as many connections as the database accepts.
LEMMA Enough == DbInv => EnoughConnections
<1> SUFFICES ASSUME DbInv, PoolSize + Cardinality(Workers) <= Limit,
                    NEW w \in Workers, Running, task[w].step = "connect", live = Conns
             PROVE  FALSE
  BY DEF EnoughConnections, On
<1>1. PICK hole \in 1..PoolSize : pool[hole] = NULL
  BY DEF DbInv, ConnsInUse
<1>2. own[w] = NULL
  BY DEF DbInv, ConnsInUse
<1>. DEFINE shared == [i \in 1..PoolSize |-> IF i = hole THEN conn ELSE pool[i]]
            others == [v \in Workers \ {w} |-> own[v]]
            A == { shared[i] : i \in 1..PoolSize }
            B == { others[v] : v \in Workers \ {w} }
<1>3. live \subseteq A \cup B
  <2>1. ASSUME NEW c \in live PROVE c \in A \/ c \in B
    <3>1. c # NULL /\ (c = conn \/ (\E i \in 1..PoolSize : c = pool[i]) \/ \E v \in Workers : c = own[v])
      BY DEF DbInv, ConnsAccounted
    <3>2. CASE c = conn
      BY <1>1, <3>2
    <3>3. CASE \E i \in 1..PoolSize : c = pool[i]
      BY <1>1, <3>1, <3>3
    <3>4. CASE \E v \in Workers : c = own[v]
      BY <1>2, <3>1, <3>4
    <3>. QED BY <3>1, <3>2, <3>3, <3>4
  <2>. QED BY <2>1
<1>4. IsFiniteSet(A) /\ Cardinality(A) <= PoolSize
  <2>1. IsFiniteSet(1..PoolSize) /\ Cardinality(1..PoolSize) = PoolSize
    BY FS_Interval
  <2>. QED BY <2>1, ImageBound
<1>5. IsFiniteSet(B) /\ Cardinality(B) <= Cardinality(Workers) - 1
  <2>1. IsFiniteSet(Workers \ {w}) /\ Cardinality(Workers \ {w}) = Cardinality(Workers) - 1
    BY FS_RemoveElement
  <2>. QED BY <2>1, ImageBound
<1>. HIDE DEF A, B
<1>6. IsFiniteSet(A \cup B) /\ Cardinality(A \cup B) <= Cardinality(A) + Cardinality(B)
  <2>1. IsFiniteSet(A \cap B)
    BY <1>4, FS_Intersection
  <2>2. Cardinality(A \cap B) \in Nat /\ Cardinality(A) \in Nat /\ Cardinality(B) \in Nat
    BY <1>4, <1>5, <2>1, FS_CardinalityType
  <2>3. /\ IsFiniteSet(A \cup B)
        /\ Cardinality(A \cup B) = Cardinality(A) + Cardinality(B) - Cardinality(A \cap B)
    BY <1>4, <1>5, FS_Union
  <2>. QED BY <2>2, <2>3
<1>7. Cardinality(live) <= Cardinality(A \cup B) /\ IsFiniteSet(live)
  BY <1>3, <1>6, FS_Subset
<1>8. Cardinality(Conns) = Limit
  BY FS_Interval DEF Conns
<1>9. Cardinality(A) \in Nat /\ Cardinality(B) \in Nat /\ Cardinality(A \cup B) \in Nat
      /\ Cardinality(Workers) \in Nat
  BY <1>4, <1>5, <1>6, FS_CardinalityType
<1>. QED BY <1>4, <1>5, <1>6, <1>7, <1>8, <1>9

\* Every open connection has one place, the pool's first one is handed out once, and
\* whoever must connect finds the database with a connection left, if it accepts as
\* many as slots and workers together.
THEOREM ConnectionsAreKept == Spec => []ConnsInv
<1>1. DbInv => ConnsInv
  BY Enough DEF DbInv, ConnsInv
<1>. QED BY <1>1, InitInv, NextInv, PTL DEF Spec

\* However the workers' queries interleave on the shared connection, a result is
\* never left there for good: who asked for it is about to store it.
THEOREM ResultsAreTaken == Spec => []PendingIsAwaited
  BY InitInv, NextInv, PTL DEF Spec, DbInv

\* Only a refused query of get_curPath or exit_file makes a worker read the result
\* of another, or change a row that he has not looked up.
THEOREM RowsAreOwn == Spec => []ReadsOwn
  BY InitInv, NextInv, PTL DEF Spec, DbInv
====
