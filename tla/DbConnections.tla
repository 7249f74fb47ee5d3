---------------------------- MODULE DbConnections ----------------------------
(***************************************************************************)
(* The connections to the database: the pool that main opens               *)
(* (server/dbPool.c, mysql.c), the one connection of it that all workers    *)
(* share without a lock (the global conn), and those that ls and mkdir      *)
(* open for themselves (server/mkdir.c, ls.c).                             *)
(*                                                                         *)
(* A command is the sequence of statements its worker sends; what the      *)
(* statements do to the tables is in FileStore and DirTree.  Here a SELECT *)
(* and the reading of its result are two steps, between which other workers *)
(* run.  The client library is modelled from its use: a connection holds    *)
(* the result of at most one query; a query that comes before that result   *)
(* has been stored is refused ("out of sync"), and storing takes whatever  *)
(* result is there.  Each call of the library is one step, which favours    *)
(* the code: two calls on one connection could overlap.  Statements do not  *)
(* fail for other reasons.                                                 *)
(*                                                                         *)
(* Bounds: MaxCommands.                                                    *)
(***************************************************************************)
EXTENDS Integers, Sequences, FiniteSets

CONSTANTS Workers,
          PoolSize,     \* POOL_SIZE
          Limit,        \* the connections that the database accepts
          Commands,     \* the commands that clients send
          MaxCommands,
          NULL

Conns == 1..Limit

VARIABLES
  server,   \* "starting", "pooled", "running" or "exited"
  pool,     \* pool->connections, by slot: a connection or NULL
  conn,     \* the global conn
  own,      \* own[w]: the connection that ls or mkdir has open
  live,     \* the connections that are open
  pending,  \* pending[c]: the result that c holds, as the <<worker, query>> it answers
  task,     \* task[w]: [cmd |-> , query |-> , step |-> , inLoop |-> ], or Idle
  got,      \* got[w]: what w has stored for its next statement, as <<worker, query>>
  forced,   \* history: get_curPath or exit_file was refused and stored nevertheless
  begun     \* commands taken so far

vars == <<server, pool, conn, own, live, pending, task, got, forced, begun>>
connections == <<server, pool, conn, own, live>>

Idle == [cmd |-> NULL, query |-> NULL, step |-> "idle", inLoop |-> FALSE]

-------------------------------------------------------------------------------
(* What each command asks, one after another.  "end" is the end of the      *)
(* command, "stop" the way out of a helper that found no row or failed.     *)

Selects == {"curPath", "hash", "userPwd", "userId", "dirOf", "hashOfV", "linkCount",
            "dirId", "contents", "fileMess", "hashId", "names", "dirInfo", "dirPath", "path"}
Queries == Selects \cup {"insG", "insV", "updLink", "updUser", "delV", "decLink", "updTime",
                        "delDir", "insDir", "end"}

PwdFlow   == {<<"curPath", "end">>}
GetsFlow  == {<<"curPath", "hash">>, <<"hash", "end">>}
CdFlow    == {<<"userPwd", "userId">>, <<"userId", "dirOf">>, <<"dirOf", "updUser">>,
              <<"dirOf", "stop">>, <<"updUser", "end">>}
RmCommandFlow ==
  {<<"hashOfV", "delV">>, <<"hashOfV", "stop">>, <<"delV", "decLink">>,
   <<"decLink", "linkCount">>, <<"linkCount", "updTime">>, <<"linkCount", "stop">>,
   <<"updTime", "stop">>}
RmFlow    == {<<"userPwd", "userId">>, <<"userId", "hashOfV">>} \cup RmCommandFlow
RmdirFlow == {<<"userPwd", "userId">>, <<"userId", "dirId">>, <<"dirId", "delDir">>,
              <<"dirId", "stop">>, <<"delDir", "contents">>, <<"contents", "loop">>}
             \cup RmCommandFlow
\* add_globFile and add_virtual, or add_virtual and updata_link.
PutsFlow  == {<<"insG", "fileMess">>, <<"fileMess", "hashId">>, <<"hashId", "insV">>,
              <<"insV", "end">>}
InstantFlow == {<<"fileMess", "hashId">>, <<"hashId", "insV">>, <<"insV", "updLink">>,
                <<"updLink", "end">>}
LsFlow    == {<<"names", "end">>}
\* A user without a row, or whose directory has none, is not noticed at first; then
\* mkdir copies from NULL.
MkdirFlow == {<<"dirInfo", "dirPath">>, <<"dirInfo", "path">>, <<"dirPath", "path">>,
              <<"path", "insDir">>, <<"path", "die">>, <<"insDir", "end">>}

Flow == [pwd |-> PwdFlow, gets |-> GetsFlow, cd |-> CdFlow, rm |-> RmFlow,
         rmdir |-> RmdirFlow, puts |-> PutsFlow, instant |-> InstantFlow,
         ls |-> LsFlow, mkdir |-> MkdirFlow]

First == [pwd |-> "curPath", gets |-> "curPath", cd |-> "userPwd", rm |-> "userPwd",
          rmdir |-> "userPwd", puts |-> "insG", instant |-> "fileMess",
          ls |-> "names", mkdir |-> "dirInfo"]

ASSUME DbAssumption ==
  /\ PoolSize \in Nat \ {0} /\ Limit \in Nat /\ MaxCommands \in Nat
  /\ IsFiniteSet(Workers) /\ Commands \subseteq DOMAIN Flow
  /\ NULL \notin Nat \cup Commands \cup (Workers \X Queries)

After(w) == { edge[2] : edge \in { e \in Flow[task[w].cmd] : e[1] = task[w].query } }

\* Mutant of GoesOn: get_user_pwd does not return either.
GoesOnPwd == {"curPath", "hash", "userPwd"}

\* The functions that report a refused query and go on to store a result.
GoesOn == {"curPath", "hash"}

\* Mutant of Without: upd_dir_in_u updates although its SELECT was refused.
WithoutReturn(w) ==
  CASE task[w].query = "userPwd" -> {"die"}
    [] task[w].query \in {"curPath", "hash"} -> After(w) \cup {"die"}
    [] task[w].query \in {"userId", "fileMess", "hashId", "insG", "insV", "dirOf"} -> After(w)
    [] OTHER -> {"stop"}

\* Where a command goes without a result: get_whole_path copies from NULL when
\* get_user_pwd failed; a missing user id, hash id or directory of the user, and
\* a refused INSERT, are not noticed; the rest returns an error.
Without(w) ==
  CASE task[w].query = "userPwd" -> {"die"}
    [] task[w].query \in {"curPath", "hash"} -> After(w) \cup {"die"}
    [] task[w].query \in {"userId", "fileMess", "hashId", "insG", "insV"} -> After(w)
    [] OTHER -> {"stop"}

\* rmdir's loop over the rows of a directory ignores the errors of what it calls.
Goto(w, next) ==
  LET looping == task[w].inLoop \/ next = "loop"
      Places  == IF next \in {"stop", "loop"}
                 THEN IF looping THEN {"hashOfV", "dirId", "end"} ELSE {"end"}
                 ELSE {next}
  IN  \/ /\ next = "die"
         /\ server' = "exited"
         /\ task' = [task EXCEPT ![w] = Idle]
      \/ \E place \in Places \ {"die"} :
           /\ task' = [task EXCEPT ![w].query = place,
                                   ![w].step = IF place = "end" THEN "end" ELSE "query",
                                   ![w].inLoop = looping]
           /\ UNCHANGED server

-------------------------------------------------------------------------------
(* main *)

Init ==
  /\ server = "starting"
  /\ pool = [i \in 1..PoolSize |-> NULL]
  /\ conn = NULL
  /\ own = [w \in Workers |-> NULL]
  /\ live = {}
  /\ pending = [c \in Conns |-> NULL]
  /\ task = [w \in Workers |-> Idle]
  /\ got = [w \in Workers |-> NULL]
  /\ forced = FALSE
  /\ begun = 0

\* Mutant of CreatePool: the loop runs to pool_size inclusive.
CreatePoolOver ==
  /\ server = "starting"
  /\ \E ok \in SUBSET (1..(PoolSize + 1)) :
       /\ Cardinality(ok) <= Limit
       /\ pool' = [i \in 1..(PoolSize + 1) |->
                     IF i \in ok THEN Cardinality({ j \in ok : j <= i }) ELSE NULL]
       /\ live' = { pool'[i] : i \in ok }
       /\ server' = IF ok = {} THEN "exited" ELSE "pooled"
  /\ UNCHANGED <<conn, own, pending, task, got, forced, begun>>

\* create_db_pool: a slot whose connection fails stays empty; with none at all
\* the server does not start.
CreatePool ==
  /\ server = "starting"
  /\ \E ok \in SUBSET (1..PoolSize) :
       /\ Cardinality(ok) <= Limit
       /\ pool' = [i \in 1..PoolSize |->
                     IF i \in ok THEN Cardinality({ j \in ok : j <= i }) ELSE NULL]
       /\ live' = { pool'[i] : i \in ok }
       /\ server' = IF ok = {} THEN "exited" ELSE "pooled"
  /\ UNCHANGED <<conn, own, pending, task, got, forced, begun>>

\* Mutant of GetDbConnection: the connection stays in its slot.
GetDbConnectionKept ==
  /\ server = "pooled"
  /\ \E i \in 1..PoolSize :
       /\ pool[i] # NULL /\ \A j \in 1..(i - 1) : pool[j] = NULL
       /\ conn' = pool[i]
  /\ server' = "running"
  /\ UNCHANGED <<pool, own, live, pending, task, got, forced, begun>>

\* get_db_connection: the first one leaves the pool and becomes the global conn.
GetDbConnection ==
  /\ server = "pooled"
  /\ \E i \in 1..PoolSize :
       /\ pool[i] # NULL /\ \A j \in 1..(i - 1) : pool[j] = NULL
       /\ conn' = pool[i]
       /\ pool' = [pool EXCEPT ![i] = NULL]
  /\ server' = "running"
  /\ UNCHANGED <<own, live, pending, task, got, forced, begun>>

-------------------------------------------------------------------------------
(* A worker *)

Running == server = "running"
On(w, step) == Running /\ task[w].step = step
ConnOf(w) == IF own[w] # NULL THEN own[w] ELSE conn
OpensOwn == {"ls", "mkdir"}

DoTask(w) ==
  /\ On(w, "idle") /\ begun < MaxCommands
  /\ \E cmd \in Commands :
       task' = [task EXCEPT ![w] = [cmd |-> cmd, query |-> First[cmd], inLoop |-> FALSE,
                                    step |-> IF cmd \in OpensOwn THEN "connect" ELSE "query"]]
  /\ got' = [got EXCEPT ![w] = NULL]
  /\ begun' = begun + 1
  /\ UNCHANGED <<connections, pending, forced>>

\* connect_to_mysql: when the database refuses, the command ends the server.
Connect(w) ==
  /\ On(w, "connect")
  /\ \/ /\ live # Conns
        /\ LET c == CHOOSE c \in Conns \ live : \A d \in Conns \ live : c <= d
           IN  /\ own' = [own EXCEPT ![w] = c]
               /\ live' = live \cup {c}
        /\ task' = [task EXCEPT ![w].step = "query"]
        /\ UNCHANGED server
     \/ /\ live = Conns
        /\ server' = "exited"
        /\ UNCHANGED <<own, live, task>>
  /\ UNCHANGED <<pool, conn, pending, got, forced, begun>>

\* mysql_query on a connection without a pending result.
QueryRun(w) ==
  /\ On(w, "query") /\ pending[ConnOf(w)] = NULL
  /\ \/ /\ task[w].query \in Selects
        /\ pending' = [pending EXCEPT ![ConnOf(w)] = <<w, task[w].query>>]
        /\ task' = [task EXCEPT ![w].step = "store"]
        /\ UNCHANGED server
     \/ /\ task[w].query \notin Selects
        /\ \E next \in After(w) : Goto(w, next)
        /\ UNCHANGED pending
  /\ got' = [got EXCEPT ![w] = NULL]
  /\ UNCHANGED <<pool, conn, own, live, forced, begun>>

\* mysql_query while a result is pending: an error.
QueryRefused(w) ==
  /\ On(w, "query") /\ pending[ConnOf(w)] # NULL
  /\ forced' = (forced \/ task[w].query \in {"curPath", "hash"})
  /\ \/ /\ task[w].query \in GoesOn
        /\ task' = [task EXCEPT ![w].step = "store"]
        /\ UNCHANGED server
     \/ /\ task[w].query \notin GoesOn
        /\ \E next \in Without(w) : Goto(w, next)
  /\ UNCHANGED <<pool, conn, own, live, pending, got, begun>>

\* Mutant of Store: an error answer leaves the result where it is.
StoreOrLeave(w) ==
  /\ On(w, "store")
  /\ \/ /\ got' = [got EXCEPT ![w] = pending[ConnOf(w)]]
        /\ pending' = [pending EXCEPT ![ConnOf(w)] = NULL]
     \/ /\ got' = [got EXCEPT ![w] = NULL]
        /\ UNCHANGED pending
  /\ \E next \in IF got'[w] = NULL THEN Without(w) ELSE After(w) : Goto(w, next)
  /\ UNCHANGED <<pool, conn, own, live, forced, begun>>

\* mysql_store_result, and the rows of the result: whatever is pending is taken.
Store(w) ==
  /\ On(w, "store")
  /\ got' = [got EXCEPT ![w] = pending[ConnOf(w)]]
  /\ pending' = [pending EXCEPT ![ConnOf(w)] = NULL]
  /\ \E next \in IF got'[w] = NULL THEN Without(w) ELSE After(w) : Goto(w, next)
  /\ UNCHANGED <<pool, conn, own, live, forced, begun>>

\* Mutant of CloseOwn: the connection is left open.
CloseOwnLeaks(w) ==
  /\ On(w, "end") /\ own[w] # NULL
  /\ own' = [own EXCEPT ![w] = NULL]
  /\ UNCHANGED <<server, pool, conn, live, pending, task, got, forced, begun>>

\* mysql_close at the end of ls and mkdir.
CloseOwn(w) ==
  /\ On(w, "end") /\ own[w] # NULL
  /\ own' = [own EXCEPT ![w] = NULL]
  /\ live' = live \ {own[w]}
  /\ UNCHANGED <<server, pool, conn, pending, task, got, forced, begun>>

\* logInfo(conn, ...) after every command: an INSERT on the shared connection,
\* lost when a result is pending there.
MyLog(w) ==
  /\ On(w, "end") /\ own[w] = NULL
  /\ task' = [task EXCEPT ![w] = Idle]
  /\ got' = [got EXCEPT ![w] = NULL]
  /\ UNCHANGED <<connections, pending, forced, begun>>

WorkerStep(w) ==
  \/ DoTask(w) \/ Connect(w)
  \/ QueryRun(w) \/ QueryRefused(w) \/ Store(w)
  \/ CloseOwn(w) \/ MyLog(w)

Done ==
  /\ \/ server = "exited"
     \/ Running /\ begun = MaxCommands /\ \A w \in Workers : task[w] = Idle
  /\ UNCHANGED vars

Next == CreatePool \/ GetDbConnection \/ (\E w \in Workers : WorkerStep(w)) \/ Done

Spec == Init /\ [][Next]_vars

-------------------------------------------------------------------------------
(* Correctness *)

Answers == Workers \X Selects
Task    == [cmd : Commands, query : Queries, step : {"connect", "query", "store", "end"},
            inLoop : BOOLEAN] \cup {Idle}

TypeOK ==
  /\ server \in {"starting", "pooled", "running", "exited"}
  /\ pool \in [1..PoolSize -> Conns \cup {NULL}]
  /\ conn \in Conns \cup {NULL}
  /\ own \in [Workers -> Conns \cup {NULL}]
  /\ live \subseteq Conns
  /\ pending \in [Conns -> Answers \cup {NULL}]
  /\ task \in [Workers -> Task]
  /\ got \in [Workers -> Answers \cup {NULL}]
  /\ begun \in 0..MaxCommands /\ forced \in BOOLEAN

\* The shared connection comes out of the pool before the first command, and its
\* slot stays empty; a worker opens his own before his first statement, for his command.
ConnsInUse ==
  /\ server \in {"starting", "pooled"} =>
       /\ conn = NULL
       /\ \A w \in Workers : task[w] = Idle /\ own[w] = NULL
       /\ \A c \in Conns : pending[c] = NULL
  /\ Running => /\ conn # NULL
                /\ \E i \in 1..PoolSize : pool[i] = NULL
                /\ \A w \in Workers :
                     /\ own[w] # NULL => task[w].step \in {"query", "store", "end"}
                     /\ task[w].step = "connect" => task[w].query = First[task[w].cmd]

\* Before a result is stored, it is there, and its own, as long as nothing was forced.
StoresOwn ==
  Running /\ ~forced =>
    \A w \in Workers : task[w].step = "store" => pending[ConnOf(w)] = <<w, task[w].query>>

\* The shared connection is never left unusable: a result that is pending is that
\* of the last query of a worker that still stands before the call that stores a
\* result, however many results were taken in another's name in between.  (Every
\* path from a SELECT to the end of its function passes mysql_store_result.)
PendingIsAwaited ==
  Running => \A c \in Conns : pending[c] # NULL =>
    \E w \in Workers : /\ pending[c] = <<w, task[w].query>>
                       /\ task[w].step = "store" /\ ConnOf(w) = c

\* The helpers that return as soon as their query is refused never take another
\* worker's result, nor make one be taken: as long as get_curPath and exit_file,
\* which go on, have not been refused, everybody reads the answer to his query.
OwnUnlessForced ==
  ~forced =>
    \A w \in Workers : got[w] # NULL => got[w][1] = w

\* A row that cd, rm or rmdir change is the one they looked up: the UPDATE or
\* DELETE follows a SELECT of the same worker, or get_curPath or exit_file were
\* refused before.
WritesOwnRow ==
  \A w \in Workers :
    task[w].step = "query" /\ task[w].query \in {"updUser", "delV", "delDir", "updTime"} =>
      \/ got[w] # NULL /\ got[w] \in {w} \X {"dirOf", "hashOfV", "dirId", "linkCount"}
      \/ forced

\* Together: what a worker reads and what it changes is its own.
ReadsOwn == StoresOwn /\ OwnUnlessForced /\ WritesOwnRow

\* No open connection is forgotten, and none has two places: each is in one slot
\* of the pool, the shared one, or one worker's.
ConnsAccounted ==
  /\ live = ({ pool[i] : i \in 1..PoolSize } \cup { own[w] : w \in Workers } \cup {conn})
            \ {NULL}
  /\ \A i, j \in 1..PoolSize : pool[i] # NULL /\ pool[i] = pool[j] => i = j
  /\ \A w, v \in Workers : own[w] # NULL /\ own[w] = own[v] => w = v
  /\ \A i \in 1..PoolSize : pool[i] # NULL =>
       pool[i] # conn /\ \A w \in Workers : pool[i] # own[w]
  /\ conn # NULL => \A w \in Workers : own[w] # conn

\* ls and mkdir end the whole server when the database has no connection left; it
\* has one as long as it accepts as many as the pool and the workers together.
EnoughConnections ==
  PoolSize + Cardinality(Workers) <= Limit =>
    \A w \in Workers : On(w, "connect") => live # Conns

\* Together: every connection has one place, and there is one for who needs it.
ConnsInv == TypeOK /\ ConnsInUse /\ ConnsAccounted /\ EnoughConnections

\* dataTransfer.c:70 "first get the working path of the current user": the row that
\* get_curPath reads is that user's.
CurPathIsOwn ==
  \A w \in Workers :
    task[w].query = "hash" /\ task[w].step = "query" /\ got[w] # NULL => got[w][1] = w
==============================================================================
