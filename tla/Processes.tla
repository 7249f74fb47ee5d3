------------------------------ MODULE Processes ------------------------------
(***************************************************************************)
(* The two processes of server/main.c: the parent waits for its child and  *)
(* passes SIGUSR1 on through exitPipe; the child is the server, with its   *)
(* reactor thread and its workers.                                         *)
(*                                                                         *)
(* The queue and the workers are counted only: TaskQueue has them in       *)
(* detail, Reactor the loop, Transfer what becomes of a worker whose       *)
(* client is gone.  Here is what all of them mean for the end of the       *)
(* server.  Signals go to the parent.                                      *)
(*                                                                         *)
(* Bounds: MaxRequests messages begun, MaxSignals, MaxCrashes.             *)
(***************************************************************************)
EXTENDS Integers

CONSTANTS NumWorkers, MaxRequests, MaxSignals, MaxCrashes

ASSUME ProcessesAssumption ==
  NumWorkers \in Nat \ {0} /\ {MaxRequests, MaxSignals, MaxCrashes} \subseteq Nat

VARIABLES
  parent,    \* "forked": before signal(), "waiting", "exited" or "killed"
  child,     \* "init", "loop", "header", "spinning", "stop", "join", "exited" or "killed"
  pipe,      \* the numbers in exitPipe
  listening, \* tcpInit has succeeded
  queued, busy, lost,  \* tasks that wait; workers that run one; workers that never return
  asleep,    \* a worker has missed the broadcast
  requests, signals, crashes

counters == <<requests, signals, crashes>>
tasks    == <<queued, busy, lost, asleep>>
serverVars == <<parent, child, pipe, listening, tasks, counters>>

ParentGone == parent \in {"exited", "killed"}
ChildGone  == child \in {"exited", "killed"}

\* Mutant of WriteEnds: the child keeps its copy of the write end.
WriteEndsKept == (IF ParentGone THEN 0 ELSE 1) + (IF ChildGone THEN 0 ELSE 1)

\* The open write ends of exitPipe: the child has closed its own.
WriteEnds == IF ParentGone THEN 0 ELSE 1

ServerInit ==
  /\ parent = "forked" /\ child = "init"
  /\ pipe = 0 /\ listening = FALSE
  /\ queued = 0 /\ busy = 0 /\ lost = 0 /\ asleep = FALSE
  /\ requests = 0 /\ signals = 0 /\ crashes = 0

-------------------------------------------------------------------------------
(* The parent *)

\* signal(SIGUSR1, sigHandler).
InstallHandler ==
  /\ parent = "forked" /\ parent' = "waiting"
  /\ UNCHANGED <<child, pipe, listening, tasks, counters>>

\* SIGUSR1: before there is a handler it kills; the handler writes to the pipe, and
\* when the child, the only reader, is gone, SIGPIPE kills.  wait goes on after it.
Signal ==
  /\ ~ParentGone /\ signals < MaxSignals
  /\ signals' = signals + 1
  /\ IF parent = "forked" \/ ChildGone
     THEN parent' = "killed" /\ UNCHANGED pipe
     ELSE pipe' = pipe + 1 /\ UNCHANGED parent
  /\ UNCHANGED <<child, listening, tasks, requests, crashes>>

\* Mutant of WaitReturns: a child that a signal killed does not count.
WaitForExit ==
  /\ parent = "waiting" /\ child = "exited"
  /\ parent' = "exited"
  /\ UNCHANGED <<child, pipe, listening, tasks, counters>>

WaitReturns ==
  /\ parent = "waiting" /\ ChildGone
  /\ parent' = "exited"
  /\ UNCHANGED <<child, pipe, listening, tasks, counters>>

-------------------------------------------------------------------------------
(* The child *)

\* No connection to the database: the child ends.  tcpInit's failure is not
\* noticed: the loop begins without a listening socket.
Start ==
  /\ child = "init"
  /\ \/ child' = "exited" /\ UNCHANGED listening
     \/ child' = "loop" /\ listening' \in BOOLEAN
  /\ UNCHANGED <<parent, pipe, tasks, counters>>

\* handleMessage reads a whole message, or finds the client gone: of any but the
\* first user, deleteNode2 never returns.
Message ==
  /\ child = "loop" /\ listening /\ requests < MaxRequests
  /\ requests' = requests + 1
  /\ \/ queued' = queued + 1 /\ UNCHANGED child
     \/ child' \in {"loop", "spinning"} /\ UNCHANGED queued
  /\ UNCHANGED <<parent, pipe, listening, busy, lost, asleep, signals, crashes>>

\* Only a part of a header has arrived: recvn waits for the rest.
PartOfHeader ==
  /\ child = "loop" /\ listening /\ requests < MaxRequests
  /\ requests' = requests + 1
  /\ child' = "header"
  /\ UNCHANGED <<parent, pipe, listening, tasks, signals, crashes>>

\* The rest of it, or the end of the connection.
RestOfHeader ==
  /\ child = "header"
  /\ child' = "loop"
  /\ queued' \in {queued, queued + 1}
  /\ UNCHANGED <<parent, pipe, listening, busy, lost, asleep, counters>>

\* Mutant of ExitRequest: at the end of the pipe one more number is counted.
ExitRequestCounts ==
  /\ child = "loop" /\ (pipe > 0 \/ WriteEnds = 0)
  /\ pipe' = pipe - 1
  /\ child' = "stop"
  /\ UNCHANGED <<parent, listening, tasks, counters>>

\* exitPipe is ready when there is a number in it, or no write end is open.
ExitRequest ==
  /\ child = "loop" /\ (pipe > 0 \/ WriteEnds = 0)
  /\ pipe' = IF pipe > 0 THEN pipe - 1 ELSE 0
  /\ child' = "stop"
  /\ UNCHANGED <<parent, listening, tasks, counters>>

\* threadpoolStop: the queue is empty; the broadcast, which a worker that is about
\* to wait misses; the joins.
Broadcast ==
  /\ child = "stop" /\ queued = 0
  /\ child' = "join"
  /\ asleep' \in IF busy + lost < NumWorkers THEN BOOLEAN ELSE {FALSE}
  /\ UNCHANGED <<parent, pipe, listening, queued, busy, lost, counters>>

\* Mutant of Join: exit does not wait for the workers' tasks.
JoinNobody ==
  /\ child = "join"
  /\ child' = "exited"
  /\ UNCHANGED <<parent, pipe, listening, tasks, counters>>

Join ==
  /\ child = "join" /\ busy = 0 /\ lost = 0 /\ ~asleep
  /\ child' = "exited"
  /\ UNCHANGED <<parent, pipe, listening, tasks, counters>>

\* The child dies of a signal: SIGPIPE, SIGSEGV.
Crash ==
  /\ ~ChildGone /\ crashes < MaxCrashes
  /\ crashes' = crashes + 1
  /\ child' = "killed"
  /\ UNCHANGED <<parent, pipe, listening, tasks, requests, signals>>

\* A worker takes a task ...
Take ==
  /\ ~ChildGone /\ queued > 0 /\ busy + lost < NumWorkers
  /\ queued' = queued - 1 /\ busy' = busy + 1
  /\ UNCHANGED <<parent, child, pipe, listening, lost, asleep, counters>>

\* ... finishes it ...
Finish ==
  /\ ~ChildGone /\ busy > 0
  /\ busy' = busy - 1
  /\ UNCHANGED <<parent, child, pipe, listening, queued, lost, asleep, counters>>

\* ... or never does: its client is silent or has hung up in the middle of a file.
Lose ==
  /\ ~ChildGone /\ busy > 0
  /\ busy' = busy - 1 /\ lost' = lost + 1
  /\ UNCHANGED <<parent, child, pipe, listening, queued, asleep, counters>>

-------------------------------------------------------------------------------
ParentStep == InstallHandler \/ WaitReturns
ChildStep  == Start \/ ExitRequest \/ Broadcast \/ Join
WorkerStep == Take \/ Finish
Clients    == Message \/ PartOfHeader \/ RestOfHeader \/ Lose

ServerNext == ParentStep \/ ChildStep \/ WorkerStep \/ Clients \/ Signal \/ Crash

\* Threads that can go on do; clients and signals need not come.  epoll_wait
\* reports the pipe in every round, so that ExitRequest is not put off for ever by
\* messages.
ServerSpec == ServerInit /\ [][ServerNext]_serverVars
FairSpec ==
  /\ ServerSpec
  /\ WF_serverVars(ParentStep) /\ WF_serverVars(Start) /\ SF_serverVars(ExitRequest)
  /\ WF_serverVars(Broadcast) /\ WF_serverVars(Join) /\ WF_serverVars(Take)
  /\ WF_serverVars(Finish)

-------------------------------------------------------------------------------
(* Correctness *)

ServerTypeOK ==
  /\ parent \in {"forked", "waiting", "exited", "killed"}
  /\ child \in {"init", "loop", "header", "spinning", "stop", "join", "exited", "killed"}
  /\ pipe \in Nat /\ queued \in Nat /\ busy \in Nat /\ lost \in Nat
  /\ requests \in Nat /\ signals \in Nat /\ crashes \in Nat
  /\ busy + lost <= NumWorkers
  /\ listening \in BOOLEAN /\ asleep \in BOOLEAN

\* The child leaves its loop only on a signal, and at the end of an orderly exit
\* every task it accepted has been executed.
ExitsInOrder ==
  /\ child \in {"stop", "join"} => signals > 0
  /\ child = "exited" => queued = 0 /\ busy = 0

\* Why: a number in the pipe comes of a signal, and its writer goes away before the
\* child only when one kills it; a task comes of a message, and none is queued
\* before the loop and after it.
Accounts ==
  /\ pipe <= signals /\ signals <= MaxSignals
  /\ ParentGone => ChildGone \/ signals > 0
  /\ queued + busy + lost + (IF child = "header" THEN 1 ELSE 0) <= requests
  /\ requests <= MaxRequests
  /\ child \in {"init", "join"} => queued = 0
  /\ child = "init" => busy = 0 /\ lost = 0

\* Together: the end of the server, in the order the code promises; inductive.
ProcessInv == ServerTypeOK /\ ExitsInOrder /\ Accounts

\* What can keep the server from ending: deleteNode2 spins, a client holds a header
\* back, a worker never returns, or one has missed the broadcast.
Hindered == child \in {"spinning", "header"} \/ lost > 0 \/ asleep

\* However early the signal comes, whether it finds a handler or kills the parent,
\* nothing but these keeps both processes from ending: the pipe's number, or the
\* end of its only writer, reaches the child after its start.
StopEnds == signals > 0 ~> (ParentGone /\ ChildGone) \/ []Hindered

\* The parent never waits for a child that is gone.
ParentFollows == ChildGone ~> ParentGone

\* main.c:146 "the main thread tells all its threads to exit": it gets there.
StopNoticed == signals > 0 ~> child \notin {"loop", "header"}
===============================================================================
