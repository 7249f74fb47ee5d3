-------------------------------- MODULE Session --------------------------------
(***************************************************************************)
(* One client and the server on one connection: login, commands and their  *)
(* replies, and the hand-shakes of puts and gets, by which both ends agree *)
(* on what is missing of a file (client/main.c, client.c, puts.c, gets.c;  *)
(* server/bussiness.c, user.c, puts.c, gets.c).                            *)
(*                                                                         *)
(* The connection is two streams of units; a unit is what one side sends   *)
(* for one field: <<kind, value>>.  A read takes the next unit, whatever   *)
(* its kind; replies ("text") have no frame.  A header carries the number  *)
(* its type has in the client's CmdType; doTask looks it up in the         *)
(* server's.  When a side takes a unit for a field of another kind, out of *)
(* step is set and the model stops there.  Either side may fail to open    *)
(* the file of a gets.  TCP neither loses nor reorders; hang-ups are in    *)
(* Reactor, Transfer and FileStore.                                        *)
(*                                                                         *)
(* Bounds: MaxCommands, MaxErrors (refused logins), Size (units in a file).*)
(***************************************************************************)
EXTENDS Integers, Sequences, FiniteSets, SequencesExt

CONSTANTS Workers, Size, MaxCommands, MaxErrors,
          Patient,    \* the user lets a command finish and be shown before the next
                      \* (Settled)
          NoName      \* whether a transfer is typed without a file name

ASSUME SessionAssumption ==
  /\ Size \in Nat \ {0} /\ MaxCommands \in Nat /\ MaxErrors \in Nat
  /\ Patient \in BOOLEAN /\ NoName \in BOOLEAN

VARIABLES
  toServer, toClient,  \* the streams
  client,     \* [pc |-> , left |-> ]: the client's place and the data it still expects
  polled,     \* the connection is in the server's epoll set
  queue,      \* the tasks no worker has taken
  worker,     \* by worker: [task |-> , at |-> , left |-> ]
  stored,     \* units on the server of the file that puts uploads
  fetched,    \* units at the client of the file that gets downloads
  outOfStep, commands, errors,
  notOpened   \* history: the client could not open the file that gets was to write

vars == <<toServer, toClient, client, polled, queue, worker, stored, fetched,
          outOfStep, commands, errors, notOpened>>

NoTask == [task |-> "none", arg |-> "-", typed |-> "none", at |-> "idle", left |-> 0]
Units(kind, n) == [i \in 1..n |-> <<kind, i>>]

\* CmdType of client.h, by the word getCommandType looks for.
ClientType ==
  [pwd |-> 1, ls |-> 2, cd |-> 3, rm |-> 4, mkdir |-> 5, rmdir |-> 6, puts |-> 7,
   gets |-> 8, notcmd |-> 9, login1 |-> 100, login2 |-> 103]

\* Mutant of ServerType: cd before ls.
ServerTypeSwapped ==
  [pwd |-> 1, ls |-> 3, cd |-> 2, rm |-> 4, mkdir |-> 5, rmdir |-> 6, puts |-> 7,
   gets |-> 8, recv |-> 9, send |-> 10, notcmd |-> 11, login1 |-> 100, login2 |-> 103]

\* CmdType of thread_pool.h, by the command doTask calls for it.
ServerType ==
  [pwd |-> 1, ls |-> 2, cd |-> 3, rm |-> 4, mkdir |-> 5, rmdir |-> 6, puts |-> 7,
   gets |-> 8, recv |-> 9, send |-> 10, notcmd |-> 11, login1 |-> 100, login2 |-> 103]

doTask(type) == CHOOSE task \in DOMAIN ServerType : ServerType[task] = type

\* A message.  Its content, where that matters: the name of a file that is there,
\* of one that is missing, or none.
Header(typed, arg) ==
  <<"header", [type |-> ClientType[typed], arg |-> arg, typed |-> typed]>>

Init ==
  /\ toServer = <<>> /\ toClient = <<>>
  /\ client = [pc |-> "name", left |-> 0]
  /\ polled = TRUE
  /\ queue = <<>>
  /\ worker = [w \in Workers |-> NoTask]
  /\ stored \in 0..Size /\ fetched \in 0..Size
  /\ outOfStep = FALSE
  /\ commands = 0 /\ errors = 0
  /\ notOpened = FALSE

Quiet == toServer = <<>> /\ toClient = <<>> /\ queue = <<>> /\ \A w \in Workers : worker[w] = NoTask

\* What a patient user waits for.  A gets that could not open its file is over, as far as
\* he can see; the server still waits for its size.
Settled == Quiet \/ (notOpened /\ toServer = <<>>)

server == <<polled, queue, worker, stored>>

-------------------------------------------------------------------------------
(* The client *)

ClientAt(label) == ~outOfStep /\ client.pc = label
ClientGoto(label) == client' = [pc |-> label, left |-> 0]
Send(units) == toServer' = toServer \o units

\* The next unit of toClient is taken for one of this kind.
ClientTakes(kind) ==
  /\ toClient # <<>>
  /\ toClient' = Tail(toClient)
  /\ outOfStep' = (Head(toClient)[1] # kind)
Taken == Head(toClient)[2]

\* userLogin1 and userLogin2: what is typed goes out, the answer is waited for.
LoginSend ==
  /\ ~outOfStep
  /\ \/ client.pc = "name"   /\ Send(<<Header("login1", "-")>>) /\ ClientGoto("salt")
     \/ client.pc = "passwd" /\ Send(<<Header("login2", "-")>>) /\ ClientGoto("ok")
  /\ UNCHANGED <<toClient, server, fetched, outOfStep, commands, errors, notOpened>>

\* The salt is read ...
LoginSalt ==
  /\ ClientAt("salt") /\ Len(toClient) >= 2 /\ Head(toClient) = <<"resp", TRUE>>
  /\ toClient' = Tail(Tail(toClient))
  /\ ClientGoto("passwd")
  /\ UNCHANGED <<toServer, server, fetched, outOfStep, commands, errors, notOpened>>

\* ... the prompt that follows a successful login is not.
LoginOk ==
  /\ ClientAt("ok") /\ toClient # <<>> /\ Head(toClient) = <<"resp", TRUE>>
  /\ toClient' = Tail(toClient)
  /\ ClientGoto("loop")
  /\ UNCHANGED <<toServer, server, fetched, outOfStep, commands, errors, notOpened>>

LoginRefused ==
  /\ ~outOfStep /\ client.pc \in {"salt", "ok"}
  /\ toClient # <<>> /\ Head(toClient) = <<"resp", FALSE>>
  /\ toClient' = Tail(toClient)
  /\ ClientGoto(IF client.pc = "salt" THEN "name" ELSE "passwd")
  /\ UNCHANGED <<toServer, server, fetched, outOfStep, commands, errors, notOpened>>

\* The main loop.  What is typed comes first, even when there is something to
\* show: the branches are if and else if.
Type(pc, units) ==
  /\ ClientAt("loop") /\ commands < MaxCommands
  /\ Patient => Settled
  /\ Send(units)
  /\ ClientGoto(pc)
  /\ commands' = commands + 1
  /\ UNCHANGED <<toClient, server, fetched, outOfStep, errors, notOpened>>

\* A word that is no command is sent, too.
TypeCommand ==
  \E cmd \in {"pwd", "ls", "cd", "rm", "mkdir", "rmdir", "notcmd"} :
    Type("loop", <<Header(cmd, "-")>>)

\* puts of a file the client does not have, or has.
TypePuts ==
  \/ Type("loop", <<Header("puts", "missing"), <<"flag", -1>>>>)
  \/ Type("putsSize", <<Header("puts", "name"), <<"flag", 1>>, <<"sha", 0>>>>)

\* puts without a name: open fails, as for a file the client does not have.
TypePutsNoName == NoName /\ Type("loop", <<Header("puts", "none"), <<"flag", -1>>>>)

\* gets of a file the server has, or has not, or without a name.
TypeGets ==
  \E arg \in {"name", "missing"} \cup (IF NoName THEN {"none"} ELSE {}) :
    Type("getsFlag", <<Header("gets", arg)>>)

\* Some of what has arrived is shown.
Show ==
  /\ ClientAt("loop")
  /\ \E k \in 1..Len(toClient) : toClient' = SubSeq(toClient, k + 1, Len(toClient))
  /\ UNCHANGED <<toServer, client, server, fetched, outOfStep, commands, errors, notOpened>>

\* Mutant of PutsSend: the size the server has is not subtracted.
PutsSendAll ==
  /\ ClientAt("putsSize") /\ ClientTakes("size")
  /\ Send(<<<<"len", Size>>>> \o Units("data", Size))
  /\ ClientGoto("loop")
  /\ UNCHANGED <<server, fetched, commands, errors, notOpened>>

\* putsCommand: the size the server has, then what is missing.
PutsSend ==
  /\ ClientAt("putsSize") /\ ClientTakes("size")
  /\ LET len == IF outOfStep' THEN 0 ELSE Size - Taken IN
       Send(<<<<"len", len>>>> \o Units("data", len))
  /\ ClientGoto("loop")
  /\ UNCHANGED <<server, fetched, commands, errors, notOpened>>

\* getsCommand: whether the file is there, the size the client has, the length
\* of the rest, the rest; the length is -1 when the server could not open it.
GetsFlag ==
  /\ ClientAt("getsFlag") /\ ClientTakes("flag")
  /\ IF outOfStep' \/ Taken = -1
     THEN ClientGoto("loop") /\ UNCHANGED toServer
     ELSE ClientGoto("getsLen") /\ Send(<<<<"size", fetched>>>>)
  /\ UNCHANGED <<server, fetched, commands, errors, notOpened>>

\* The file is there, but the client cannot open its own: back to the prompt, without a
\* word to the server.
GetsNotOpened ==
  /\ ClientAt("getsFlag") /\ ClientTakes("flag") /\ ~outOfStep' /\ Taken # -1
  /\ ClientGoto("loop")
  /\ notOpened' = TRUE
  /\ UNCHANGED <<toServer, server, fetched, commands, errors>>

GetsLen ==
  /\ ClientAt("getsLen") /\ ClientTakes("len")
  /\ client' = IF outOfStep' \/ Taken <= 0 THEN [pc |-> "loop", left |-> 0]
               ELSE [pc |-> "getsData", left |-> Taken]
  /\ UNCHANGED <<toServer, server, fetched, commands, errors, notOpened>>

GetsData ==
  /\ ClientAt("getsData") /\ ClientTakes("data")
  /\ fetched' = fetched + 1
  /\ client' = IF client.left = 1 THEN [pc |-> "loop", left |-> 0]
               ELSE [client EXCEPT !.left = @ - 1]
  /\ UNCHANGED <<toServer, server, commands, errors, notOpened>>

\* What the client does by itself, and what it does when something is typed.
ProgramStep ==
  \/ LoginSalt \/ LoginOk \/ LoginRefused
  \/ Show \/ PutsSend \/ GetsFlag \/ GetsNotOpened \/ GetsLen \/ GetsData

UserStep == LoginSend \/ TypeCommand \/ TypePuts \/ TypePutsNoName \/ TypeGets

-------------------------------------------------------------------------------
(* The server *)

\* handleMessage leaves these to a worker, when they have a content.
Transfers == { ServerType["puts"], ServerType["gets"] }

\* Mutant of HandleMessage: the connection stays in the epoll set.
HandleMessagePolled ==
  /\ ~outOfStep /\ polled /\ toServer # <<>>
  /\ toServer' = Tail(toServer)
  /\ LET kind == Head(toServer)[1]
         cmd  == Head(toServer)[2]
     IN  \/ /\ kind = "header"
            /\ queue' = Append(queue, cmd)
            /\ UNCHANGED <<polled, outOfStep>>
         \/ /\ kind # "header"
            /\ outOfStep' = TRUE
            /\ UNCHANGED <<polled, queue>>
  /\ UNCHANGED <<toClient, client, worker, stored, fetched, commands, errors, notOpened>>

\* handleMessage: a transfer with a name takes the connection out of the epoll
\* set.  What comes for the worker of a puts without one is read as a length and a type:
\* out of step.
HandleMessage ==
  /\ ~outOfStep /\ polled /\ toServer # <<>>
  /\ toServer' = Tail(toServer)
  /\ LET kind == Head(toServer)[1]
         cmd  == Head(toServer)[2]
     IN  \/ /\ kind = "header"
            /\ queue' = Append(queue, cmd)
            /\ polled' = (cmd.type \notin Transfers \/ cmd.arg = "none")
            /\ UNCHANGED outOfStep
         \/ /\ kind # "header"
            /\ outOfStep' = TRUE
            /\ UNCHANGED <<polled, queue>>
  /\ UNCHANGED <<toClient, client, worker, stored, fetched, commands, errors, notOpened>>

\* A worker takes the task at the front of the queue.
Deque(w) ==
  /\ ~outOfStep /\ worker[w] = NoTask /\ queue # <<>>
  /\ worker' = [worker EXCEPT ![w] =
       [task |-> doTask(Head(queue).type), arg |-> Head(queue).arg,
        typed |-> Head(queue).typed, at |-> "start", left |-> 0]]
  /\ queue' = Tail(queue)
  /\ UNCHANGED <<toServer, toClient, client, polled, stored, fetched, outOfStep,
                 commands, errors, notOpened>>

On(w, task, at) == ~outOfStep /\ worker[w].task = task /\ worker[w].at = at
Reply(units) == toClient' = toClient \o units
WorkerGoto(w, label, left) == worker' = [worker EXCEPT ![w].at = label, ![w].left = left]
TaskEnds(w) == worker' = [worker EXCEPT ![w] = NoTask]

\* The worker's next field, as ClientTakes.
WorkerTakes(kind) ==
  /\ toServer # <<>>
  /\ toServer' = Tail(toServer)
  /\ outOfStep' = (Head(toServer)[1] # kind)
Got == Head(toServer)[2]

\* loginCheck1 and loginCheck2; a refusal has no content.
LoginCheck(w) ==
  /\ \E task \in {"login1", "login2"} : On(w, task, "start")
  /\ \/ Reply(<<<<"resp", TRUE>>, <<"text", 0>>>>) /\ UNCHANGED errors
     \/ errors < MaxErrors /\ Reply(<<<<"resp", FALSE>>>>) /\ errors' = errors + 1
  /\ TaskEnds(w)
  /\ UNCHANGED <<toServer, client, polled, queue, stored, fetched, outOfStep, commands,
                 notOpened>>

\* The other commands: one answer, none when pwd's path is empty, one for each name
\* ls has, none from mkdir.
Answer(w) ==
  /\ \E cmd \in {"pwd", "ls", "cd", "rm", "mkdir", "rmdir"} :
       /\ On(w, cmd, "start")
       /\ \E n \in CASE cmd = "ls" -> 0..2 [] cmd = "pwd" -> 0..1
                     [] cmd = "mkdir" -> {0} [] OTHER -> {1} :
            Reply(Units("text", n))
  /\ TaskEnds(w)
  /\ UNCHANGED <<toServer, client, polled, queue, stored, fetched, outOfStep,
                 commands, errors, notOpened>>

\* recvCommand does nothing: a word that is no command has its number.
RecvCommand(w) ==
  /\ On(w, "recv", "start")
  /\ TaskEnds(w)
  /\ UNCHANGED <<toServer, toClient, client, polled, queue, stored, fetched, outOfStep,
                 commands, errors, notOpened>>

\* putsCommand: is there a file; its hash; the size stored is the answer.
PutsFlag(w) ==
  /\ On(w, "puts", "start")
  /\ WorkerTakes("flag")
  /\ IF outOfStep' \/ Got = -1
     THEN TaskEnds(w) /\ polled' = TRUE
     ELSE WorkerGoto(w, "sha", 0) /\ UNCHANGED polled
  /\ UNCHANGED <<toClient, client, queue, stored, fetched, commands, errors, notOpened>>

PutsSha(w) ==
  /\ ~outOfStep /\ worker[w].at = "sha"
  /\ WorkerTakes("sha")
  /\ Reply(<<<<"size", stored>>>>)
  /\ WorkerGoto(w, "len", 0)
  /\ UNCHANGED <<client, polled, queue, stored, fetched, commands, errors, notOpened>>

PutsLen(w) ==
  /\ ~outOfStep /\ worker[w].at = "len"
  /\ WorkerTakes("len")
  /\ IF outOfStep' \/ Got = 0
     THEN TaskEnds(w) /\ polled' = TRUE
     ELSE WorkerGoto(w, "data", Got) /\ UNCHANGED polled
  /\ UNCHANGED <<toClient, client, queue, stored, fetched, commands, errors, notOpened>>

\* One round of the loop that writes what comes.
PutsData(w) ==
  /\ ~outOfStep /\ worker[w].at = "data"
  /\ WorkerTakes("data")
  /\ stored' = stored + 1
  /\ IF worker[w].left = 1
     THEN TaskEnds(w) /\ polled' = TRUE
     ELSE WorkerGoto(w, "data", worker[w].left - 1) /\ UNCHANGED polled
  /\ UNCHANGED <<toClient, client, queue, fetched, commands, errors, notOpened>>

\* Mutant of GetsMissing: the file is looked for until it is there.
GetsMissingAgain(w) ==
  On(w, "gets", "start") /\ worker[w].arg # "name" /\ UNCHANGED vars

\* getsCommand: no such file.
GetsMissing(w) ==
  /\ On(w, "gets", "start") /\ worker[w].arg # "name"
  /\ Reply(<<<<"flag", -1>>>>)
  /\ TaskEnds(w) /\ polled' = TRUE
  /\ UNCHANGED <<toServer, client, queue, stored, fetched, outOfStep, commands, errors,
                 notOpened>>

GetsFound(w) ==
  /\ On(w, "gets", "start") /\ worker[w].arg = "name"
  /\ Reply(<<<<"flag", 0>>>>)
  /\ WorkerGoto(w, "offset", 0)
  /\ UNCHANGED <<toServer, client, polled, queue, stored, fetched, outOfStep,
                 commands, errors, notOpened>>

\* Mutant of GetsSend: the size the client has is not subtracted.
GetsSendAll(w) ==
  /\ ~outOfStep /\ worker[w].at = "offset"
  /\ WorkerTakes("size")
  /\ Reply(<<<<"len", Size>>>> \o Units("data", Size))
  /\ TaskEnds(w) /\ polled' = TRUE
  /\ UNCHANGED <<client, queue, stored, fetched, commands, errors, notOpened>>

\* The size the client has comes in; the rest goes out.
GetsSend(w) ==
  /\ ~outOfStep /\ worker[w].at = "offset"
  /\ WorkerTakes("size")
  /\ LET len == IF outOfStep' THEN 0 ELSE Size - Got IN
       Reply(<<<<"len", len>>>> \o Units("data", len))
  /\ TaskEnds(w) /\ polled' = TRUE
  /\ UNCHANGED <<client, queue, stored, fetched, commands, errors, notOpened>>

\* The server cannot open the file: the length is -1.
GetsOpenFails(w) ==
  /\ ~outOfStep /\ worker[w].at = "offset"
  /\ WorkerTakes("size")
  /\ Reply(<<<<"len", -1>>>>)
  /\ TaskEnds(w) /\ polled' = TRUE
  /\ UNCHANGED <<client, queue, stored, fetched, commands, errors, notOpened>>

WorkerStep(w) ==
  \/ Deque(w) \/ LoginCheck(w) \/ Answer(w) \/ RecvCommand(w)
  \/ PutsFlag(w) \/ PutsSha(w) \/ PutsLen(w) \/ PutsData(w)
  \/ GetsMissing(w) \/ GetsFound(w) \/ GetsSend(w)
  \/ GetsOpenFails(w)

-------------------------------------------------------------------------------
Done ==
  /\ \/ outOfStep
     \/ client.pc = "loop" /\ commands = MaxCommands /\ Settled
  /\ UNCHANGED vars

Next == ProgramStep \/ UserStep \/ HandleMessage \/ (\E w \in Workers : WorkerStep(w)) \/ Done

Spec == Init /\ [][Next]_vars

\* Each thread of either side goes on when it can; the user types when he likes, or not.
FairSpec ==
  /\ Spec
  /\ WF_vars(ProgramStep) /\ WF_vars(HandleMessage)
  /\ \A w \in Workers : WF_vars(WorkerStep(w))

-------------------------------------------------------------------------------
(* Correctness *)

Tasks ==
  [task : DOMAIN ServerType \cup {"none"}, arg : {"-", "name", "missing", "none"},
   typed : DOMAIN ClientType \cup {"none"},
   at : {"idle", "start", "sha", "len", "data", "offset"}, left : 0..Size]

TypeOK ==
  /\ client \in [pc : {"name", "salt", "passwd", "ok", "loop", "putsSize",
                       "getsFlag", "getsLen", "getsData"}, left : 0..Size]
  /\ worker \in [Workers -> Tasks]
  /\ stored \in 0..Size /\ fetched \in 0..Size
  /\ polled \in BOOLEAN /\ outOfStep \in BOOLEAN
  /\ commands \in 0..MaxCommands /\ errors \in 0..MaxErrors
  /\ notOpened \in BOOLEAN

\* client/puts.c:35 "wait for the size that the peer sends", client/gets.c:17
\* "first receive the check": what a side reads as a field is that field.  It
\* holds for a user who lets each command finish; typed ahead, the prompt of the
\* login or the reply of an earlier command is taken for the field.
InStep == ~outOfStep

\* When the two sides have finished a transfer, and at every moment before, what
\* has arrived and what is under way make up the file, no more and no less: a
\* transfer that was cut off before is resumed at the right place.
Coming(stream) == Cardinality({ i \in DOMAIN stream : stream[i][1] = "data" })
PutsWhole ==
  (\E w \in Workers : worker[w].at = "data") => stored + Coming(toServer) = Size
GetsWhole == client.pc = "getsData" => fetched + Coming(toClient) = Size

\* Together, for both directions.
TransfersWhole == TypeOK /\ PutsWhole /\ GetsWhole

\* The reactor polls a connection whose transfer a worker runs only when the transfer was
\* typed without a file name (bussiness.c:75-77 comes under "length > 0"), and then only
\* until the worker has its first field: for a named one it polls it before and after, never
\* in between.  What the two readers of a nameless puts do to each other is in Understood.
OneReader ==
  \A w \in Workers :
    worker[w].task \in {"puts", "gets"} /\ polled
      => worker[w].arg = "none" /\ worker[w].at = "start"

\* The two enumerations are kept by hand in two files: what a user types is what
\* doTask calls, except for a word that is no command.
CallsTyped ==
  \A w \in Workers : worker[w].typed \in {worker[w].task, "notcmd"}

\* The places of one command at a time: what is under way, who works on it and what the
\* client waits for.
Free == queue = <<>> /\ \A w \in Workers : worker[w] = NoTask

Task(typed, arg, at, left) ==
  [task |-> doTask(ClientType[typed]), arg |-> arg, typed |-> typed, at |-> at, left |-> left]

RunBy(w, task) ==
  queue = <<>> /\ worker[w] = task /\ \A v \in Workers \ {w} : worker[v] = NoTask

\* What a message has behind its header, and what its sender waits for then.
Rest(typed, arg) ==
  CASE typed = "puts" /\ arg = "name" -> <<<<"flag", 1>>, <<"sha", 0>>>>
    [] typed = "puts" /\ arg # "name" -> <<<<"flag", -1>>>>
    [] OTHER -> <<>>

Awaits(typed, arg) ==
  CASE typed = "login1" -> "salt"
    [] typed = "login2" -> "ok"
    [] typed = "puts" /\ arg = "name" -> "putsSize"
    [] typed = "gets" -> "getsFlag"
    [] OTHER -> "loop"

ReadByWorker(typed, arg) == typed \in {"puts", "gets"} /\ arg # "none"

Idle ==
  /\ Free /\ polled /\ toServer = <<>>
  /\ client.pc = "loop" \/ (client.pc \in {"name", "passwd"} /\ toClient = <<>>)

Asked(typed, arg) ==
  /\ Free /\ polled /\ toClient = <<>> /\ client.pc = Awaits(typed, arg)
  /\ toServer # <<>> /\ Head(toServer) = Header(typed, arg) /\ Tail(toServer) = Rest(typed, arg)

Received(typed, arg) ==
  /\ toClient = <<>> /\ client.pc = Awaits(typed, arg)
  /\ polled = ~ReadByWorker(typed, arg)
  /\ toServer = Rest(typed, arg) \/ (~ReadByWorker(typed, arg) /\ toServer = <<>>)

Queued(typed, arg) ==
  queue = <<Header(typed, arg)[2]>> /\ \A w \in Workers : worker[w] = NoTask

LoginAnswered ==
  /\ Free /\ polled /\ toServer = <<>> /\ client.pc \in {"salt", "ok"}
  /\ toClient = <<<<"resp", TRUE>>, <<"text", 0>>>> \/ toClient = <<<<"resp", FALSE>>>>

\* s is n units of data.
IsData(s, n) == s \in [1..n -> {"data"} \X (1..Size)]

PutsAgreed(w) ==
  \/ /\ RunBy(w, Task("puts", "name", "sha", 0)) /\ client.pc = "putsSize"
     /\ toServer = <<<<"sha", 0>>>> /\ toClient = <<>>
  \/ /\ RunBy(w, Task("puts", "name", "len", 0)) /\ client.pc = "putsSize"
     /\ toServer = <<>> /\ toClient = <<<<"size", stored>>>>
  \/ /\ RunBy(w, Task("puts", "name", "len", 0)) /\ client.pc = "loop"
     /\ toServer # <<>> /\ Head(toServer) = <<"len", Size - stored>>
     /\ IsData(Tail(toServer), Size - stored) /\ toClient = <<>>
  \/ /\ stored < Size /\ RunBy(w, Task("puts", "name", "data", Size - stored))
     /\ client.pc = "loop" /\ IsData(toServer, Size - stored) /\ toClient = <<>>

GetsAgreed(w) ==
  /\ RunBy(w, Task("gets", "name", "offset", 0))
  /\ \/ client.pc = "getsFlag" /\ toServer = <<>> /\ toClient = <<<<"flag", 0>>>>
     \/ client.pc = "getsLen" /\ toServer = <<<<"size", fetched>>>> /\ toClient = <<>>

GetsAnswered ==
  /\ Free /\ polled /\ toServer = <<>>
  /\ \/ client.pc = "getsFlag" /\ toClient = <<<<"flag", -1>>>>
     \/ client.pc = "getsLen" /\ toClient = <<<<"len", -1>>>>
     \/ /\ client.pc = "getsLen" /\ toClient # <<>> /\ Head(toClient) = <<"len", Size - fetched>>
        /\ IsData(Tail(toClient), Size - fetched)
     \/ /\ client.pc = "getsData" /\ fetched < Size /\ client.left = Size - fetched
        /\ IsData(toClient, Size - fetched)

Typed ==
  ({"pwd", "ls", "cd", "rm", "mkdir", "rmdir", "notcmd", "login1", "login2"} \X {"-"})
    \cup ({"puts", "gets"} \X {"name", "missing", "none"})

\* With a patient user the two sides are always at one of these places ...
InDialogue ==
  \/ Idle \/ LoginAnswered \/ GetsAnswered
  \/ ~polled /\ \E w \in Workers : PutsAgreed(w) \/ GetsAgreed(w)
  \/ \E m \in Typed :
       \/ Asked(m[1], m[2])
       \/ /\ Received(m[1], m[2])
          /\ \/ Queued(m[1], m[2])
             \/ \E w \in Workers : RunBy(w, Task(m[1], m[2], "start", 0))

\* ... or the client has given up a gets: the worker waits for the size; the header of the next
\* command may be on its way.
Abandoned(w) ==
  /\ ~polled /\ toClient = <<>>
  /\ RunBy(w, Task("gets", "name", "offset", 0))
  /\ client.pc \in {"loop", "putsSize", "getsFlag"}
  /\ \/ toServer = <<>> /\ client.pc = "loop"
     \/ toServer # <<>> /\ Head(toServer)[1] = "header"

\* A puts without a name is under way.
Nameless ==
  \/ \E i \in DOMAIN queue : doTask(queue[i].type) = "puts" /\ queue[i].arg = "none"
  \/ \E w \in Workers : worker[w].task = "puts" /\ worker[w].arg = "none"

\* Together: each end understands what the other one says.  With a patient user they get out
\* of step in two ways only: the reactor reads the flag of a puts without a name, or the
\* worker reads the next command as the size of a gets that the client gave up.
Understood ==
  /\ CallsTyped
  /\ Patient => CASE outOfStep -> Nameless \/ notOpened
                  [] ~outOfStep /\ notOpened -> \E w \in Workers : Abandoned(w)
                  [] OTHER -> InDialogue

\* client.h:15 and thread_pool.h:69 "not a command": such a word is answered by
\* notCommand.
CallsNotCommand ==
  \A w \in Workers : worker[w].typed = "notcmd" => worker[w].task = "notcmd"

\* Whatever the client waits for from the server comes, while the ends are in step: it can
\* be typed to again.  No step of the user is needed for it.
Waiting == {"salt", "ok", "putsSize", "getsFlag", "getsLen", "getsData"}
Returns == client.pc \in Waiting ~> client.pc \notin Waiting \/ outOfStep

\* puts.c:25 "first check whether the peer's file exists": the check that a worker is to
\* read is left to it.
PutsChecked ==
  \A w \in Workers : worker[w].task = "puts" /\ worker[w].at = "start" => ~outOfStep
===============================================================================
