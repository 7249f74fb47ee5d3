# CloudiskServer in TLA+

Specifications of the cloud disk server and its client (`src/server`, `src/client`): modules
that TLC checks on small instances, and proofs that TLAPS checks for every value of the
constants. Every definition is translated from the C source; `PROJECT.json` maps it to the lines.

## 1. The system

The server forks: the parent only writes to a pipe when SIGUSR1 comes, the child is the server.
Its **reactor** thread (`main.c`) waits in `epoll_wait` for at most a second, accepts
connections, reads commands (`handleMessage`) and ticks a **time wheel** that closes silent
connections. Commands become tasks in a **queue**, which **worker** threads drain; a worker
answers on the connection itself, and for `puts` and `gets` reads it alone while the reactor
has it out of its epoll set. Files are stored under the hash of their content; MySQL has the
tables `user`, `globalFile` (one row per content and upload) and `virtualFile` (the directory
tree of every user). The **client** is a `select` loop over the terminal and the connection.

| Component | State | Operations | What makes it correct | Module |
|---|---|---|---|---|
| task queue, thread pool (`task_queue.c`, `thread_pool.c`, exit branch of `main.c`) | list, counter, exit flag, mutex, condition variable | enqueue, dequeue, execute, free, stop | FIFO, one owner per task, no lost wakeup, everything done before exit, the stop ends | `TaskQueue` ⇒ `TaskPool` |
| time wheel (`timeWheel.c`) | 60 circular lists, hash table descriptor → slot, index | add, refresh, remove, tick | silent connections closed, and only those | `TimeWheel`, in `Reactor` ⇒ `Timers` |
| reactor (`main.c`, `bussiness.c`, `server.c`, `linked_list.c`) | epoll set, user list, descriptors | accept, command, transfer, hang-up, tick | a descriptor means the same connection to everybody who holds its number | `Reactor` |
| file store (`puts.c`, `gets.c`, `rm.c`, `dataTransfer.c`, `db_opration.c`) | `globalFile`, `virtualFile`, files on disk | upload, resumed and instant upload, download, removal | what is listed is stored, links are counted | `FileStore` |
| directory tree (`cd.c`, `mkdir.c`, `rmdir.c`, `db_opration.c`) | `virtualFile`, `user.fileId` | cd, mkdir, rmdir, row of an upload | a tree per user, no row out of reach | `DirTree`, `Paths` |
| path resolution (`path_handler.c`) | ring queue, stack, strtok's static place | split and resolve an argument | the right path for every argument | `PathResolver` ⇒ `Paths` |
| user list and logins (`linked_list.c`, `user.c`, `bussiness.c`, `dataTransfer.c`) | nodes, names, encrypted passwords, getspnam's buffer | append, delete, walk, both steps of a login | a walk meets live nodes only, everybody is served in his own name | `Users` |
| database connections (`mysql.c`, `dbPool.c`, `dataTransfer.c`, `ls.c`, `mkdir.c`, `SLogger.c`) | pool, shared connection, own connections, pending results | open, query, store, close | each worker reads the answer to its own query | `DbConnections` |
| bytes of a file (`puts.c`, `gets.c` of both programs, `server.c`) | file, stream, what is stored | send, receive, splice, faults | the file arrives whole and the connection is left at its next message | `Transfer` |
| processes (`main.c`, `thread_pool.c`) | parent, child, exit pipe | start, signal, stop, crash | a signal ends both processes, in order | `Processes` |
| configuration (`hashtable.c`, `config.c`) | open-addressing table | insert, find, erase | find returns what was given last | `ConfigTable` |
| protocol (`client/*.c` with `bussiness.c`, `user.c`, `puts.c`, `gets.c`) | two byte streams, both ends' places | login, commands, hand-shakes | both ends read what the other one meant, transfers complete | `Session` |

Interactions: the reactor hands tasks to workers through the queue; reactor and workers share
the descriptor numbers, the user list and the connection; workers share the tables and the
files; the two ends of a connection share its streams. What is hard is listed line by line
under "hazards" in `PROJECT.json`: numbers the kernel gives out again while stale entries name
them, statements of two workers without a transaction, wakeups, a stop that races a wait,
half-finished uploads, and unframed replies.

## 2. The modules and the code

**TaskQueue.** One action is one step between two points where another thread may run: a
mutex or condition-variable call, or an access made without the mutex. `Request`, `EnqueLock`,
`EnqueLink`, `EnqueUnlock`, `EnqueSignal` are `handleMessage` and `taskEnque`; `DequeLock` ..
`DequeUnlock`, `DoTask`, `FreeTask` are `threadFunc` with `taskDeque` inlined; `ExitRequest`,
`StopPoll`, `ClearFlag`, `Broadcast`, `Join` are the exit branch, `threadpoolStop` and
`broadcastALL`. The list has its pointers *and* its counter, since the code tests one and
follows the other. `submitted`, `taken` and `done` are history.

**TaskPool** is the promise: a set of workers serves a FIFO queue; once closed it takes nothing
in, and it exits when idle.

**TimeWheel** has the wheel's functions as operators on a record; **Reactor** gives them a
variable and their callers. Descriptors are numbers that the model of the kernel gives out
lowest first, so that a number changes its meaning; a connection's identity is a counter only
the properties look at. A transfer takes a number for its file; beside that, a worker opens and closes
up to `MaxOpens` numbers for itself (`OpenOwn`, `CloseOwn`): the configuration file and the database
connection of `ls` and `mkdir`, the pipe of a large transfer, the password file of a login. All of them
come from the connections' pool. A transfer polls its connection again before it closes the file (`puts`)
or after it (`gets`), or without ever opening one (`GiveUp`); one without a name is never taken
out of epoll (`StrayTransfer`). The loop of `tick` is one action per iteration, since workers run
between its `close` calls. Where the loop reads a node it has freed, the model allows what the
build can do: the node's `next` is still NULL, or the process dies. **Timers** is the promise: one
countdown per connection, started by accept, started again by a command with a content, brought
down by a tick, and closed when it is over. `Reactor` keeps it until the first hang-up or
transfer and as long as workers hold few numbers (`ImplementsTimers`; section 4 has what happens then).

**FileStore** has one action per SQL statement or per received chunk. A content has `Size`
chunks; a file on disk is the sequence of chunks written. **DirTree** is the same for
directories; the recursion of `rmdir_command` is a stack of unread result rows. In both, a statement may be
refused, which most callers do not look at: another worker's result is still unread on the shared connection
(`StatementRefused`, `SelectRefused`, `CommandRefused`; `MaxRefused` bounds how often). A statement that is
not refused has its own result there, which is right until the moment `DbConnections` gives
(`OwnUnlessForced`). **Paths** is
what path arguments mean; **PathResolver** is what computes it: strtok, the ring queue, the stack
and the loop. Queue and stack are the worker's own, the place strtok has reached is one static
variable of the process. A call of strtok is two steps (it loads the place; it returns a name and
stores the new place), and places in a copy that has been freed lead to the state `undefined`.

**ConfigTable** takes one action per probe of the table.

**Session** has both ends of one connection: a stream is a sequence of fields, a read takes the
next one whatever it was meant as, and `outOfStep` records that it was meant as something else.
A field is the unit, so a reader that takes part of one is not modelled. Either end may fail to open its
file: `GetsOpenFails` (the server sends -1 for the length and is done) and `GetsNotOpened` (the client
returns to its prompt and sends nothing, while the worker waits for the size; `notOpened` records it).
The worker of a `puts` without a name reads a connection that the reactor still polls, and either may have the next field.

Each end has its own numbering of the commands (`ClientType`, `ServerType`); `doTask` is what the
server makes of a number.

**Users** has the list's nodes with their `next`, the reactor's deletion in three steps (find, unlink,
free) and the workers' walks of one node per step. Descriptors are given out again, lowest first;
`hasty`, `overlapped` and `cut` are history: a connection closed with its task still waiting, two
logins inside `getspnam`, a walk that stood on the unlinked node.

**DbConnections** has each command as its sequence of statements (`PwdFlow` .. `MkdirFlow`), and a SELECT
as two steps, `QueryRun` or `QueryRefused` and `Store`, on the shared connection or on the worker's
own. What the statements do to the tables is in `FileStore` and `DirTree`, where a statement with
its result is one step, or is refused: `DbConnections` shows until when that is right (`OwnUnlessForced`).

**Transfer** has both loops of a transfer, byte by byte, on either side of the threshold beyond which
`splice` moves the bytes. **Processes** has the parent and the child with the workers as counts.

`MC*.tla` give constants that a `.cfg` cannot spell.

## 3. What is checked

One run per component with a state. All pass; each property is violated by at least one mutant of
the modelled code (operators named "Mutant of ..." in the comments, next to what they mutate).

| Run | Bounds | Shows |
|---|---|---|
| `TaskQueue` | 2 workers, 3 tasks | list shape, FIFO, ownership, wakeups, order of the stop; the inductive invariant; every request is served; a stop completes unless the broadcast meets a worker between its test and its wait; `TaskQueue` implements `TaskPool` |
| `Reactor` | 3 descriptors, 3 connections, 1 message, 2 hang-ups, 2 transfers, 1 number of a worker's own, wheel of 3 slots, timeout 1, table of 2 buckets | each open connection is timed and closed within its timeout, its node is the last of its number, the count is exact; no slot names a number twice until `tick` closes one that a worker holds; no bucket mixes descriptors as long as workers hold few numbers; a transfer has its connection and file, and a worker its own numbers, for itself until `tick` closes one or a client sends a second transfer while one without a name reads; the wheel implements `Timers` until a client hangs up or asks for a transfer |
| `FileStore` | 2 workers, 2 paths, 2 contents of 2 chunks, 3 commands, 1 `rm` at a time, 1 hang-up, 1 reset, 1 crash, 1 refused statement | what is listed is stored and downloads complete the file, until a reset; links fall below the paths by at most one per refused statement, until a crash; the inductive invariant |
| `DirTree` | 2 sessions, 4 commands, 1 crash, 1 refused statement | working directory and rows stay the user's own; no more removed directories leave rows behind than statements were refused, while commands do not overlap |
| `PathResolver` | 9 operations on a ring of 2; arguments of up to 4 names in one worker; 2 workers with short ones | the ring is a FIFO; splitting and loop compute `Paths!get_whole_path` and read no freed copy unless two workers split at once, whatever place was left by others before; every split ends |
| `ConfigTable` | 5 operations, 4 keys, 3 of them in the last of 5 slots | find is right while keys differ; size is exact |
| `Session` | 2 workers, 5 commands, 2 units, 1 refusal, any offsets, names missing, opens failing | the server runs what was typed and both ends stay in step, but for two ways out of it: the reactor takes the flag of a `puts` without a name, or the client cannot open the file of a `gets`; transfers complete; once a worker has had its first field the reactor leaves its connection alone; the client gets every answer it waits for, or the two are out of step |
| `Users` | 2 workers, 2 descriptors, 3 connections, 4 tasks, 1 hang-up, 1 timeout, 2 names | only a walk that stands on the unlinked first node can meet freed memory; a login is dropped only with its connection; who knows his password is let in and served in his name, until a number is given out under a task or after a timeout |
| `DbConnections` | 2 workers, 4 commands of 9 kinds, a pool of 2, 4 connections | a pending result is awaited by the worker that asked; nobody reads another's until `get_curPath` or `exit_file` goes on after a refusal; a row is changed by who looked it up; no connection is lost |
| `Transfer` | lengths up to 7, buffer 2, block 3, threshold 4, int up to 7, 2 faults | what is stored is a prefix; less than a block too much behind a big file; whole when `recvfile` returns; behind a file that is not big, and without faults, the next message is left whole; both loops end |
| `Processes` | 2 workers, 3 messages, 2 signals, 1 crash | exit in order; a signal ends both processes or one of four named obstacles stays; the parent follows the child |

Some properties are qualified by a history variable that the code does not have (`started`, `hangups`,
`peak`, `resets`, `crashes`, `refused`, `overlapped`, `distinct`, `cut`, `hasty`, `forced`, `faults`,
`notOpened`, `outOfStep`): they say up to when the promise holds, or by how much it is missed.
What breaks it afterwards is in section 4.

Most configurations name conjunctions whose parts are stated and commented one by one in the
modules: `IInv`, `WheelInv`, `OwnRows`, `RingInv`, `ResolvesAlone`, `TableInv`, `TransfersWhole`,
`Understood`, `ListInv`, `ServedAsHimself`, `ConnsInv`, `ReadsOwn`, `StoredInv`, `ProcessInv`. The
type invariant of a module is a part of one of them, and so are the parts that make them inductive
(section 5), so that TLC checks those, too. The twelfth run, `TaskQueue_shutdown`, expects
its violation (section 4).

Why the bounds suffice: two workers and the reactor already meet in every pair of places of the
queue, and one can overtake the other that was signalled; three tasks make a list with a middle. A
wheel of 3 slots with a timeout of 1 wraps around within the bounds and lets a descriptor be
closed, given out and refreshed while an old entry is due; with three connections and one number of a
worker's own, `tick` takes a number from the worker and the worker takes it from its next owner
(`SlotsAlwaysDistinct` fails within the bounds). `peak`, the most numbers that workers have held at once, may be a
quarter of the table's first size: 32 in the code, none with a table of 2, so that there TLC checks `FirstNodeIsOwn`
and `ImplementsTimers` for connections only, and the theorems the rest. Two uploads, two chunks and a third
command give every order of statements of two commands, with a removal or a fetch in between.
The table of 2 buckets, the ring of 2 places and the 5 slots force growth and wrap-around, which
the real sizes (128, `INITIAL_CAPACITY`, `MAX_SIZE`) would hide. (`enqueuePath` fills a fresh queue
before anything is taken out, so that the ring's growth while wrapped comes only with the free operations
of `PathResolver`, which use its functions in any order.) In `Users` two descriptors and three
connections make a number mean two clients while a task or a walk of the first is pending. In
`Transfer` the lengths 1 to 7 lie on both sides of buffer, block, threshold and int limit, whole
multiples included. No run uses a constraint; `Users`, all of whose
properties are invariants, uses the symmetry of workers and of names. Deadlock is checked in all of them but
`Processes`, where both processes end, or the server waits for ever for a client.

**Fairness.** `TaskQueue`: each thread is scheduled when it can run (WF), and a thread that asks
again and again for a mutex that is released gets it (SF); no fairness for requests, the exit
request and spurious wakeups. `Reactor`: WF of the reactor, whose only wait has a timeout of one
second; none for clients and workers (only `Reactor_unlist` needs it). `Session`: WF
for each step of the client's and server's programs (`ProgramStep`), none for what the user types, the login included.
`PathResolver`: WF of each worker, which never blocks there; none for the queue's operations.
`Transfer`: WF of both ends; a call that blocks is a step that is not enabled; none for the faults.
`Processes`: WF for each step of the server and the parent, and SF for `ExitRequest`: `epoll_wait`
reports the pipe together with the clients' events, and the loop handles all of them; none for
clients, signals and crashes.

## 4. Where the code does not do what it says

The run `TaskQueue_shutdown` checks one statement of a comment and finds it violated; the quote is
under "findings" in `PROJECT.json`: the flag and the broadcast come without the mutex, so that a worker
between its test and its wait sleeps for ever and `pthread_join` never returns. `StopCompletes` says
that this is the only way.

Further configurations, each of which gives a counterexample to one property of its module when
TLC is run on it by hand (`tlc -config X.cfg M`, where `M` is the module, `MCDirTree`,
`MCPathResolver` or `MCConfigTable`). Where a row says "with", it is that configuration with its
property exchanged for the row's:

| Configuration | Property | What happens |
|---|---|---|
| `TaskQueue_broadcast` | `BroadcastAfterDone` | "all tasks executed" (`thread_pool.c:55`) is tested as "queue empty" |
| `Reactor_freed` | `VisitsLive` | with two users in a slot, `tick` goes on from a freed node |
| `Reactor_early` | `NoEarlyClose` | a hang-up leaves its entry in the wheel, which closes the number's next connection early |
| with `Reactor_early`, `MaxHangups = 0` and `MaxTransfers = 1` | `NoEarlyClose` | the number of a transfer's file leaves a gap, a bucket mixes two connections, and a command of one moves it by the slot of the other: its old node closes it early; so does a number of a worker's own (`MaxOpens = 1` and `MaxTransfers = 0`). With the code's table of 128 that takes more than 32 of them at once |
| `Reactor_unlist` | `DeletesUser` | `deleteNode2` never returns for any user but the first |
| `Reactor_accept` | `AcceptsConnection` | with every descriptor in use -1 is taken for a connection |
| `Reactor_alone`, also with `FileIsOwn` | `TransferAlone`, `FileIsOwn` | the wheel closes a number during a transfer: the reactor polls it for a new connection, or the file is closed |
| with `Reactor` | `SlotsAlwaysDistinct` | after `tick` has closed a number of a worker's own by a stale entry, the worker's close (`mysql_close` of `ls`) ends the connection that got the number; the next one is listed a second time in its slot |
| with `Reactor_freed` | `FoundIsSender` | `findUser` returns a former connection's node |
| `FileStore_ends` | `EndsNormally` | a receive error ends an upload as success does |
| `FileStore_exact` | `LinkCountExact` | an upload to a path that is taken counts a link that no row has |
| `FileStore_timed` | `TimedIsUnlinked` | count read and time written in two statements |
| `FileStore_instant` | `InstantLists` | the INSERT of `add_virtual` fails and nobody looks: an instant upload that lists nothing |
| `DirTree_orphans` | `AllReachable` | `rmdir` beside another session leaves rows out of reach |
| `DirTree_cwd` | `CwdExists` | `rmdir` of the working directory |
| with `DirTree_cwd` | `BadPathIsReported` | too many `..`: the NULL is reported and used |
| `ConfigTable_repeat` | `FindsLast` | `insert` never compares the key's own slot |
| `Session_ahead` | `InStep`, for an impatient user | the login's prompt is not read and is taken for the first field of a transfer |
| `Session_noname` | `PutsChecked` | `puts` without a name leaves the connection polled (`bussiness.c:76`): the reactor takes the flag that its worker waits for |
| `Session_notcmd` | `CallsNotCommand` | the client's number for an unknown word is the server's of `recv` |
| with `Users_name` | `OwnEncrypted` | two logins share `getspnam`'s static buffer: one user gets the other's password |
| `Users_name` | `InOwnName` | after a timeout the number's next client logs in on the old node and is served in the name of the new one, which is empty |
| `DbConnections_path` | `CurPathIsOwn` | `get_curPath` goes on after a refused query and reads another worker's row |
| `Transfer_recvn`, also with `StoresOnlyFile` | `StoresOnlyFile`, `RecvnFills` | `splice` takes the message behind a big file; `recvn` returns with less at the end of the connection |
| `PathResolver_own` | `SplitsOwn` | two workers that split at once take each other's names |
| with `Processes` (instead of all of its properties) | `StopNoticed` | a client that has sent a part of a header keeps the reactor from the exit pipe |

## 5. What is proved

Every theorem is for all values of the constants: any number of workers, tasks, connections,
faults, any sizes. What is listed under "theorems" in `PROJECT.json` is safety; each rests on an
inductive invariant, with a lemma for the initial states, one per action, and PTL. The invariants
that stand in the modules are part of the runs; what a proof adds to them (`Served`, `TreeInv`,
`CoverInv`, `ConfigInv`, `QueuesInv`, `LinkInv`, `TimedInv`, `WindowInv`, `CountdownInv`) stands in its own module, next to its lemmas.

**TaskQueueProofs**: type correctness, `FifoOrder` and
`QueueShape`, `ExclusiveTask`, `WokenForReason`, `ClosedOnEmpty`, `NoLostWakeup` and
`DrainBeforeExit`. None is inductive alone. `IInv` adds who holds the mutex at which place
(`MutexInv`), that the reactor's task is not in the queue before it is linked (`ProducerInv`),
that queued tasks are live, different and not done (`QueuedInv`), that whoever holds a task took
it, and every taken task is held or done (`OwnerInv`), and what having seen the cleared flag
says of the queue (`StopInv`). With it, exclusion comes from the mutex, `NoLostWakeup` from the
fact that a worker waits only after it saw an empty queue under the mutex, and
`DrainBeforeExit` from: the flag is cleared on an empty queue, nothing is enqueued afterwards,
and a worker exits holding nothing.

`IsPool` is the refinement without its fairness: the queue's initial states are the pool's, and
each step maps to a step of `TaskPool` or to a stutter. Six steps do something there (link, take,
execute, clear, join's end, and nothing else); that the sequence of what is still queued is a
window of `submitted` between what was taken and what was linked comes from `FifoOrder`.

**FileStoreProofs**, for any workers, paths, contents, sizes, hang-ups, resets and crashes:
type correctness, `ListedIsStored` and `SentIsWhole`. `IInv` says that every file is a prefix of its
content, every path has a row and, until a connection is reset, every row's file is whole, and
(`TaskInv`) what a command knows of its file at each step and stays true because files only grow
and rows are never deleted. `FileStore_ends` shows that a reset breaks the rest.

`LinksCovered` is for `MaxRm <= 1`, the condition the property states. `Links` is the sum of a content's
link counts, written as a number of elements (one per link, less one per link short of 0), so that
lemmas on cardinalities give what a new row, one link more of every row and one link less of one row do to it
(`SumNew`, `SumMore`, `SumLess`). `LinkInv` strengthens the inequality by the uploads that have added
their row and not yet listed its path, and adds what makes every step keep it: the path an `rm`
is to delete is still the row it selected, since no second `rm` is under way (a refused statement of
one leaves at most one link uncounted, and `refused` makes up for it); the row of an
upload is one of its content; an upload that has sent bytes finds a row. An instant upload may find
none: then nothing is listed for the content and there is nothing to cover.

**SessionProofs**: `Understood`, `OneReader` and `TransfersWhole` for a patient user. The inductive
invariant has three parts, one of which holds. `InDialogue` lists the places of one command at a time (nothing
under way, asked, received and queued, started, the four places of a `puts` and the two of a `gets`, answered)
with what is in both streams, which worker is at work and what the client waits for. Of a length that was
announced it says that so many units of the file follow it and that they are what is missing. Every
action is enabled at one or two of these places only and leads to the next, but for two. A `gets` that the client
gives up leads to `GivenUp`: the worker waits for the size (`Abandoned`) while the user types on, until it takes
the next header for it. That, and the reactor that takes the flag of a `puts` without a name, lead to `Stopped`: the
two are out of step for the one or the other reason, and no program takes another step. For an impatient user the
properties are false (`Session_ahead`), which is why the theorems have `ASSUME Patient`.

**ReactorProofs**: `TransferOwnUntilCut` and `CurrentNodeListed`. The argument is the kernel's:
a number that is given out is nobody's, so that accept and open never touch the descriptors that workers
hold for a transfer or on their own, and a close takes away only what its number means; only `tick` closes a
number by an entry that may be stale, which is what `cut` records. It also records a transfer that begins on
a connection whose task without a name is still to read: the first of the two to end polls what the other one uses. The node of a new connection is appended, and
a deletion goes for the first node of its number, so that the last one is the current connection's.

`WheelInv` and `SilentIsClosed` rest on `TimedInv`, which holds next to these (`OwnInv`). A node of an
open connection is at most `Timeout` less its silence slots ahead (`Timed`): an accept or a refresh puts one
`Timeout` slots ahead with no silence, a tick brings every slot one nearer and adds one to every
silence, and a removal in the name of one number takes no node of another. The loop of `tick` visits a list in order, and a
removal takes the first node of its number, at or before the one the loop stands on; a list comes to its end, or to
a freed node, only when all its descriptors are closed (`Visited`). Slots further ahead
than `Timeout` are empty, and the one `Timeout` ahead is filled by one round of the loop, with one event per
descriptor (`Filled`, `Polled`); so no list names a number twice (`Distinct`), until
`tick` closes a number that a worker holds. The count is the number of places of the table (`HashNodes`);
that doubling keeps it is a bijection of the old places and the new. Accepts and messages bound the allocated nodes
(`Room`), so that there is always a fresh one.

`FirstNodeIsOwn` adds `WindowInv`: the numbers in use are connections' or workers', of which there are at most
`peak`, and while four times `peak` is at most the table's first size, a number with a hash node is less than
`hashSize` above the lowest. The kernel gives out the lowest free number, so that the one it gives is at most the
number of open connections and workers' numbers above the lowest. The connections are all in the table,
which doubles as soon as it is three quarters full; the last quarter is for the workers'. Numbers of a window of
`hashSize` have different remainders.

`ImplementsTimers` adds `CountdownInv`: until the first hang-up or transfer, and while `peak` is as small as that, every node is an open connection's
and exactly `Timeout` less its silence slots ahead, so that a connection has one; the hash table has
one node per number in it, for the slot of that list node. With `FirstNodeIsOwn`, `removeUser` finds
these two. `TicksLeft` is then `Timeout + 1` less the silence, and a step starts one countdown, ends one that is due,
brings down all of them with none due, or changes none (`Shows`), which are the steps of `Timers`.

**UsersProofs**: `ListInv` (what a walk of the list meets is live unless the reactor has unlinked
the node it stands on) and `AnswersOpen`. Inductive are: the list's order is the order of the accepts,
the `next` of a live node is the node behind it, and an unlinked node keeps its own (`ListShape`);
every walk stands on a live node or on the one being freed (`WalksOnLive`); every open
connection has a node (`OpenIsListed`) and a walk that looks for it has not passed it
(`WalkReaches`).

`ServedInOwnName` rests on `SInv`, which joins that to the five conditions of `ServedAsHimself`. A
client waits for each answer of its login, so that no two login tasks are his (`TasksOfClients`);
the walk of a login stops at the first node with its descriptor, which is the same node for both
steps until a connection is closed with its task waiting (`LoginsMeet`); while one login at a time
is between `getspnam` and its copy, the salt that is sent and the password that is compared are his
(`OwnSecret`). Of the commands, `get_username` takes the last node of its number: until the wheel has
closed somebody, a node without a connection is the one the reactor is about to delete
(`NodesAreOpen`), so that the last is the client's own (`CommandsMeet`).

**DbConnectionsProofs**: `ConnsInv`, `PendingIsAwaited` and `ReadsOwn`. Each open connection is the
shared one, the pool's or one worker's, so that the number of connections is that of the slots and
of the workers that hold one, which `EnoughConnections` compares with the limit (cardinalities). A
result that is pending has its worker between query and store, and what a worker has read is his
until a refusal lets `get_curPath` or `exit_file` go on.

**TransferProofs**: `StoredInv`, `ReturnsWhole` and `LeavesTheRest`, for every buffer, block,
threshold, length and int limit; the last for a file that is not big, and without faults. On the sender's side the bytes of the stream that are not yet read
are, at their place, the bytes of the file, then of the message (`SentInPlace`), and the count of the
loop is what was sent (`SentCounts`); on the receiver's side what is stored and what is in the buffer or
pipe are at their place (`StoredInPlace`), and count and length give how much is left (`StoredCounts`).
Both hold until the fault that spoils them, which is named in the invariant.

The same module has the proofs of two small ones. `OrderlyEnd` is `ProcessInv` of `Processes`: a server
that stops has been signalled, and one that exits in order leaves no accepted task queued or in
work; `Accounts` says where the tasks and the bytes of the pipe are. `QueueIsFifo` is `RingInv` of
`PathResolver`, for every capacity, all names and any number of workers: the places from `front` on,
modulo the capacity, are the names that were put in and not yet taken out, before and after
`resizeQueue` copies them to a ring of twice the size; an operation of one worker leaves the others'
queues alone (`QueuesInv`).

**TablesProofs**: the rows of `DirTree` and the hash table of `ConfigTable`. `RowsAreOwn` (`OwnRows`)
holds for every interleaving of any number of sessions: neither an id nor a path comes
twice, the root is never deleted, everything below the home is the user's, and whatever directory a
command has read is the user's and stays it, since an id is never used again (`TreeInv`).
`NoRowIsLost` (`NoOrphans`) is about commands that come one after another: every row that has lost its
parent is in what the `rmdir` under way has still to take, the path it is about to delete, the
result it is about to read or a row of its stack, or it is below one of the removed directories whose contents
a refused statement left behind, at most one for each (`Covered` in `CoverInv`). The proof needs nothing about the order
in which a result's rows come, and the code has no ORDER BY. `TableIsRight` (`TableInv`) is for every
size of the table and every hash function: while no key is repeated or erased, a key with a value is found by
going on from its own slot through slots that are all in use (`Found`), the slot that an insert has
reached was reached that way (`Probing`), and one is always free (`Counted`).

Assumptions: the named ASSUMEs of the modules, which TLC evaluates, `Patient` in `SessionProofs`, and
`MaxRm <= 1` in `LinksCovered`. Of the ASSUMEs, that of `Reactor` gives `malloc` a node for every accept and
message (`safe_malloc` ends the process rather than return NULL). `BucketsAreOwn` and `TimersImplemented`
have `Fds = low..high`: the numbers that are free before the first accept have no gap, since the server
has opened its own from the lowest up and closes none of them before the stop.

Only model-checked:
- liveness and everything under fairness (`EveryTaskServed`, `StopCompletes`, `Returns`, `SplitEnds`,
  `Ends`, `StopEnds`, `ParentFollows`), and the fairness of `TaskPool`: the
  provers do neither liveness nor ENABLED;
- what `strtok`'s split and the path loop compute (`ResolvesAlone`), and whatever reaches a RECURSIVE
  operator: the provers cannot do induction over data, since the library's induction theorems take
  an operator as a parameter. What the proofs need of the few recursive functions (`Moved` in
  `TimeWheel`) comes from the least number for which a fact fails.

## 6. What is not modelled

- The computation of hashes (`fileCheck.c`): a content is known by a model value, and different contents
  have different hashes.
- The text of log lines (`SLogger.c`): `DbConnections` has only the INSERT on the shared connection.
- What the answers of `ls` and `pwd` say; `Session` has that they come and `DbConnections` their statements.
- `/etc/shadow` and `crypt`: a name has one encrypted password.
- Code without a caller or a body: `transfer.c`, `sendCommand.c`, `real_del` and other helpers of `rm.c` and
  `db_opration.c`, `release_db_connection`, `execute_*`, `destroyTimeWheel`, `deleteNode`, `printList`,
  `handle_WriteMessage`. The samples under `test/`.
- Seconds: `Reactor` counts ticks, and a busy server ticks faster than once a second. Bytes of local
  buffers and their overflow. A failing `malloc`.
- A header in two parts is in `Processes`, not in `Reactor`; the reactor's loop is one step per message.

## 7. Plan

Written, in this order: TaskQueue and its proofs, the wheel and the reactor, the file store and
its proofs, the directory tree and the paths, the configuration, the session; then the users, the
database connections, the transfer of bytes, the processes, the splitting of paths.

Left to model: the composition of `Reactor` and `TaskQueue`, with tasks of one client overtaking each
other; liveness of the reactor's loop.

Left to prove: what one call of `strtok` returns, as a step towards `ResolvesAlone`.
