-------------------------------- MODULE Reactor --------------------------------
(***************************************************************************)
(* The reactor thread of the server: the epoll loop of server/main.c,      *)
(* handleMessage of server/bussiness.c, the user list of                   *)
(* server/linked_list.c and the time wheel, with the descriptors they      *)
(* share with the workers: those of the connections and files of transfers *)
(* (server/puts.c, gets.c), and those a worker opens and closes on its own *)
(* (the configuration file and the database connection of server/ls.c and  *)
(* mkdir.c, the pipe of a large transfer, the password file of a login).   *)
(*                                                                         *)
(* A descriptor is a number that the kernel gives out again once it is     *)
(* closed, lowest first; a connection is known by the order in which it    *)
(* was accepted.  The code only has the number.                            *)
(*                                                                         *)
(* Bounds: MaxConns, MaxMessages, MaxHangups and MaxTransfers limit what   *)
(* clients do in one behaviour, MaxOpens the numbers workers take on their *)
(* own.  Commands other than puts and gets change nothing else here but    *)
(* the wheel, so their tasks are left to TaskQueue.                        *)
(***************************************************************************)
EXTENDS TimeWheel, FiniteSets

CONSTANTS Fds,           \* the descriptors that are free before the first accept
          Listen,        \* listenfd
          MaxConns, MaxMessages, MaxHangups, MaxTransfers, MaxOpens

ASSUME ReactorAssumption ==
  /\ Fds \subseteq Nat /\ IsFiniteSet(Fds) /\ Listen \notin Fds
  /\ {MaxConns, MaxMessages, MaxHangups, MaxTransfers, MaxOpens} \subseteq Nat
  /\ IsFiniteSet(Nodes) => Cardinality(Nodes) >= MaxConns + MaxMessages
  /\ NULL \notin {"conn"} \X (1..MaxConns) \cup {"file"} \X (1..MaxTransfers)
                  \cup {"own"} \X (1..MaxOpens)

ConnIds     == 1..MaxConns
TransferIds == 1..MaxTransfers
OwnIds      == 1..MaxOpens

VARIABLES
  fdTab,      \* fdTab[f]: NULL, <<"conn", c>>, <<"file", t>> or <<"own", o>>
  epoll,      \* the connections' descriptors in the epoll set
  userList,   \* the nodes of userList: [sockfd |-> , conn |-> ]
  wheel,      \* the time wheel
  pc,         \* where the reactor thread is
  batch,      \* the ready descriptors epoll_wait returned and not yet handled
  closing,    \* the sockfd whose node deleteNode2 looks for
  list, current,  \* the locals of tick
  transfers,  \* the puts and gets tasks: [id |-> , fd |-> , conn |-> , file |-> , at |-> ],
              \* with the connection that asked for it as history
  own,        \* the numbers workers hold on their own: [id |-> , fd |-> ]
  cut,        \* history: tick has closed a descriptor in a worker's hands, or a
              \* transfer has begun on a connection that another task still reads
  idle,       \* history: idle[c]: completed ticks since c was accepted or refreshed
  peak,       \* history: the most descriptors workers have held at once
  accepted, messages, hangups, started, opened  \* counters, for the bounds

clients == <<accepted, messages, hangups, started>>
workers == <<own, peak, opened>>
vars == <<fdTab, epoll, userList, wheel, pc, batch, closing, list, current,
          transfers, cut, idle, clients, workers>>

Conn(c) == <<"conn", c>>
Open(f) == fdTab[f] # NULL
IsConn(f) == Open(f) /\ fdTab[f][1] = "conn"
IsOwn(f) == Open(f) /\ fdTab[f][1] = "own"
FreeFds == { f \in Fds : ~Open(f) }
LowestFd == CHOOSE f \in FreeFds : \A g \in FreeFds : f <= g

\* close(f): the kernel drops it from the epoll set too.
TabWithout(f) == [fdTab EXCEPT ![f] = NULL]

Init ==
  /\ fdTab = [f \in Fds |-> NULL]
  /\ epoll = {}
  /\ userList = <<>>
  /\ wheel = createTimeWheel
  /\ pc = "wait" /\ batch = {}
  /\ closing = NULL /\ list = NULL /\ current = NULL
  /\ transfers = {} /\ own = {} /\ cut = FALSE
  /\ idle = [c \in ConnIds |-> 0]
  /\ accepted = 0 /\ messages = 0 /\ hangups = 0 /\ started = 0 /\ opened = 0
  /\ peak = 0

-------------------------------------------------------------------------------
(* The loop of main *)

\* epoll_wait returns some ready descriptors, or none after its timeout.
EpollWait ==
  /\ pc = "wait"
  /\ \E ready \in SUBSET (epoll \cup {Listen}) :
       /\ batch' = ready
       /\ pc' = IF ready = {} THEN "tick" ELSE "events"
  /\ UNCHANGED <<workers, cut, fdTab, epoll, userList, wheel, closing, list, current, transfers,
                 idle, clients>>

\* The event of f is handled; the tick follows the last one.
Handled(f) ==
  /\ batch' = batch \ {f}
  /\ pc' = IF batch = {f} THEN "tick" ELSE "events"

\* A new connection: epoll, a node at the end of userList, the wheel.
Accept ==
  /\ pc = "events" /\ Listen \in batch
  /\ accepted < MaxConns /\ FreeFds # {}
  /\ LET f == LowestFd
         c == accepted + 1
     IN  /\ fdTab' = [fdTab EXCEPT ![f] = Conn(c)]
         /\ epoll' = epoll \cup {f}
         /\ userList' = Append(userList, [sockfd |-> f, conn |-> c])
         /\ wheel' = addUser(wheel, f, Timeout)
         /\ idle' = [idle EXCEPT ![c] = 0]
         /\ accepted' = c
  /\ Handled(Listen)
  /\ UNCHANGED <<workers, cut, closing, list, current, transfers, messages, hangups, started>>

\* No descriptor is left: accept returns -1, which is taken for one.  epoll refuses
\* it, a user node gets it, and the wheel writes to hashTable[-1], out of bounds:
\* nothing is known of the process from there on.
AcceptFailed ==
  /\ pc = "events" /\ Listen \in batch
  /\ accepted < MaxConns /\ FreeFds = {}
  /\ pc' = "undefined"
  /\ UNCHANGED <<workers, cut, fdTab, epoll, userList, wheel, batch, closing, list, current, transfers,
                 idle, clients>>

\* The listening socket was ready but the client is out of the model's bound.
AcceptNothing ==
  /\ pc = "events" /\ Listen \in batch
  /\ accepted = MaxConns
  /\ Handled(Listen)
  /\ UNCHANGED <<workers, cut, fdTab, epoll, userList, wheel, closing, list, current, transfers,
                 idle, clients>>

-------------------------------------------------------------------------------
(* handleMessage *)

Ready(f) == pc = "events" /\ f \in batch /\ f # Listen

\* A whole message has come.  (A worker may have closed the descriptor since
\* epoll_wait returned: recv fails, which is taken for a message without content.)
Received(f) == Ready(f) /\ IsConn(f) /\ messages < MaxMessages

\* A command with a content, length > 0: the timer of the sender is renewed.
Command(f) ==
  /\ Received(f)
  /\ wheel' = updateUserTimeout(wheel, f, Timeout)
  /\ idle' = [idle EXCEPT ![fdTab[f][2]] = 0]
  /\ messages' = messages + 1
  /\ Handled(f)
  /\ UNCHANGED <<workers, cut, fdTab, epoll, userList, closing, list, current, transfers,
                 accepted, hangups, started>>

\* A command without one, length == 0 (pwd, ls), or a message that ends early:
\* the timer runs on.
ShortCommand(f) ==
  /\ Ready(f)
  /\ Handled(f)
  /\ UNCHANGED <<workers, cut, fdTab, epoll, userList, wheel, closing, list, current, transfers,
                 idle, clients>>

\* The task of a puts or gets that is enqueued.
Task(f, at) == [id |-> started + 1, fd |-> f, conn |-> fdTab[f], file |-> NULL, at |-> at]

\* Mutant of Transfer: the connection stays in the epoll set.
TransferPolled(f) ==
  /\ Received(f) /\ started < MaxTransfers
  /\ transfers' = transfers \cup {Task(f, "open")}
  /\ cut' = (cut \/ \E t \in transfers : t.at = "stray" /\ t.fd = f)
  /\ wheel' = updateUserTimeout(wheel, f, Timeout)
  /\ idle' = [idle EXCEPT ![fdTab[f][2]] = 0]
  /\ started' = started + 1 /\ messages' = messages + 1
  /\ Handled(f)
  /\ UNCHANGED <<workers, fdTab, epoll, userList, closing, list, current, accepted, hangups>>

\* puts and gets: the worker is to read the connection alone.
Transfer(f) ==
  /\ Received(f) /\ started < MaxTransfers
  /\ epoll' = epoll \ {f}
  /\ transfers' = transfers \cup {Task(f, "open")}
  /\ cut' = (cut \/ \E t \in transfers : t.at = "stray" /\ t.fd = f)
  /\ wheel' = updateUserTimeout(wheel, f, Timeout)
  /\ idle' = [idle EXCEPT ![fdTab[f][2]] = 0]
  /\ started' = started + 1 /\ messages' = messages + 1
  /\ Handled(f)
  /\ UNCHANGED <<workers, fdTab, userList, closing, list, current, accepted, hangups>>

\* puts or gets without a name, length == 0: the connection stays in the epoll set
\* while the worker reads it.
StrayTransfer(f) ==
  /\ Ready(f) /\ IsConn(f) /\ started < MaxTransfers
  /\ transfers' = transfers \cup {Task(f, "stray")}
  /\ started' = started + 1
  /\ Handled(f)
  /\ UNCHANGED <<workers, cut, fdTab, epoll, userList, wheel, closing, list, current, idle,
                 accepted, messages, hangups>>

\* recvn returns 0: out of epoll, closed, and its user node is to be deleted.
\* The time wheel is not told.
Hangup(f) ==
  /\ Ready(f) /\ IsConn(f) /\ hangups < MaxHangups
  /\ epoll' = epoll \ {f}
  /\ fdTab' = TabWithout(f)
  /\ closing' = f
  /\ pc' = "unlist"
  /\ batch' = batch \ {f}
  /\ hangups' = hangups + 1
  /\ UNCHANGED <<workers, cut, userList, wheel, list, current, transfers, idle,
                 accepted, messages, started>>

\* The loop of deleteNode2 does not move past a node that matches.
Spinning ==
  /\ pc = "unlist" /\ userList # <<>>
  /\ userList[1].sockfd # closing
  /\ \E i \in 2..Len(userList) : userList[i].sockfd = closing

\* Mutant of Unlist: the first node goes, whosever it is.
UnlistFirst ==
  /\ pc = "unlist"
  /\ userList' = IF userList = <<>> THEN <<>> ELSE Tail(userList)
  /\ closing' = NULL
  /\ pc' = IF batch = {} THEN "tick" ELSE "events"
  /\ UNCHANGED <<workers, cut, fdTab, epoll, wheel, batch, list, current, transfers, idle, clients>>

\* deleteNode2: the first node goes if it matches.
Unlist ==
  /\ pc = "unlist" /\ ~Spinning
  /\ userList' = IF userList # <<>> /\ userList[1].sockfd = closing
                 THEN Tail(userList) ELSE userList
  /\ closing' = NULL
  /\ pc' = IF batch = {} THEN "tick" ELSE "events"
  /\ UNCHANGED <<workers, cut, fdTab, epoll, wheel, batch, list, current, transfers, idle, clients>>

-------------------------------------------------------------------------------
(* tick *)

TickDone ==
  /\ wheel' = TickAdvance(wheel)
  /\ idle' = [c \in ConnIds |-> IF idle[c] < WheelSize THEN idle[c] + 1 ELSE idle[c]]
  /\ list' = NULL /\ current' = NULL
  /\ pc' = "wait"

TickStart ==
  /\ pc = "tick"
  /\ LET s == wheel.slots[wheel.currentIndex] IN
       \/ /\ s = <<>>
          /\ TickDone
       \/ /\ s # <<>>
          /\ list' = s[1] /\ current' = s[1]
          /\ pc' = "visit"
          /\ UNCHANGED <<wheel, idle>>
  /\ UNCHANGED <<workers, cut, fdTab, epoll, userList, batch, closing, transfers, clients>>

\* The labels of a transfer that has its connection for itself.
Reading == {"open", "copy", "repoll"}

\* The transfer has the descriptor for its connection or its file.
Uses(t, f) == \/ t.at \in Reading /\ f = t.fd /\ fdTab[f] = t.conn
              \/ f = t.file /\ fdTab[f] = <<"file", t.id>>

\* A worker has it on its own.
Holds(o, f) == f = o.fd /\ fdTab[f] = <<"own", o.id>>

\* One iteration of the loop over the slot: next is read, the user is removed
\* from the wheel by his peerfd, the peerfd is closed.
TickVisit ==
  /\ pc = "visit" /\ wheel.fdOf[current] # NULL
  /\ LET peerfd == wheel.fdOf[current]
         next   == NextNode(wheel, current)
     IN  /\ wheel' = removeUser(wheel, peerfd)
         /\ fdTab' = TabWithout(peerfd)
         /\ epoll' = epoll \ {peerfd}
         /\ cut' = \/ cut
                   \/ \E t \in transfers : Uses(t, peerfd)
                   \/ \E o \in own : Holds(o, peerfd)
         /\ current' = next
         /\ pc' = IF next \in {list, NULL} THEN "ticked" ELSE "visit"
  /\ UNCHANGED <<workers, userList, batch, closing, list, transfers, idle, clients>>

\* The iteration reads a node that an earlier one freed.  Its next is still the
\* NULL written before free (the build does not optimise); its peerfd is not a
\* descriptor: either nothing is found under it, or the process dies of it.
TickVisitFreed ==
  /\ pc = "visit" /\ wheel.fdOf[current] = NULL
  /\ pc' \in {"ticked", "crashed"}
  /\ current' = NULL
  /\ UNCHANGED <<workers, cut, fdTab, epoll, userList, wheel, batch, closing, list, transfers,
                 idle, clients>>

TickEnd ==
  /\ pc = "ticked"
  /\ TickDone
  /\ UNCHANGED <<workers, cut, fdTab, epoll, userList, batch, closing, transfers, clients>>

-------------------------------------------------------------------------------
(* The workers *)

Alive == pc \notin {"crashed", "undefined"}

At(t, label) == (transfers \ {t}) \cup {[t EXCEPT !.at = label]}

\* The numbers that are no connection's, and the most there have been.
Busy == { f \in Fds : Open(f) /\ ~IsConn(f) }
PeakNow == peak' = IF Cardinality(Busy') > peak THEN Cardinality(Busy') ELSE peak

\* open of the file that is received or sent.
OpenFile(t) ==
  /\ Alive /\ t.at = "open" /\ FreeFds # {}
  /\ fdTab' = [fdTab EXCEPT ![LowestFd] = <<"file", t.id>>]
  /\ transfers' = (transfers \ {t}) \cup {[t EXCEPT !.at = "copy", !.file = LowestFd]}
  /\ PeakNow
  /\ UNCHANGED <<own, opened, cut, epoll, userList, wheel, pc, batch, closing, list, current,
                 idle, clients>>

\* No descriptor is left: the open of puts, the pipe of a large transfer and the
\* connection of ls and mkdir to the database end the process.
OpenFails ==
  /\ Alive /\ FreeFds = {} /\ accepted > 0
  /\ pc' = "crashed"
  /\ UNCHANGED <<workers, cut, fdTab, epoll, userList, wheel, batch, closing, list, current,
                 transfers, idle, clients>>

\* addEpollReadfd: refused for a closed descriptor, for a file, and for one that is in
\* the set.  A socket or pipe that a worker has on its own is taken: what the reactor
\* then reads from it is not modelled.
PollAgain(f) ==
  \/ /\ epoll' = IF IsConn(f) THEN epoll \cup {f} ELSE epoll
     /\ UNCHANGED pc
  \/ /\ IsOwn(f) /\ pc' = "undefined"
     /\ UNCHANGED epoll

\* The end without a file: the peer of puts has none, gets does not find one or cannot
\* open it; and the end of a task without a name.
GiveUp(t) ==
  /\ Alive /\ t.at \in {"open", "stray"}
  /\ PollAgain(t.fd)
  /\ transfers' = transfers \ {t}
  /\ UNCHANGED <<workers, cut, fdTab, userList, wheel, batch, closing, list, current, idle, clients>>

\* The transfer is over, and its connection is polled again: before puts closes the
\* file, after gets has closed it.
Repoll(t) ==
  /\ Alive /\ t.at \in {"copy", "repoll"}
  /\ PollAgain(t.fd)
  /\ transfers' = IF t.at = "copy" THEN At(t, "close") ELSE transfers \ {t}
  /\ UNCHANGED <<workers, cut, fdTab, userList, wheel, batch, closing, list, current, idle, clients>>

\* close(fd): the last thing puts does, the last but one of gets.
CloseFile(t) ==
  /\ Alive /\ t.at \in {"copy", "close"}
  /\ fdTab' = TabWithout(t.file)
  /\ epoll' = epoll \ {t.file}
  /\ transfers' = IF t.at = "close" THEN transfers \ {t}
                  ELSE (transfers \ {t}) \cup {[t EXCEPT !.at = "repoll", !.file = NULL]}
  /\ UNCHANGED <<workers, cut, userList, wheel, pc, batch, closing, list, current, idle, clients>>

\* A worker opens a descriptor for a command's own use.  (Somebody must have asked.)
OpenOwn ==
  /\ Alive /\ accepted > 0 /\ opened < MaxOpens /\ FreeFds # {}
  /\ fdTab' = [fdTab EXCEPT ![LowestFd] = <<"own", opened + 1>>]
  /\ own' = own \cup {[id |-> opened + 1, fd |-> LowestFd]}
  /\ opened' = opened + 1
  /\ PeakNow
  /\ UNCHANGED <<cut, epoll, userList, wheel, pc, batch, closing, list, current, transfers,
                 idle, clients>>

\* mysql_close, fclose or close: of the number, whosever it is by now.
CloseOwn(o) ==
  /\ Alive
  /\ fdTab' = TabWithout(o.fd)
  /\ epoll' = epoll \ {o.fd}
  /\ own' = own \ {o}
  /\ UNCHANGED <<peak, opened, cut, userList, wheel, pc, batch, closing, list, current,
                 transfers, idle, clients>>

-------------------------------------------------------------------------------
Crashed == ~Alive /\ UNCHANGED vars

\* deleteNode2 goes round and round.
Spin == Spinning /\ UNCHANGED vars

Tick == TickStart \/ TickVisit \/ TickVisitFreed \/ TickEnd

HandleMessage(f) ==
  Command(f) \/ ShortCommand(f) \/ Transfer(f) \/ StrayTransfer(f) \/ Hangup(f)

MainStep ==
  \/ EpollWait
  \/ Accept \/ AcceptFailed \/ AcceptNothing
  \/ \E f \in Fds : HandleMessage(f)
  \/ Unlist
  \/ Tick

TransferStep(t) == OpenFile(t) \/ GiveUp(t) \/ Repoll(t) \/ CloseFile(t)

WorkerStep ==
  \/ \E t \in transfers : TransferStep(t)
  \/ OpenOwn
  \/ \E o \in own : CloseOwn(o)
  \/ OpenFails

Next ==
  \/ MainStep
  \/ WorkerStep
  \/ Spin
  \/ Crashed

Spec == Init /\ [][Next]_vars

\* The reactor is never blocked for ever: epoll_wait has a timeout.
FairSpec == Spec /\ WF_vars(MainStep)

-------------------------------------------------------------------------------
(* Correctness *)

\* What the kernel and the transfers know of descriptors.
DescriptorsOK ==
  /\ fdTab \in [Fds -> {NULL} \cup ({"conn"} \X ConnIds) \cup ({"file"} \X TransferIds)
                                \cup ({"own"} \X OwnIds)]
  /\ epoll \subseteq Fds /\ batch \subseteq Fds \cup {Listen}
  /\ cut \in BOOLEAN
  /\ transfers \subseteq [id : TransferIds, fd : Fds, conn : {"conn"} \X ConnIds, file : Fds \cup {NULL},
                          at : {"open", "copy", "close", "repoll", "stray"}]
  /\ own \subseteq [id : OwnIds, fd : Fds] /\ opened \in 0..MaxOpens /\ peak \in Nat
  /\ userList \in Seq([sockfd : Fds, conn : ConnIds])
  /\ closing \in Fds \cup {NULL}
  /\ accepted \in 0..MaxConns /\ started \in 0..MaxTransfers

\* The fields of a time wheel.
IsWheel(w) ==
  w \in [ slots        : [0..(WheelSize - 1) -> Seq(Nodes)],
          fdOf         : [Nodes -> Fds \cup {NULL}],
          hashTable    : [0..(w.hashSize - 1) -> Seq([peerfd : Fds, index : 0..(WheelSize - 1)])],
          hashSize     : Nat \ {0},
          elementCount : Nat,
          currentIndex : 0..(WheelSize - 1) ]

TypeOK ==
  /\ DescriptorsOK
  /\ IsWheel(wheel)
  /\ pc \in {"wait", "events", "unlist", "tick", "visit", "ticked", "crashed",
             "undefined"}
  /\ list \in Nodes \cup {NULL} /\ current \in Nodes \cup {NULL}
  /\ idle \in [ConnIds -> 0..WheelSize]

\* The last node of userList for an open descriptor, the one get_username reads,
\* is its connection's, although the wheel closes descriptors without deleting
\* their node and deleteNode2 deletes by descriptor: the nodes a descriptor's
\* former connections left behind are never the last.
\* (While deleteNode2 looks for a descriptor, no connection has it.)
CurrentNodeListed ==
  /\ pc = "unlist" => closing \in Fds /\ ~IsConn(closing)
  /\ \A f \in Fds : IsConn(f) =>
       \E i \in 1..Len(userList) :
         /\ userList[i].sockfd = f /\ Conn(userList[i].conn) = fdTab[f]
         /\ \A j \in (i + 1)..Len(userList) : userList[j].sockfd # f

\* removeUser and updateUserTimeout take a bucket's first node without comparing
\* its peerfd.  No bucket ever mixes two descriptors as long as the workers have not
\* held more numbers at once than a quarter of the table's first size, 32: numbers are
\* given out lowest first, every open connection counts in elementCount, and the table
\* doubles when it is three quarters full, so that all connections are below hashSize
\* although the workers' numbers do not count.
FewHeld == 4 * peak <= InitialHashSize
FirstNodeIsOwn == FewHeld => OwnBuckets(wheel)

\* The count that resizing depends on never drifts from the table, although
\* nodes that a closed connection left behind are removed in another's name.
CountIsExact == CountsNodes(wheel)

\* No open connection is out of the wheel's reach: whatever stale entries of its
\* descriptor are around, it has a list node that some tick visits.
AlwaysTimed ==
  \A f \in Fds : IsConn(f) => Registered(wheel, f)

\* No slot holds a descriptor twice: the loop of tick, which finds a node by its
\* descriptor, would otherwise free a node ahead of it and miss its own end. TLC
\* refutes it: once tick has closed a number that a worker holds, the worker's own
\* close ends the connection that got the number, behind the wheel's back, and the
\* next one of that number may come before a tick.
SlotsAlwaysDistinct ==
  \A i \in DOMAIN wheel.slots : \A n, m \in ToSet(wheel.slots[i]) :
    wheel.fdOf[n] = wheel.fdOf[m] => n = m

\* Until then it holds, even with the stale entries of connections whose number was
\* given out again.
SlotsDistinct == ~cut => SlotsAlwaysDistinct

\* The wheel is well formed: a list node is in one list, once, and allocated as long
\* as it is there; a hash node is in the bucket of its descriptor.
WellFormed(w) ==
  /\ \A i, j \in DOMAIN w.slots : \A k \in DOMAIN w.slots[i], l \in DOMAIN w.slots[j] :
       w.slots[i][k] = w.slots[j][l] => i = j /\ k = l
  /\ \A i \in DOMAIN w.slots : \A n \in ToSet(w.slots[i]) : w.fdOf[n] # NULL
  /\ \A b \in DOMAIN w.hashTable : \A e \in ToSet(w.hashTable[b]) :
       hashFunction(e.peerfd, w.hashSize) = b

\* An open connection has a list node early enough for its silence so far.
TimedBySilence ==
  \A f \in Fds : IsConn(f) =>
    \E d \in 0..Timeout : \E n \in ToSet(Ahead(wheel, d)) :
      wheel.fdOf[n] = f /\ idle[fdTab[f][2]] + d <= Timeout

\* The loop of tick has closed the descriptors of all nodes before current; when
\* current is freed or comes again, or the loop is over, those of all nodes.
VisitClosed ==
  /\ pc = "ticked" => \A n \in ToSet(Ahead(wheel, 0)) : ~IsConn(wheel.fdOf[n])
  /\ pc = "visit" =>
       /\ current \in Nodes
       /\ \A k \in DOMAIN Ahead(wheel, 0) : Ahead(wheel, 0)[k] = list => k = 1
       /\ \E p \in 0..Len(Ahead(wheel, 0)) :
            /\ \A k \in 1..p : ~IsConn(wheel.fdOf[Ahead(wheel, 0)[k]])
            /\ p = Len(Ahead(wheel, 0)) \/ current = Ahead(wheel, 0)[p + 1]

\* Slots further ahead than Timeout are empty, and so is the one Timeout ahead when
\* epoll_wait returns.  Until the tick that follows, whatever it names is the open
\* connection of an event that has been handled.
FilledOnce ==
  /\ \A d \in 0..(WheelSize - 1) : d > Timeout => Ahead(wheel, d) = <<>>
  /\ pc = "wait" => Ahead(wheel, Timeout) = <<>>
  /\ ~cut /\ pc \in {"events", "unlist"} =>
       \A n \in ToSet(Ahead(wheel, Timeout)) : IsConn(wheel.fdOf[n]) /\ wheel.fdOf[n] \notin batch

\* What epoll polls is a connection, and so is what it has returned, until it is
\* handled.
PolledOpen ==
  /\ \A f \in epoll : IsConn(f)
  /\ ~cut /\ pc \in {"events", "unlist"} => \A f \in batch \ {Listen} : IsConn(f)

\* A node of the wheel's lists is what some accept or some message left.
NodesBounded ==
  /\ messages \in 0..MaxMessages
  /\ Cardinality({ n \in Nodes : wheel.fdOf[n] # NULL }) <= accepted + messages

\* What the wheel relies on, through every reuse of a number: exact counts, an
\* entry within reach for every open connection and, until tick closes a number in a
\* worker's hands, slots without repetitions; with what makes it inductive.
WheelInv ==
  /\ TypeOK /\ CountIsExact /\ AlwaysTimed /\ SlotsDistinct
  /\ WellFormed(wheel) /\ TimedBySilence /\ VisitClosed /\ FilledOnce /\ PolledOpen
  /\ NodesBounded

\* A client that falls silent is disconnected in time: no connection outlives the
\* tick that follows Timeout completed ones, whatever stale entries its descriptor
\* has in the wheel and however early a visit of a slot ends.
SilentIsClosed ==
  \A f \in Fds : IsConn(f) => idle[fdTab[f][2]] <= Timeout

\* Timers' view of this state.
TimersOf == INSTANCE Timers WITH
  left <- [f \in Fds |-> IF IsConn(f) THEN TicksLeft(wheel, f) ELSE NULL]

\* As long as no client has hung up or asked for a transfer, and the workers hold few
\* numbers, the wheel with its lists and its hash table is one countdown per connection,
\* which each command with a content starts again and each tick brings down: a connection
\* is closed exactly when it has been silent for Timeout ticks. (The numbers of workers
\* can make a bucket mix two connections; a refreshed one is then closed early.)
TimersStep ==
  /\ [TimersOf!Next]_(TimersOf!vars)
  /\ \A f \in Fds : Command(f) => TimersOf!Refresh(f)
  /\ pc # "wait" /\ pc' = "wait" => TimersOf!Tick
ImplementsTimers ==
  TimersOf!Init /\ [][hangups' = 0 /\ started' = 0 /\ FewHeld' => TimersStep]_vars

\* Until tick closes a number in a worker's hands, or a client asks for a transfer while a
\* task without a name still reads its connection, a worker that transfers a file has its
\* connection for itself, not polled by the reactor and read by no other task, and its
\* file; and what a worker opened on its own is its own: whatever becomes of the other
\* numbers, which are closed and given out around them.
TransferOwnUntilCut ==
  /\ \A t, u \in transfers : t.id <= started /\ (t.id = u.id => t = u)
  /\ \A o, p \in own : o.id <= opened /\ (o.id = p.id => o = p)
  /\ ~cut => \A t \in transfers :
       /\ t.at \in Reading =>
            /\ fdTab[t.fd] = t.conn /\ t.fd \notin epoll \cup batch
            /\ \A u \in transfers : u.at # "close" /\ u.fd = t.fd => u = t
       /\ t.file # NULL => fdTab[t.file] = <<"file", t.id>>
  /\ ~cut => \A o \in own : fdTab[o.fd] = <<"own", o.id>>

\* main.c:133 "add the new connection to epoll's tree": accept has returned one.
AcceptsConnection == pc # "undefined"

\* timeWheel.c:142 "update the user's timeout", 156 "add again, to the slot of the
\* new timeout", main.c:140: a tick closes only what was silent for Timeout ticks.
NoEarlyClose ==
  [][ \A f \in Fds : pc = "visit" /\ IsConn(f) /\ fdTab'[f] = NULL =>
        idle[fdTab[f][2]] >= Timeout ]_vars

\* timeWheel.c:181 "make sure the current pointer is valid": tick looks only at
\* nodes that are allocated.
VisitsLive == pc = "visit" => wheel.fdOf[current] # NULL

\* bussiness.c:69 "an upload: taken out of epoll for the time being": while a
\* worker reads a connection, the reactor does not poll it.
TransferAlone == \A t \in transfers : t.at \in Reading => t.fd \notin epoll

\* linked_list.c:53 "delete the node whose value is peerfd": it returns.
DeletesUser == pc = "unlist" ~> pc # "unlist"

\* bussiness.c:12 "look up the information of the interacting user": findUser's
\* node, the first one with the descriptor, is the sender's.
FoundIsSender ==
  \A f \in epoll :
    LET Mine == SelectSeq(userList, LAMBDA u : u.sockfd = f)
    IN  Mine # <<>> /\ Conn(Mine[1].conn) = fdTab[f]

\* puts.c:80 "receive and write into the file", 45, 81, 91: from open to close the file is the transfer's own.
FileIsOwn == \A t \in transfers : t.at = "copy" => fdTab[t.file] = <<"file", t.id>>
===============================================================================
