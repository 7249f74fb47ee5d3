-------------------------------- MODULE Users --------------------------------
(***************************************************************************)
(* The user list of server/main.c and linked_list.c while workers walk it  *)
(* for logins (server/bussiness.c, user.c) and for the user's name         *)
(* (get_username of dataTransfer.c), and the two steps of a login.         *)
(*                                                                         *)
(* The reactor alone changes the list: it appends at an accept and deletes *)
(* at a hang-up.  Workers read it without a lock, one node per step.  The  *)
(* node of the c-th connection is c; what its val points to, the           *)
(* user_info_t, is never freed.  Descriptors are given out again, lowest   *)
(* first.  getspnam has one static buffer for all threads.                 *)
(*                                                                         *)
(* Clients know their passwords and every name is in /etc/shadow.  The     *)
(* encrypted password is modelled by the name it belongs to, its salt too: *)
(* what a client computes passes when both are his.                        *)
(*                                                                         *)
(* Bounds: MaxConns, MaxTasks, MaxHangups, MaxTimeouts.                    *)
(***************************************************************************)
EXTENDS Integers, Sequences, TLC

CONSTANTS Workers, Fds, Names, NULL,
          MaxConns, MaxTasks, MaxHangups, MaxTimeouts

ASSUME UsersAssumption ==
  /\ Fds \subseteq Nat /\ NULL \notin Names \cup Nat
  /\ {MaxConns, MaxTasks, MaxHangups, MaxTimeouts} \subseteq Nat

ConnIds == 1..MaxConns

VARIABLES
  fdOf,      \* fdOf[c]: the descriptor of connection c while it is open, or NULL
  head, next,\* userList and the next of every node
  sockfd,    \* sockfd[c]: in the user_info_t of node c
  name,      \* user->name, by node
  encrypted, \* user->encrypted, by node
  memory,    \* memory[c]: "unused", "live" or "freed"
  reactor,   \* [at |-> , fd |-> , temp |-> ]: the reactor, and the locals of deleteNode2
  client,    \* client[c]: [at |-> , who |-> , salt |-> ]
  queue,     \* tasks: [kind |-> , fd |-> , data |-> , from |-> ]
  work,      \* work[w]: [task |-> , at |-> , node |-> , user |-> ]
  spwd,      \* the static buffer of getspnam
  crashed,   \* a thread has read a freed node
  cut, hasty, overlapped, refused, \* history, see the properties
  accepted, sent, hangups, timeouts

list     == <<head, next, sockfd, memory>>
info     == <<name, encrypted>>
history  == <<cut, hasty, overlapped, refused>>
counters == <<accepted, sent, hangups, timeouts>>
vars == <<fdOf, list, info, reactor, client, queue, work, spwd, crashed, history, counters>>

NoTask == [task |-> NULL, at |-> "idle", node |-> NULL, user |-> NULL]
Loop   == [at |-> "loop", fd |-> NULL, temp |-> NULL]

Init ==
  /\ fdOf = [c \in ConnIds |-> NULL]
  /\ head = NULL /\ next = [c \in ConnIds |-> NULL]
  /\ sockfd = [c \in ConnIds |-> NULL]
  /\ name = [c \in ConnIds |-> NULL] /\ encrypted = [c \in ConnIds |-> NULL]
  /\ memory = [c \in ConnIds |-> "unused"]
  /\ reactor = Loop
  /\ client = [c \in ConnIds |-> [at |-> "away", who |-> NULL, salt |-> NULL]]
  /\ queue = <<>>
  /\ work = [w \in Workers |-> NoTask]
  /\ spwd = NULL /\ crashed = FALSE
  /\ cut = FALSE /\ hasty = FALSE /\ overlapped = FALSE /\ refused = FALSE
  /\ accepted = 0 /\ sent = 0 /\ hangups = 0 /\ timeouts = 0

-------------------------------------------------------------------------------
(* The reactor *)

ReactorAt(label) == ~crashed /\ reactor.at = label
IsOpen(c) == fdOf[c] # NULL
FreeFds == Fds \ { fdOf[c] : c \in ConnIds }
LowestFd == CHOOSE f \in FreeFds : \A g \in FreeFds : f <= g

\* The last node of the list, which appendNode looks for.
LastNode == CHOOSE c \in ConnIds : memory[c] = "live" /\ next[c] = NULL

\* Mutant of appendNode: the loop to the last node is missing.
appendNodeShort(c) ==
  \/ head = NULL /\ head' = c /\ UNCHANGED next
  \/ head # NULL /\ next' = [next EXCEPT ![head] = c] /\ UNCHANGED head

\* appendNode: the new node becomes visible by one store.
appendNode(c) ==
  \/ head = NULL /\ head' = c /\ UNCHANGED next
  \/ head # NULL /\ next' = [next EXCEPT ![LastNode] = c] /\ UNCHANGED head

Accept ==
  /\ ReactorAt("loop") /\ accepted < MaxConns /\ FreeFds # {}
  /\ LET c == accepted + 1 IN
       /\ fdOf' = [fdOf EXCEPT ![c] = LowestFd]
       /\ sockfd' = [sockfd EXCEPT ![c] = LowestFd]
       /\ memory' = [memory EXCEPT ![c] = "live"]
       /\ appendNode(c)
       /\ client' = [client EXCEPT ![c].at = "new"]
       /\ accepted' = c
  /\ UNCHANGED <<info, reactor, queue, work, spwd, crashed, history, sent, hangups, timeouts>>

\* A client sends his next message and handleMessage makes it a task: the name,
\* then what crypt makes of the password and the salt, then commands.
Message(c, kind, data, at) ==
  /\ ReactorAt("loop") /\ IsOpen(c) /\ sent < MaxTasks
  /\ queue' = Append(queue, [kind |-> kind, fd |-> fdOf[c], data |-> data, from |-> c])
  /\ client' = [client EXCEPT ![c].at = at,
                              ![c].who = IF kind = "login1" THEN data ELSE @]
  /\ sent' = sent + 1
  /\ UNCHANGED <<fdOf, list, info, reactor, work, spwd, crashed, history,
                 accepted, hangups, timeouts>>

HandleMessage(c) ==
  \/ client[c].at = "new" /\ \E n \in Names : Message(c, "login1", n, "salt")
  \/ client[c].at = "salted"
     /\ Message(c, "login2", <<client[c].who, client[c].salt>>, "answer")
  \/ client[c].at = "in" /\ Message(c, "command", NULL, "in")

\* Whether a task of c is queued or in work.
Pending(c) ==
  \/ \E i \in DOMAIN queue : queue[i].from = c
  \/ \E w \in Workers : work[w] # NoTask /\ work[w].task.from = c

\* The client hangs up: close, then deleteNode2.
Hangup(c) ==
  /\ ReactorAt("loop") /\ IsOpen(c) /\ hangups < MaxHangups
  /\ fdOf' = [fdOf EXCEPT ![c] = NULL]
  /\ reactor' = [at |-> "find", fd |-> fdOf[c], temp |-> NULL]
  /\ client' = [client EXCEPT ![c].at = "away"]
  /\ hasty' = (hasty \/ Pending(c))
  /\ hangups' = hangups + 1
  /\ UNCHANGED <<list, info, queue, work, spwd, crashed, cut, overlapped, refused,
                 accepted, sent, timeouts>>

\* Mutant of Unlink: the node is freed first.
UnlinkLater ==
  /\ ReactorAt("find") /\ head # NULL /\ sockfd[head] = reactor.fd
  /\ memory' = [memory EXCEPT ![head] = "freed"]
  /\ cut' = (cut \/ \E w \in Workers : work[w].node = head)
  /\ reactor' = [reactor EXCEPT !.at = "free", !.temp = head]
  /\ UNCHANGED <<fdOf, head, next, sockfd, info, client, queue, work, spwd, crashed,
                 hasty, overlapped, refused, counters>>

\* deleteNode2, first node: it leaves the list ...
Unlink ==
  /\ ReactorAt("find") /\ head # NULL /\ sockfd[head] = reactor.fd
  /\ head' = next[head]
  /\ cut' = (cut \/ \E w \in Workers : work[w].node = head)
  /\ reactor' = [reactor EXCEPT !.at = "free", !.temp = head]
  /\ UNCHANGED <<fdOf, next, sockfd, memory, info, client, queue, work, spwd, crashed,
                 hasty, overlapped, refused, counters>>

\* ... and is freed.
Free ==
  /\ ReactorAt("free")
  /\ memory' = [memory EXCEPT ![reactor.temp] = "freed"]
  /\ head' = IF head = reactor.temp THEN next[head] ELSE head
  /\ reactor' = Loop
  /\ UNCHANGED <<fdOf, next, sockfd, info, client, queue, work, spwd, crashed, history,
                 counters>>

\* Another node than the first: the loop stops there for ever.
Spin ==
  /\ ReactorAt("find") /\ head # NULL /\ sockfd[head] # reactor.fd
  /\ reactor' = [reactor EXCEPT !.at = "spinning"]
  /\ UNCHANGED <<fdOf, list, info, client, queue, work, spwd, crashed, history, counters>>

\* The wheel closes a silent connection; its node stays in the list.
TimeoutClose(c) ==
  /\ ReactorAt("loop") /\ IsOpen(c) /\ timeouts < MaxTimeouts
  /\ fdOf' = [fdOf EXCEPT ![c] = NULL]
  /\ client' = [client EXCEPT ![c].at = "away"]
  /\ hasty' = (hasty \/ Pending(c))
  /\ timeouts' = timeouts + 1
  /\ UNCHANGED <<list, info, reactor, queue, work, spwd, crashed, cut, overlapped, refused,
                 accepted, sent, hangups>>

ReactorStep ==
  \/ Accept \/ Unlink \/ Free \/ Spin
  \/ \E c \in ConnIds : HandleMessage(c) \/ Hangup(c) \/ TimeoutClose(c)

-------------------------------------------------------------------------------
(* A worker *)

On(w, at) == ~crashed /\ work[w].at = at
Kind(w) == work[w].task.kind
Goto(w, at) == work' = [work EXCEPT ![w].at = at]
Ends(w) == work' = [work EXCEPT ![w] = NoTask]

Deque(w) ==
  /\ On(w, "idle") /\ queue # <<>>
  /\ work' = [work EXCEPT ![w] = [task |-> Head(queue), at |-> "start", node |-> NULL,
                                  user |-> NULL]]
  /\ queue' = Tail(queue)
  /\ UNCHANGED <<fdOf, list, info, reactor, client, spwd, crashed, history, counters>>

\* The walk begins at userList.
WalkStart(w) ==
  /\ On(w, "start")
  /\ work' = [work EXCEPT ![w].at = "walk", ![w].node = head]
  /\ UNCHANGED <<fdOf, list, info, reactor, client, queue, spwd, crashed, history, counters>>

\* A node that has been freed is read: the process dies of it, at the latest when
\* it follows what has become of the node's pointers.
WalkFreed(w) ==
  /\ On(w, "walk") /\ work[w].node # NULL /\ memory[work[w].node] = "freed"
  /\ crashed' = TRUE
  /\ UNCHANGED <<fdOf, list, info, reactor, client, queue, work, spwd, history, counters>>

\* Mutant of WalkLogin: the first node is the user's, whatever its descriptor.
WalkLoginFirst(w) ==
  /\ On(w, "walk") /\ Kind(w) # "command"
  /\ work[w].node # NULL /\ memory[work[w].node] = "live"
  /\ LET node == work[w].node IN
       /\ work' = [work EXCEPT ![w].node = NULL, ![w].user = node,
                               ![w].at = IF Kind(w) = "login1" THEN "name" ELSE "check"]
  /\ UNCHANGED <<fdOf, list, info, reactor, client, queue, spwd, crashed, history, counters>>

\* userLoginCheck1 and 2: the walk stops at the first node with the descriptor.
WalkLogin(w) ==
  /\ On(w, "walk") /\ Kind(w) # "command"
  /\ work[w].node # NULL /\ memory[work[w].node] = "live"
  /\ LET node == work[w].node IN
     IF sockfd[node] = work[w].task.fd
     THEN work' = [work EXCEPT ![w].node = NULL, ![w].user = node,
                               ![w].at = IF Kind(w) = "login1" THEN "name" ELSE "check"]
     ELSE work' = [work EXCEPT ![w].node = next[node]]
  /\ UNCHANGED <<fdOf, list, info, reactor, client, queue, spwd, crashed, history, counters>>

\* Mutant of WalkName: the name is taken from the last node of the list.
WalkNameAny(w) ==
  /\ On(w, "walk") /\ Kind(w) = "command"
  /\ work[w].node # NULL /\ memory[work[w].node] = "live"
  /\ work' = [work EXCEPT ![w].node = next[work[w].node], ![w].user = work[w].node]
  /\ UNCHANGED <<fdOf, list, info, reactor, client, queue, spwd, crashed, history, counters>>

\* get_username: the walk goes to the end, and the last node counts.
WalkName(w) ==
  /\ On(w, "walk") /\ Kind(w) = "command"
  /\ work[w].node # NULL /\ memory[work[w].node] = "live"
  /\ LET node == work[w].node IN
       work' = [work EXCEPT ![w].node = next[node],
                            ![w].user = IF sockfd[node] = work[w].task.fd THEN node ELSE @]
  /\ UNCHANGED <<fdOf, list, info, reactor, client, queue, spwd, crashed, history, counters>>

\* The end of the list: a command goes on, a login is dropped without an answer.
WalkEnd(w) ==
  /\ On(w, "walk") /\ work[w].node = NULL
  /\ Goto(w, IF Kind(w) = "command" THEN "run" ELSE "lost")
  /\ UNCHANGED <<fdOf, list, info, reactor, client, queue, spwd, crashed, history, counters>>

\* strcpy of the name, and getspnam, which fills its static buffer.
LoginName(w) ==
  /\ On(w, "name")
  /\ name' = [name EXCEPT ![work[w].user] = work[w].task.data]
  /\ spwd' = work[w].task.data
  /\ overlapped' = (overlapped \/ \E v \in Workers : work[v].at \in {"copy", "salt"})
  /\ Goto(w, "copy")
  /\ UNCHANGED <<fdOf, list, encrypted, reactor, client, queue, crashed, cut, hasty,
                 refused, counters>>

\* user->encrypted is copied from the buffer ...
LoginCopy(w) ==
  /\ On(w, "copy")
  /\ encrypted' = [encrypted EXCEPT ![work[w].user] = spwd]
  /\ Goto(w, "salt")
  /\ UNCHANGED <<fdOf, list, name, reactor, client, queue, spwd, crashed, history, counters>>

\* A reply goes to whoever has the descriptor now; it counts when he waits for it.
Reply(fd, waiting, answered) ==
  client' = [c \in ConnIds |-> IF fdOf[c] = fd /\ client[c].at = waiting
                               THEN answered[c] ELSE client[c]]

\* ... and the salt, which goes to the client, too.
LoginSalt(w) ==
  /\ On(w, "salt")
  /\ Reply(work[w].task.fd, "salt",
           [c \in ConnIds |-> [client[c] EXCEPT !.at = "salted", !.salt = spwd]])
  /\ Ends(w)
  /\ UNCHANGED <<fdOf, list, info, reactor, queue, spwd, crashed, history, counters>>

\* loginCheck2 compares; a client that is refused types his password again.
LoginCheck2(w) ==
  /\ On(w, "check")
  /\ LET passes == work[w].task.data = <<encrypted[work[w].user], encrypted[work[w].user]>>
     IN  /\ refused' = (refused \/ ~passes)
         /\ Reply(work[w].task.fd, "answer",
                  [c \in ConnIds |->
                     [client[c] EXCEPT !.at = IF passes THEN "in" ELSE "salted"]])
  /\ Ends(w)
  /\ UNCHANGED <<fdOf, list, info, reactor, queue, spwd, crashed, cut, hasty, overlapped,
                 counters>>

\* A command is executed in the user's name, or a login was dropped.
TaskEnd(w) ==
  /\ On(w, "run") \/ On(w, "lost")
  /\ Ends(w)
  /\ UNCHANGED <<fdOf, list, info, reactor, client, queue, spwd, crashed, history, counters>>

WorkerStep(w) ==
  \/ Deque(w) \/ WalkStart(w) \/ WalkFreed(w) \/ WalkLogin(w) \/ WalkName(w) \/ WalkEnd(w)
  \/ LoginName(w) \/ LoginCopy(w) \/ LoginSalt(w) \/ LoginCheck2(w) \/ TaskEnd(w)

\* The bounds are reached, or the server is lost.
Done ==
  /\ \/ crashed
     \/ queue = <<>> /\ \A w \in Workers : work[w] = NoTask
  /\ UNCHANGED vars

Next == ReactorStep \/ (\E w \in Workers : WorkerStep(w)) \/ Done

Spec == Init /\ [][Next]_vars

-------------------------------------------------------------------------------
(* Correctness *)

Secrets == Names \cup {NULL}
Task    == [kind : {"login1"}, fd : Fds, data : Names, from : ConnIds]
           \cup [kind : {"login2"}, fd : Fds, data : Secrets \X Secrets, from : ConnIds]
           \cup [kind : {"command"}, fd : Fds, data : {NULL}, from : ConnIds]
Labels  == {"idle", "start", "walk", "name", "copy", "salt", "check", "run", "lost"}
Locals  == [task : Task \cup {NULL}, at : Labels,
            node : ConnIds \cup {NULL}, user : ConnIds \cup {NULL}]
Client  == [at : {"away", "new", "salt", "salted", "answer", "in"},
            who : Secrets, salt : Secrets]

TypeOK ==
  /\ fdOf \in [ConnIds -> Fds \cup {NULL}] /\ sockfd \in [ConnIds -> Fds \cup {NULL}]
  /\ head \in ConnIds \cup {NULL} /\ next \in [ConnIds -> ConnIds \cup {NULL}]
  /\ name \in [ConnIds -> Secrets] /\ encrypted \in [ConnIds -> Secrets]
  /\ memory \in [ConnIds -> {"unused", "live", "freed"}]
  /\ reactor \in [at : {"loop", "find", "free", "spinning"}, fd : Fds \cup {NULL},
                  temp : ConnIds \cup {NULL}]
  /\ client \in [ConnIds -> Client]
  /\ queue \in Seq(Task)
  /\ work \in [Workers -> Locals]
  /\ spwd \in Secrets
  /\ crashed \in BOOLEAN /\ cut \in BOOLEAN
  /\ hasty \in BOOLEAN /\ overlapped \in BOOLEAN /\ refused \in BOOLEAN
  /\ accepted \in 0..MaxConns /\ sent \in Nat /\ hangups \in Nat /\ timeouts \in Nat

\* The unlinked node is the one before the first; what is behind the first is live
\* and linked in the order of the accepts, up to the last.
ListShape ==
  /\ head # NULL => head <= accepted
  /\ \A c \in ConnIds :
       /\ memory[c] = "unused" <=> c > accepted
       /\ memory[c] = "unused" => next[c] = NULL
       /\ memory[c] = "live" =>
            /\ next[c] = IF c = accepted THEN NULL ELSE c + 1
            /\ c \in {head, reactor.temp} \/ (head # NULL /\ c > head)
       /\ head # NULL /\ head <= c /\ c <= accepted => memory[c] = "live"
  /\ reactor.at = "free" => /\ reactor.temp # NULL /\ memory[reactor.temp] = "live"
                            /\ head = next[reactor.temp]
                            /\ sockfd[reactor.temp] = reactor.fd
  /\ reactor.at # "free" => reactor.temp = NULL

\* Which task a worker has at each place.
TaskAt ==
  \A w \in Workers :
    /\ work[w].at # "idle" => work[w].task \in Task
    /\ work[w].at \in {"name", "copy", "salt"} => work[w].task.kind = "login1"
    /\ work[w].at = "check" => work[w].task.kind = "login2"
    /\ work[w].at = "run" => work[w].task.kind = "command"
    /\ work[w].at \in {"name", "copy", "salt", "check"} => work[w].user # NULL
    /\ work[w].at # "walk" => work[w].node = NULL

\* A walk stands on a live node, or on the one that was unlinked under it.
WalksOnLive ==
  \A w \in Workers : work[w].node # NULL =>
    /\ work[w].node <= accepted
    /\ memory[work[w].node] = "freed" => cut
    /\ reactor.at = "free" /\ work[w].node = reactor.temp => cut

\* The node of an open connection is in the list and has its descriptor, which no
\* other open connection has and the reactor is not looking for.
OpenIsListed ==
  /\ \A c \in ConnIds : IsOpen(c) =>
       /\ memory[c] = "live" /\ sockfd[c] = fdOf[c]
       /\ reactor.at \in {"find", "free"} => fdOf[c] # reactor.fd
  /\ \A c, d \in ConnIds : IsOpen(c) /\ fdOf[c] = fdOf[d] => c = d

\* A task of an open connection has its descriptor, and the walk of a login has not
\* passed the node it looks for.
WalkReaches ==
  /\ \A i \in 1..Len(queue) :
       /\ queue[i].from <= accepted
       /\ IsOpen(queue[i].from) => queue[i].fd = fdOf[queue[i].from]
  /\ \A w \in Workers : work[w].at # "idle" =>
       /\ work[w].task.from <= accepted
       /\ IsOpen(work[w].task.from) =>
            /\ work[w].task.fd = fdOf[work[w].task.from]
            /\ work[w].at = "walk" /\ work[w].task.kind # "command" =>
                 work[w].node # NULL /\ work[w].node <= work[w].task.from

\* The reactor frees nodes while workers walk, without a lock.  Only a walk that
\* stood on the first node when it was unlinked (cut) meets a freed node: one that
\* begins later starts behind it, one that had passed it does not come back.
OnlyCutWalksDie == crashed => cut

\* Together: the list's nodes are live where its pointers lead, but for that walk.
ListInv ==
  TypeOK /\ TaskAt /\ ListShape /\ WalksOnLive /\ OpenIsListed /\ WalkReaches /\ OnlyCutWalksDie

\* A login is dropped without an answer only when its connection is gone: the walk
\* of a worker reaches the user's node whatever the reactor appends and deletes
\* meanwhile, or dies.
AnswersOpen ==
  \A w \in Workers : work[w].at = "lost" => ~IsOpen(work[w].task.from)

\* Whoever knows his password is let in, unless two getspnam overlapped or a
\* connection was closed with a task of it pending (hasty), whose number the next connection got.
RightPasswordPasses == refused => overlapped \/ hasty

\* user.h:21 "user name (passed by the client)": a command is executed in the
\* name its client logged in with.
InOwnName ==
  \A w \in Workers : work[w].at = "run" /\ IsOpen(work[w].task.from) =>
    /\ work[w].user # NULL
    /\ name[work[w].user] = client[work[w].task.from].who

\* It is as long as no client hangs up on a task and the wheel closes nobody:
\* the nodes of former connections are gone before their number is given out.
InOwnNameAtFirst == InOwnName \/ hasty \/ timeouts > 0

-------------------------------------------------------------------------------
(* What makes these two inductive: until a connection is closed with a task      *)
(* pending, every task is its client's, who waits for it, and both steps of a    *)
(* login meet the first node with his descriptor, which stays the first.         *)

Listed(n) == head # NULL /\ head <= n /\ n <= accepted
FirstNode(n, fd) ==
  /\ Listed(n) /\ sockfd[n] = fd
  /\ \A m \in ConnIds : Listed(m) /\ m < n => sockfd[m] # fd

\* What a task is and what its client does meanwhile.
OfClient(t) ==
  LET c == client[t.from] IN
    /\ IsOpen(t.from)
    /\ \/ t.kind = "login1" /\ c.at = "salt" /\ c.who = t.data
       \/ t.kind = "login2" /\ c.at = "answer" /\ <<c.who, c.salt>> = t.data
       \/ t.kind = "command" /\ c.at = "in"
SameLogin(t, u) == t.from = u.from /\ t.kind # "command"

\* One task of a login at a time, and none of a client that has gone.
TasksOfClients == ~hasty =>
  /\ \A i \in 1..Len(queue) : OfClient(queue[i])
  /\ \A w \in Workers : work[w].at # "idle" => OfClient(work[w].task)
  /\ \A i, j \in 1..Len(queue) : SameLogin(queue[i], queue[j]) => i = j
  /\ \A w, v \in Workers :
       work[w].at # "idle" /\ work[v].at # "idle" /\ SameLogin(work[w].task, work[v].task) => w = v
  /\ \A w \in Workers, i \in 1..Len(queue) :
       work[w].at # "idle" => ~SameLogin(work[w].task, queue[i])

\* A login's walk stops at the first node with the descriptor, which has the client's
\* name from then on.
LoginsMeet == ~hasty =>
  /\ \A w \in Workers : LET l == work[w] IN
       /\ l.at = "walk" /\ l.task.kind # "command" =>
            \A m \in ConnIds : Listed(m) /\ m < l.node => sockfd[m] # l.task.fd
       /\ l.at \in {"name", "copy", "salt", "check"} => FirstNode(l.user, l.task.fd)
       /\ l.at \in {"copy", "salt"} => name[l.user] = l.task.data
  /\ \A c, n \in ConnIds :
       IsOpen(c) /\ client[c].at \in {"salted", "answer", "in"} /\ FirstNode(n, fdOf[c])
         => name[n] = client[c].who

\* As long as no two logins are inside getspnam, each gets his own encrypted password.
OwnSecret == ~hasty /\ ~overlapped =>
  /\ \A w, v \in Workers : {work[w].at, work[v].at} \subseteq {"copy", "salt"} => w = v
  /\ \A w \in Workers : LET l == work[w] IN
       /\ l.at \in {"copy", "salt"} => spwd = l.task.data
       /\ l.at = "salt" => encrypted[l.user] = l.task.data
  /\ \A c \in ConnIds : IsOpen(c) /\ client[c].at \in {"salted", "answer"} =>
       /\ client[c].salt = client[c].who
       /\ \A n \in ConnIds : FirstNode(n, fdOf[c]) => encrypted[n] = client[c].who

\* Until the wheel has closed a connection, a node without one is that which the reactor
\* is about to delete, and get_username finds the client's and no other.
NodesAreOpen == timeouts = 0 =>
  /\ \A n \in ConnIds : memory[n] = "live" /\ ~IsOpen(n) =>
       reactor.at # "loop" /\ sockfd[n] = reactor.fd
  /\ \A n, m \in ConnIds :
       memory[n] = "live" /\ memory[m] = "live" /\ sockfd[n] = sockfd[m] => n = m
CommandsMeet == ~hasty /\ timeouts = 0 =>
  \A w \in Workers : LET l == work[w] IN
    /\ l.at \in {"start", "walk"} /\ l.task.kind = "command" =>
         /\ l.user \in {NULL, l.task.from}
         /\ l.at = "walk" /\ (l.node = NULL \/ l.node > l.task.from) => l.user = l.task.from
    /\ l.at = "run" => l.user = l.task.from

\* Together: who logs in with his password is let in and served as himself.
ServedAsHimself ==
  /\ RightPasswordPasses /\ InOwnNameAtFirst
  /\ TasksOfClients /\ LoginsMeet /\ OwnSecret /\ NodesAreOpen /\ CommandsMeet

\* Neither the workers nor the names are told apart: for the run, whose properties are
\* invariants.
Symmetry == Permutations(Workers) \cup Permutations(Names)

\* user.h:22 "the encrypted password from /etc/shadow": of the user named above it.
OwnEncrypted ==
  \A c \in ConnIds : client[c].at = "salted" /\ IsOpen(c) => encrypted[c] = name[c]
==============================================================================
