------------------------------ MODULE UsersProofs ------------------------------
(***************************************************************************)
(* The user list walked while the reactor changes it, for any number of    *)
(* workers, descriptors, names and connections.  AInv is inductive:        *)
(* InitInv, one lemma per action, NextInv.  SInv adds whose task is where  *)
(* and which node it meets: InitServed, NextServed.                        *)
(***************************************************************************)
EXTENDS Users, SequenceTheorems, WellFoundedInduction, TLAPS

\* What is assumed of the constants.
LEMMA Constants ==
  /\ Fds \subseteq Nat /\ NULL \notin Names /\ NULL \notin Nat /\ NULL \notin Fds
  /\ MaxConns \in Nat /\ MaxTasks \in Nat /\ MaxHangups \in Nat /\ MaxTimeouts \in Nat
  /\ NULL \notin ConnIds /\ ConnIds \subseteq Nat
<1>1. MaxConns \in Nat /\ MaxTasks \in Nat /\ MaxHangups \in Nat /\ MaxTimeouts \in Nat
  BY UsersAssumption
<1>2. ConnIds \subseteq Nat
  BY <1>1 DEF ConnIds
<1>. QED BY <1>1, <1>2, UsersAssumption

USE Constants DEF list, info, history, counters

\* The connections of list and walks, and the logins that are dropped.
AInv == ListInv /\ AnswersOpen

Reactors == [at : {"loop", "find", "free", "spinning"}, fd : Fds \cup {NULL},
             temp : ConnIds \cup {NULL}]

\* A set of numbers that is not empty has a lowest one, which the kernel gives out.
LEMMA Lowest ==
  ASSUME NEW T, T \subseteq Nat, T # {}
  PROVE  \E f \in T : \A g \in T : f <= g
<1>1. PICK f \in T : \A g \in T : ~ (<<g, f>> \in OpToRel(<, Nat))
  BY NatLessThanWellFounded, WFMin
<1>2. ASSUME NEW g \in T PROVE f <= g
  <2>1. f \in Nat /\ g \in Nat
    OBVIOUS
  <2>2. ~ (g < f)
    BY <1>1, <2>1 DEF OpToRel
  <2>. QED BY <2>1, <2>2
<1>. QED BY <1>2

\* The node behind a live one is live, and is not the one that is being freed.
LEMMA NextIsLive ==
  ASSUME TypeOK, ListShape, NEW n \in ConnIds, memory[n] = "live", next[n] # NULL
  PROVE  /\ next[n] \in ConnIds /\ next[n] = n + 1 /\ next[n] <= accepted
         /\ memory[next[n]] = "live" /\ next[n] # reactor.temp
<1>1. n <= accepted /\ n # accepted /\ next[n] = n + 1 /\ accepted \in Nat
  BY DEF TypeOK, ListShape
<1>2. n + 1 \in ConnIds /\ n + 1 <= accepted
  BY <1>1 DEF TypeOK, ConnIds
<1>3. CASE reactor.at = "free"
  BY <1>3, <1>1, <1>2 DEF TypeOK, ListShape
<1>4. CASE reactor.at # "free"
  BY <1>4, <1>1, <1>2 DEF TypeOK, ListShape
<1>. QED BY <1>1, <1>2, <1>3, <1>4

\* The types of what a worker's step reads.
LEMMA WorkType ==
  ASSUME TypeOK, NEW w \in Workers
  PROVE  /\ work \in [Workers -> Locals] /\ work[w] \in Locals
         /\ Labels = {"idle", "start", "walk", "name", "copy", "salt", "check", "run", "lost"}
         /\ head \in ConnIds \cup {NULL} /\ next \in [ConnIds -> ConnIds \cup {NULL}]
         /\ sockfd \in [ConnIds -> Fds \cup {NULL}]
         /\ queue \in Seq(Task)
  BY DEF TypeOK, Labels

\* Every field of a task.
LEMMA TaskType ==
  ASSUME NEW t \in Task
  PROVE  /\ t.kind \in {"login1", "login2", "command"} /\ t.fd \in Fds /\ t.from \in ConnIds
         /\ t.kind = "login1" => t.data \in Names
  BY DEF Task

LEMMA InitInv == Init => AInv
<1> SUFFICES ASSUME Init PROVE AInv
  OBVIOUS
<1>. USE DEF Init, NoTask, Loop
<1>1. TypeOK
  <2>1. /\ crashed \in BOOLEAN /\ cut \in BOOLEAN /\ hasty \in BOOLEAN
        /\ overlapped \in BOOLEAN /\ refused \in BOOLEAN
    BY Zenon
  <2>. QED BY <2>1 DEF TypeOK, Locals, Labels, Client, Secrets
<1>2. TaskAt /\ ListShape /\ WalksOnLive /\ OnlyCutWalksDie
  BY DEF TaskAt, ListShape, WalksOnLive, OnlyCutWalksDie, ConnIds
<1>3. OpenIsListed /\ WalkReaches /\ AnswersOpen
  BY DEF OpenIsListed, WalkReaches, AnswersOpen, IsOpen
<1>. QED BY <1>1, <1>2, <1>3 DEF AInv, ListInv

-------------------------------------------------------------------------------
(* The reactor *)

LEMMA AcceptInv == ASSUME AInv, Accept PROVE AInv'
<1>. USE DEF AInv, ListInv
<1>. DEFINE c == accepted + 1
            f == LowestFd
<1>1. /\ f \in FreeFds /\ f \in Fds /\ f # NULL
      /\ c \in ConnIds /\ c # NULL /\ accepted \in Nat
      /\ memory[c] = "unused" /\ fdOf[c] = NULL
      /\ \A d \in ConnIds : fdOf[d] # f
  <2>1. f \in FreeFds
    BY Lowest DEF Accept, LowestFd, FreeFds
  <2>2. c \in ConnIds /\ accepted \in Nat
    BY DEF Accept, TypeOK, ConnIds
  <2>3. memory[c] = "unused" /\ fdOf[c] = NULL
    BY <2>2 DEF ListShape, OpenIsListed, IsOpen
  <2>. QED BY <2>1, <2>2, <2>3 DEF FreeFds
<1>2. reactor.at = "loop" /\ reactor.temp = NULL /\ c = accepted'
  BY DEF Accept, ReactorAt, ListShape
<1>3. /\ fdOf' = [fdOf EXCEPT ![c] = f] /\ sockfd' = [sockfd EXCEPT ![c] = f]
      /\ memory' = [memory EXCEPT ![c] = "live"]
      /\ UNCHANGED <<name, encrypted, reactor, queue, work, spwd, crashed>>
      /\ UNCHANGED <<cut, hasty, overlapped, refused, sent, hangups, timeouts>>
  BY DEF Accept
<1>4. \/ head = NULL /\ head' = c /\ next' = next
      \/ head # NULL /\ head' = head /\ next' = [next EXCEPT ![accepted] = c]
  <2>1. CASE head = NULL
    BY <2>1 DEF Accept, appendNode
  <2>2. CASE head # NULL
    <3>1. \A d \in ConnIds : memory[d] = "live" /\ next[d] = NULL <=> d = accepted
      BY <2>2, <1>1, <1>2 DEF TypeOK, ListShape, ConnIds
    <3>2. accepted \in ConnIds
      BY <2>2, <1>1 DEF TypeOK, ListShape, ConnIds
    <3>3. LastNode = accepted
      BY <3>1, <3>2 DEF LastNode
    <3>. QED BY <2>2, <3>3 DEF Accept, appendNode
  <2>. QED BY <2>1, <2>2
<1>5. \A d \in ConnIds \ {c} : /\ fdOf'[d] = fdOf[d] /\ sockfd'[d] = sockfd[d]
                               /\ memory'[d] = memory[d]
                               /\ d # accepted => next'[d] = next[d]
  BY <1>1, <1>3, <1>4 DEF TypeOK
<1>6. /\ fdOf'[c] = f /\ sockfd'[c] = f /\ memory'[c] = "live"
      /\ next'[c] = NULL
      /\ head # NULL => accepted \in ConnIds /\ next'[accepted] = c
  <2>1. fdOf'[c] = f /\ sockfd'[c] = f /\ memory'[c] = "live"
    BY <1>1, <1>3 DEF TypeOK
  <2>2. next[c] = NULL /\ c # accepted
    BY <1>1 DEF ListShape
  <2>3. head # NULL => accepted \in ConnIds
    BY <1>1 DEF TypeOK, ListShape, ConnIds
  <2>. QED BY <2>1, <2>2, <2>3, <1>1, <1>4 DEF TypeOK
<1>7. TypeOK'
  <2>1. /\ crashed' \in BOOLEAN /\ cut' \in BOOLEAN /\ hasty' \in BOOLEAN
        /\ overlapped' \in BOOLEAN /\ refused' \in BOOLEAN
    BY <1>3, Zenon DEF TypeOK
  <2>2. client' \in [ConnIds -> Client]
    <3>1. client \in [ConnIds -> Client]
      BY DEF TypeOK
    <3>. QED BY <3>1 DEF Accept, Client
  <2>3. accepted' \in 0..MaxConns
    BY <1>1, <1>2 DEF ConnIds
  <2>4. /\ fdOf' \in [ConnIds -> Fds \cup {NULL}] /\ sockfd' \in [ConnIds -> Fds \cup {NULL}]
        /\ memory' \in [ConnIds -> {"unused", "live", "freed"}]
        /\ head' \in ConnIds \cup {NULL} /\ next' \in [ConnIds -> ConnIds \cup {NULL}]
    BY <1>1, <1>3, <1>4 DEF TypeOK
  <2>. QED BY <1>3, <2>1, <2>2, <2>3, <2>4 DEF TypeOK
<1>8. ListShape'
  <2>1. \A d \in ConnIds \ {c} : memory'[d] = "live" => head # NULL
    BY <1>2, <1>5 DEF ListShape
  <2>2. head' # NULL /\ head' <= accepted' /\ (head # NULL => head' = head)
    BY <1>1, <1>2, <1>4 DEF TypeOK, ListShape
  <2>3. ASSUME NEW d \in ConnIds
        PROVE  /\ memory'[d] = "unused" <=> d > accepted'
               /\ memory'[d] = "unused" => next'[d] = NULL
               /\ memory'[d] = "live" =>
                    /\ next'[d] = IF d = accepted' THEN NULL ELSE d + 1
                    /\ d = head' \/ d > head'
               /\ head' <= d /\ d <= accepted' => memory'[d] = "live"
    <3>1. CASE d = c
      BY <3>1, <1>1, <1>2, <1>4, <1>6, <2>2 DEF TypeOK, ListShape
    <3>2. CASE d # c /\ head = NULL
      BY <3>2, <1>1, <1>2, <1>4, <1>5, <2>1, <2>2 DEF TypeOK, ListShape
    <3>3. CASE d # c /\ head # NULL
      BY <3>3, <1>1, <1>2, <1>4, <1>5, <1>6, <2>2 DEF TypeOK, ListShape
    <3>. QED BY <3>1, <3>2, <3>3
  <2>. QED BY <1>2, <1>3, <2>2, <2>3 DEF ListShape
<1>9. WalksOnLive' /\ TaskAt' /\ OnlyCutWalksDie'
  BY <1>1, <1>2, <1>3, <1>5 DEF TypeOK, TaskAt, WalksOnLive, OnlyCutWalksDie, ListShape, ConnIds, Locals
<1>10. OpenIsListed'
  BY <1>1, <1>2, <1>3, <1>5, <1>6 DEF OpenIsListed, IsOpen
<1>11. WalkReaches' /\ AnswersOpen'
  <2>1. \A i \in 1..Len(queue) : queue[i].from \in ConnIds \ {c}
    BY TaskType, ElementOfSeq, <1>1 DEF TypeOK, WalkReaches
  <2>2. \A w \in Workers : work[w].at # "idle" => work[w].task.from \in ConnIds \ {c}
    BY TaskType, <1>1 DEF TaskAt, WalkReaches
  <2>3. \A d \in ConnIds : d <= accepted => d <= accepted'
    BY <1>1, <1>2
  <2>4. \A i \in 1..Len(queue) :
          /\ queue[i].from <= accepted'
          /\ fdOf'[queue[i].from] # NULL => queue[i].fd = fdOf'[queue[i].from]
    <3>1. SUFFICES ASSUME NEW i \in 1..Len(queue)
                   PROVE  /\ queue[i].from <= accepted'
                          /\ fdOf'[queue[i].from] # NULL => queue[i].fd = fdOf'[queue[i].from]
      OBVIOUS
    <3>2. fdOf'[queue[i].from] = fdOf[queue[i].from] /\ queue[i].from \in ConnIds
      BY <1>5, <2>1
    <3>3. /\ queue[i].from <= accepted
          /\ fdOf[queue[i].from] # NULL => queue[i].fd = fdOf[queue[i].from]
      BY DEF WalkReaches, IsOpen
    <3>. QED BY <2>3, <3>2, <3>3
  <2>5. \A w \in Workers : work[w].at # "idle" =>
          /\ work[w].task.from <= accepted'
          /\ fdOf'[work[w].task.from] # NULL =>
               /\ work[w].task.fd = fdOf'[work[w].task.from]
               /\ work[w].at = "walk" /\ work[w].task.kind # "command" =>
                    work[w].node # NULL /\ work[w].node <= work[w].task.from
    <3>1. SUFFICES ASSUME NEW w \in Workers, work[w].at # "idle"
                   PROVE  /\ work[w].task.from <= accepted'
                          /\ fdOf'[work[w].task.from] # NULL =>
                               /\ work[w].task.fd = fdOf'[work[w].task.from]
                               /\ work[w].at = "walk" /\ work[w].task.kind # "command" =>
                                    work[w].node # NULL /\ work[w].node <= work[w].task.from
      OBVIOUS
    <3>2. fdOf'[work[w].task.from] = fdOf[work[w].task.from] /\ work[w].task.from \in ConnIds
      BY <1>5, <2>2, <3>1
    <3>3. /\ work[w].task.from <= accepted
          /\ fdOf[work[w].task.from] # NULL =>
               /\ work[w].task.fd = fdOf[work[w].task.from]
               /\ work[w].at = "walk" /\ work[w].task.kind # "command" =>
                    work[w].node # NULL /\ work[w].node <= work[w].task.from
      BY <3>1 DEF WalkReaches, IsOpen
    <3>. QED BY <2>3, <3>2, <3>3
  <2>6. WalkReaches'
    BY <1>3, <2>4, <2>5 DEF WalkReaches, IsOpen
  <2>7. AnswersOpen'
    BY <1>3, <1>5, <2>2 DEF AnswersOpen, IsOpen
  <2>. QED BY <2>6, <2>7
<1>. QED BY <1>7, <1>8, <1>9, <1>10, <1>11

LEMMA UnlinkInv == ASSUME AInv, Unlink PROVE AInv'
<1>. USE DEF AInv, ListInv, Unlink, ReactorAt
<1>1. head \in ConnIds /\ memory[head] = "live" /\ reactor.at = "find" /\ reactor.temp = NULL
  BY DEF TypeOK, ListShape
<1>2. next[head] # NULL => next[head] \in ConnIds /\ next[head] = head + 1 /\ next[head] <= accepted
  BY <1>1, NextIsLive
<1>3. reactor' \in Reactors /\ reactor'.at = "free" /\ reactor'.temp = head /\ reactor'.fd = reactor.fd
  BY <1>1 DEF TypeOK, Reactors
<1>4. TypeOK'
  <2>1. /\ crashed' \in BOOLEAN /\ cut' \in BOOLEAN /\ hasty' \in BOOLEAN
        /\ overlapped' \in BOOLEAN /\ refused' \in BOOLEAN
    BY Zenon DEF TypeOK
  <2>. QED BY <2>1, <1>1, <1>3 DEF TypeOK, Reactors
<1>5. ListShape'
  <2>1. \A d \in ConnIds : memory[d] = "live" => d = head \/ d > head
    BY <1>1 DEF TypeOK, ListShape
  <2>2. next[head] = NULL => head = accepted
    BY <1>1 DEF TypeOK, ListShape
  <2>3. ASSUME NEW d \in ConnIds, memory[d] = "live", d # head
        PROVE  next[head] # NULL /\ (d = next[head] \/ d > next[head])
    <3>1. d > head /\ d <= accepted /\ accepted \in Nat
      BY <2>1, <2>3 DEF TypeOK, ListShape
    <3>. QED BY <3>1, <2>2, <1>1, <1>2
  <2>. QED BY <1>1, <1>2, <1>3, <2>1, <2>2, <2>3 DEF TypeOK, ListShape
<1>6. TaskAt' /\ WalksOnLive' /\ OpenIsListed' /\ WalkReaches'
  <2>1. TaskAt' /\ WalkReaches'
    BY DEF TaskAt, WalkReaches, IsOpen
  <2>2. OpenIsListed'
    BY <1>1, <1>3 DEF TypeOK, OpenIsListed, IsOpen
  <2>3. ASSUME NEW w \in Workers, work[w].node # NULL
        PROVE  /\ work[w].node <= accepted
               /\ memory[work[w].node] = "freed" => cut'
               /\ work[w].node = head => cut'
    BY <2>3 DEF WalksOnLive
  <2>4. WalksOnLive'
    BY <1>3, <2>3 DEF WalksOnLive
  <2>. QED BY <2>1, <2>2, <2>4
<1>7. OnlyCutWalksDie' /\ AnswersOpen'
  BY DEF OnlyCutWalksDie, AnswersOpen, IsOpen
<1>. QED BY <1>4, <1>5, <1>6, <1>7

LEMMA FreeInv == ASSUME AInv, Free PROVE AInv'
<1>. USE DEF AInv, ListInv, Free, ReactorAt, Loop
<1>1. /\ reactor.temp \in ConnIds /\ memory[reactor.temp] = "live"
      /\ head = next[reactor.temp] /\ sockfd[reactor.temp] = reactor.fd
  BY DEF TypeOK, ListShape
<1>2. head # reactor.temp /\ head' = head
  BY <1>1, NextIsLive
<1>3. TypeOK'
  <2>1. /\ crashed' \in BOOLEAN /\ cut' \in BOOLEAN /\ hasty' \in BOOLEAN
        /\ overlapped' \in BOOLEAN /\ refused' \in BOOLEAN
    BY Zenon DEF TypeOK
  <2>2. reactor' \in Reactors
    BY DEF Reactors
  <2>. QED BY <2>1, <2>2, <1>1, <1>2 DEF TypeOK, Reactors
<1>4. ListShape'
  <2>1. head # NULL => head = reactor.temp + 1
    BY <1>1, NextIsLive
  <2>. QED BY <1>1, <1>2, <2>1 DEF TypeOK, ListShape
<1>5. WalksOnLive'
  BY <1>1 DEF TypeOK, WalksOnLive, ListShape
<1>6. OpenIsListed'
  <2>1. ~IsOpen(reactor.temp)
    BY <1>1 DEF OpenIsListed, IsOpen
  <2>. QED BY <2>1, <1>1 DEF TypeOK, OpenIsListed, IsOpen
<1>7. TaskAt' /\ WalkReaches' /\ OnlyCutWalksDie' /\ AnswersOpen'
  BY DEF TypeOK, TaskAt, WalkReaches, OnlyCutWalksDie, AnswersOpen, IsOpen
<1>. QED BY <1>3, <1>4, <1>5, <1>6, <1>7

LEMMA SpinInv == ASSUME AInv, Spin PROVE AInv'
<1>. USE DEF AInv, ListInv, Spin, ReactorAt
<1>1. TypeOK'
  <2>1. /\ crashed' \in BOOLEAN /\ cut' \in BOOLEAN /\ hasty' \in BOOLEAN
        /\ overlapped' \in BOOLEAN /\ refused' \in BOOLEAN
    BY Zenon DEF TypeOK
  <2>. QED BY <2>1 DEF TypeOK
<1>2. TaskAt' /\ ListShape' /\ WalksOnLive' /\ OpenIsListed'
  BY DEF TypeOK, TaskAt, ListShape, WalksOnLive, OpenIsListed, IsOpen
<1>3. WalkReaches' /\ OnlyCutWalksDie' /\ AnswersOpen'
  BY DEF TypeOK, WalkReaches, OnlyCutWalksDie, AnswersOpen, IsOpen
<1>. QED BY <1>1, <1>2, <1>3

\* What a client sends becomes a task at the end of the queue.
LEMMA MessageInv ==
  ASSUME AInv, NEW c \in ConnIds, NEW kind, NEW data, NEW at, Message(c, kind, data, at),
         at \in {"salt", "answer", "in"}, data \in Names \/ kind # "login1",
         [kind |-> kind, fd |-> fdOf[c], data |-> data, from |-> c] \in Task
  PROVE  AInv'
<1>. USE DEF AInv, ListInv
<1>. DEFINE t == [kind |-> kind, fd |-> fdOf[c], data |-> data, from |-> c]
<1>1. /\ queue \in Seq(Task) /\ queue' = Append(queue, t) /\ t \in Task
      /\ t.from = c /\ t.fd = fdOf[c]
  BY DEF Message, TypeOK
<1>2. /\ UNCHANGED <<fdOf, head, next, sockfd, memory, name, encrypted, reactor, work, spwd>>
      /\ UNCHANGED <<crashed, cut, hasty, overlapped, refused, accepted, hangups, timeouts>>
      /\ sent' = sent + 1
  BY DEF Message
<1>3. TypeOK'
  <2>1. queue' \in Seq(Task)
    BY <1>1, AppendProperties
  <2>2. client' \in [ConnIds -> Client]
    <3>1. client \in [ConnIds -> Client] /\ client[c] \in Client /\ client[c].who \in Secrets
      BY DEF TypeOK, Client
    <3>2. (IF kind = "login1" THEN data ELSE client[c].who) \in Secrets
      BY <3>1 DEF Secrets
    <3>3. CASE kind = "login1"
      BY <3>1, <3>2, <3>3 DEF Message, Client
    <3>4. CASE kind # "login1"
      BY <3>1, <3>2, <3>4 DEF Message, Client
    <3>. QED BY <3>3, <3>4
  <2>3. /\ crashed' \in BOOLEAN /\ cut' \in BOOLEAN /\ hasty' \in BOOLEAN
        /\ overlapped' \in BOOLEAN /\ refused' \in BOOLEAN
    BY <1>2, Zenon DEF TypeOK
  <2>. QED BY <1>2, <2>1, <2>2, <2>3 DEF TypeOK
<1>4. TaskAt' /\ ListShape' /\ WalksOnLive' /\ OpenIsListed' /\ OnlyCutWalksDie' /\ AnswersOpen'
  BY <1>2 DEF TaskAt, ListShape, WalksOnLive, OpenIsListed, OnlyCutWalksDie, AnswersOpen, IsOpen
<1>5. WalkReaches'
  <2>1. /\ Len(queue') = Len(queue) + 1 /\ Len(queue) \in Nat
        /\ \A i \in 1..Len(queue) : queue'[i] = queue[i]
        /\ queue'[Len(queue) + 1] = t
    BY <1>1, AppendProperties
  <2>2. c <= accepted
    BY DEF Message, OpenIsListed, ListShape, TypeOK
  <2>. QED BY <2>1, <2>2, <1>1, <1>2 DEF WalkReaches, IsOpen
<1>. QED BY <1>3, <1>4, <1>5

LEMMA HandleMessageInv == ASSUME AInv, NEW c \in ConnIds, HandleMessage(c) PROVE AInv'
<1>1. fdOf[c] \in Fds /\ client[c] \in Client
  BY DEF AInv, ListInv, TypeOK, HandleMessage, Message, IsOpen
<1>2. CASE \E n \in Names : Message(c, "login1", n, "salt")
  <2>1. PICK n \in Names : Message(c, "login1", n, "salt")
    BY <1>2
  <2>2. [kind |-> "login1", fd |-> fdOf[c], data |-> n, from |-> c] \in Task
    BY <1>1 DEF Task
  <2>. QED BY <2>1, <2>2, MessageInv
<1>3. CASE Message(c, "login2", <<client[c].who, client[c].salt>>, "answer")
  <2>1. [kind |-> "login2", fd |-> fdOf[c], data |-> <<client[c].who, client[c].salt>>,
         from |-> c] \in Task
    BY <1>1 DEF Task, Client
  <2>. QED BY <1>3, <2>1, MessageInv
<1>4. CASE Message(c, "command", NULL, "in")
  <2>1. [kind |-> "command", fd |-> fdOf[c], data |-> NULL, from |-> c] \in Task
    BY <1>1 DEF Task
  <2>. QED BY <1>4, <2>1, MessageInv
<1>. QED BY <1>2, <1>3, <1>4 DEF HandleMessage

\* A connection is closed, by its client or by the wheel.
LEMMA CloseType ==
  ASSUME TypeOK, NEW c \in ConnIds, fdOf' = [fdOf EXCEPT ![c] = NULL],
         client' = [client EXCEPT ![c].at = "away"]
  PROVE  fdOf' \in [ConnIds -> Fds \cup {NULL}] /\ client' \in [ConnIds -> Client]
<1>1. client \in [ConnIds -> Client] /\ fdOf \in [ConnIds -> Fds \cup {NULL}]
  BY DEF TypeOK
<1>. QED BY <1>1 DEF Client

LEMMA HangupInv == ASSUME AInv, NEW c \in ConnIds, Hangup(c) PROVE AInv'
<1>. USE DEF AInv, ListInv, Hangup, ReactorAt
<1>1. fdOf[c] \in Fds /\ reactor' \in Reactors /\ reactor.temp = NULL
  BY DEF TypeOK, IsOpen, Reactors, ListShape
<1>2. TypeOK'
  <2>1. /\ crashed' \in BOOLEAN /\ cut' \in BOOLEAN /\ hasty' \in BOOLEAN
        /\ overlapped' \in BOOLEAN /\ refused' \in BOOLEAN
    BY Zenon DEF TypeOK
  <2>2. fdOf' \in [ConnIds -> Fds \cup {NULL}] /\ client' \in [ConnIds -> Client]
    BY CloseType
  <2>. QED BY <1>1, <2>1, <2>2 DEF TypeOK, Reactors
<1>3. TaskAt' /\ ListShape' /\ WalksOnLive' /\ OnlyCutWalksDie'
  BY <1>1 DEF TypeOK, TaskAt, ListShape, WalksOnLive, OnlyCutWalksDie
<1>4. \A d \in ConnIds : fdOf'[d] # NULL => d # c /\ fdOf'[d] = fdOf[d]
  BY DEF TypeOK
<1>5. OpenIsListed'
  <2>1. \A d \in ConnIds : IsOpen(d)' => d # c /\ IsOpen(d) /\ fdOf'[d] = fdOf[d]
    BY <1>4 DEF IsOpen
  <2>2. reactor'.fd = fdOf[c] /\ UNCHANGED <<memory, sockfd>> /\ IsOpen(c)
    BY DEF list
  <2>3. \A d \in ConnIds : IsOpen(d) =>
           /\ memory[d] = "live" /\ sockfd[d] = fdOf[d]
           /\ \A e \in ConnIds : IsOpen(e) /\ fdOf[d] = fdOf[e] => d = e
    BY DEF OpenIsListed
  <2>4. \A d, e \in ConnIds : IsOpen(d)' /\ fdOf'[d] = fdOf'[e] /\ IsOpen(e)' => d = e
    BY <2>1, <2>3
  <2>5. \A d \in ConnIds : IsOpen(d)' =>
           memory'[d] = "live" /\ sockfd'[d] = fdOf'[d] /\ fdOf'[d] # reactor'.fd
    BY <2>1, <2>2, <2>3
  <2>. QED BY <2>4, <2>5 DEF OpenIsListed, IsOpen
<1>6. AnswersOpen'
  <2>1. \A w \in Workers : work[w].at = "lost" => work[w].task.from \in ConnIds
    BY TaskType DEF TaskAt
  <2>. QED BY <1>4, <2>1 DEF AnswersOpen, IsOpen
<1>7. WalkReaches'
  <2>1. \A i \in 1..Len(queue) : queue[i].from \in ConnIds
    BY TaskType, ElementOfSeq DEF TypeOK
  <2>2. \A w \in Workers : work[w].at # "idle" => work[w].task.from \in ConnIds
    BY TaskType DEF TaskAt
  <2>. QED BY <1>4, <2>1, <2>2 DEF WalkReaches, IsOpen
<1>. QED BY <1>2, <1>3, <1>5, <1>6, <1>7

LEMMA TimeoutCloseInv == ASSUME AInv, NEW c \in ConnIds, TimeoutClose(c) PROVE AInv'
<1>. USE DEF AInv, ListInv, TimeoutClose, ReactorAt
<1>1. TypeOK'
  <2>1. /\ crashed' \in BOOLEAN /\ cut' \in BOOLEAN /\ hasty' \in BOOLEAN
        /\ overlapped' \in BOOLEAN /\ refused' \in BOOLEAN
    BY Zenon DEF TypeOK
  <2>2. fdOf' \in [ConnIds -> Fds \cup {NULL}] /\ client' \in [ConnIds -> Client]
    BY CloseType
  <2>3. sent' \in Nat /\ hangups' \in Nat /\ timeouts' \in Nat
    BY DEF TypeOK
  <2>4. UNCHANGED <<list, info, reactor, queue, work, spwd, accepted>>
    OBVIOUS
  <2>. QED BY <2>1, <2>2, <2>3, <2>4 DEF TypeOK, list, info
<1>2. TaskAt' /\ ListShape' /\ WalksOnLive' /\ OnlyCutWalksDie'
  BY DEF TypeOK, TaskAt, ListShape, WalksOnLive, OnlyCutWalksDie
<1>3. \A d \in ConnIds : fdOf'[d] # NULL => d # c /\ fdOf'[d] = fdOf[d]
  BY DEF TypeOK
<1>4. OpenIsListed'
  BY <1>3 DEF OpenIsListed, IsOpen
<1>5. AnswersOpen'
  <2>1. \A w \in Workers : work[w].at = "lost" => work[w].task.from \in ConnIds
    BY TaskType DEF TaskAt
  <2>. QED BY <1>3, <2>1 DEF AnswersOpen, IsOpen
<1>6. WalkReaches'
  <2>1. \A i \in 1..Len(queue) : queue[i].from \in ConnIds
    BY TaskType, ElementOfSeq DEF TypeOK
  <2>2. \A w \in Workers : work[w].at # "idle" => work[w].task.from \in ConnIds
    BY TaskType DEF TaskAt
  <2>. QED BY <1>3, <2>1, <2>2 DEF WalkReaches, IsOpen
<1>. QED BY <1>1, <1>2, <1>4, <1>5, <1>6

-------------------------------------------------------------------------------
(* The workers *)

LEMMA DequeInv == ASSUME AInv, NEW w \in Workers, Deque(w) PROVE AInv'
<1>. USE DEF AInv, ListInv, Deque, On
<1>1. /\ Head(queue) \in Task /\ Tail(queue) \in Seq(Task) /\ Len(queue) \in Nat
      /\ Len(Tail(queue)) = Len(queue) - 1 /\ Head(queue) = queue[1] /\ 1 \in 1..Len(queue)
      /\ \A i \in 1..Len(Tail(queue)) : Tail(queue)[i] = queue[i + 1]
  <2>1. queue \in Seq(Task) /\ queue # <<>>
    BY DEF TypeOK
  <2>. QED BY <2>1, HeadTailProperties
<1>2. work' = [work EXCEPT ![w] = [task |-> Head(queue), at |-> "start", node |-> NULL, user |-> NULL]]
  OBVIOUS
<1>3. TypeOK'
  <2>1. work' \in [Workers -> Locals]
    BY <1>1, <1>2, WorkType DEF Locals
  <2>2. /\ crashed' \in BOOLEAN /\ cut' \in BOOLEAN /\ hasty' \in BOOLEAN
        /\ overlapped' \in BOOLEAN /\ refused' \in BOOLEAN
    BY Zenon DEF TypeOK
  <2>. QED BY <1>1, <2>1, <2>2 DEF TypeOK
<1>4. \A v \in Workers : work'[v] = IF v = w THEN [task |-> queue[1], at |-> "start", node |-> NULL, user |-> NULL]
                                    ELSE work[v]
  BY <1>1, <1>2, WorkType
<1>5. TaskAt' /\ WalksOnLive' /\ OnlyCutWalksDie' /\ AnswersOpen'
  BY <1>1, <1>4 DEF TaskAt, WalksOnLive, OnlyCutWalksDie, AnswersOpen, IsOpen
<1>6. ListShape' /\ OpenIsListed'
  BY DEF ListShape, OpenIsListed, IsOpen
<1>7. WalkReaches'
  <2>1. \A i \in 1..Len(queue') : queue'[i] = queue[i + 1] /\ i + 1 \in 1..Len(queue)
    BY <1>1
  <2>2. UNCHANGED <<fdOf, accepted>>
    OBVIOUS
  <2>. QED BY <1>1, <1>4, <2>1, <2>2 DEF WalkReaches, IsOpen
<1>. QED BY <1>3, <1>5, <1>6, <1>7

\* A step that changes nothing but what a worker knows of its task, which it keeps,
\* and leads to a live node or none.
LEMMA WorkerMoves ==
  ASSUME AInv, NEW w \in Workers, NEW l \in Locals, work' = [work EXCEPT ![w] = l],
         UNCHANGED <<fdOf, list, reactor, queue, accepted, crashed, cut, hasty, sent>>,
         UNCHANGED <<hangups, timeouts>>, work[w].at # "idle",
         (l.task = work[w].task /\ l.task \in Task) \/ l.at = "idle",
         l.at \in {"name", "copy", "salt", "check", "run"} => l.task.kind =
           (IF l.at = "check" THEN "login2" ELSE IF l.at = "run" THEN "command" ELSE "login1"),
         l.at \in {"name", "copy", "salt", "check"} => l.user # NULL,
         l.at # "walk" => l.node = NULL,
         l.node # NULL => l.node <= accepted /\ memory[l.node] = "live" /\ l.node # reactor.temp,
         l.at = "walk" /\ l.task.kind # "command" /\ IsOpen(l.task.from) =>
           l.node # NULL /\ l.node <= l.task.from,
         l.at = "lost" => ~IsOpen(l.task.from)
  PROVE  /\ work' \in [Workers -> Locals] /\ TaskAt' /\ ListShape' /\ WalksOnLive'
         /\ OpenIsListed' /\ WalkReaches' /\ OnlyCutWalksDie' /\ AnswersOpen'
<1>. USE DEF AInv, ListInv
<1>1. work' \in [Workers -> Locals] /\ \A v \in Workers : work'[v] = IF v = w THEN l ELSE work[v]
  BY WorkType
<1>2. TaskAt' /\ OnlyCutWalksDie' /\ AnswersOpen'
  BY <1>1 DEF TaskAt, OnlyCutWalksDie, AnswersOpen, IsOpen
<1>3. ListShape' /\ OpenIsListed'
  BY DEF ListShape, OpenIsListed, IsOpen
<1>4. WalksOnLive'
  BY <1>1 DEF WalksOnLive
<1>5. WalkReaches'
  BY <1>1 DEF WalkReaches, IsOpen
<1>. QED BY <1>1, <1>2, <1>3, <1>4, <1>5

\* A worker's step keeps the types, when it keeps the list and the reactor.
LEMMA WorkerTypes ==
  ASSUME TypeOK, work' \in [Workers -> Locals], client' \in [ConnIds -> Client],
         name' \in [ConnIds -> Secrets], encrypted' \in [ConnIds -> Secrets], spwd' \in Secrets,
         crashed' \in BOOLEAN, overlapped' \in BOOLEAN, refused' \in BOOLEAN,
         UNCHANGED <<fdOf, list, reactor, queue, counters, cut, hasty>>
  PROVE  TypeOK'
<1>1. cut' \in BOOLEAN /\ hasty' \in BOOLEAN
  BY Zenon DEF TypeOK
<1>. QED BY <1>1 DEF TypeOK

\* The same for a step that changes nothing else.
LEMMA OnlyWorkerMoves ==
  ASSUME AInv, NEW w \in Workers, NEW l \in Locals, work' = [work EXCEPT ![w] = l],
         UNCHANGED <<fdOf, list, info, reactor, client, queue, spwd, crashed, history, counters>>,
         work[w].at # "idle",
         (l.task = work[w].task /\ l.task \in Task) \/ l.at = "idle",
         l.at \in {"name", "copy", "salt", "check", "run"} => l.task.kind =
           (IF l.at = "check" THEN "login2" ELSE IF l.at = "run" THEN "command" ELSE "login1"),
         l.at \in {"name", "copy", "salt", "check"} => l.user # NULL,
         l.at # "walk" => l.node = NULL,
         l.node # NULL => l.node <= accepted /\ memory[l.node] = "live" /\ l.node # reactor.temp,
         l.at = "walk" /\ l.task.kind # "command" /\ IsOpen(l.task.from) =>
           l.node # NULL /\ l.node <= l.task.from,
         l.at = "lost" => ~IsOpen(l.task.from)
  PROVE  AInv'
<1>1. /\ work' \in [Workers -> Locals] /\ TaskAt' /\ ListShape' /\ WalksOnLive'
      /\ OpenIsListed' /\ WalkReaches' /\ OnlyCutWalksDie' /\ AnswersOpen'
  BY WorkerMoves
<1>2. TypeOK'
  <2>1. crashed' \in BOOLEAN /\ overlapped' \in BOOLEAN /\ refused' \in BOOLEAN
    BY Zenon DEF AInv, ListInv, TypeOK
  <2>. QED BY <1>1, <2>1, WorkerTypes DEF AInv, ListInv, TypeOK
<1>. QED BY <1>1, <1>2 DEF AInv, ListInv

LEMMA WalkStartInv == ASSUME AInv, NEW w \in Workers, WalkStart(w) PROVE AInv'
<1>. DEFINE l == [work[w] EXCEPT !.at = "walk", !.node = head]
<1>1. l \in Locals /\ work[w] \in Locals /\ work' = [work EXCEPT ![w] = l] /\ work[w].at = "start"
  BY WorkType DEF AInv, ListInv, WalkStart, On, Locals
<1>2. /\ l.task = work[w].task /\ l.task \in Task /\ l.at = "walk" /\ l.node = head
      /\ l.task.from \in ConnIds
  BY <1>1, TaskType DEF AInv, ListInv, TaskAt, Locals
<1>3. l.node # NULL => l.node <= accepted /\ memory[l.node] = "live" /\ l.node # reactor.temp
  BY <1>2, NextIsLive DEF AInv, ListInv, TypeOK, ListShape
<1>4. IsOpen(l.task.from) => l.node # NULL /\ l.node <= l.task.from
  <2>1. SUFFICES ASSUME IsOpen(l.task.from)
                 PROVE  head # NULL /\ head <= l.task.from
    BY <1>2
  <2>2. /\ memory[l.task.from] = "live" /\ sockfd[l.task.from] = fdOf[l.task.from]
        /\ reactor.at = "free" => l.task.from # reactor.temp
    BY <1>2, <2>1 DEF AInv, ListInv, OpenIsListed, ListShape
  <2>3. l.task.from # reactor.temp
    BY <1>2, <2>2 DEF AInv, ListInv, ListShape
  <2>4. head # NULL /\ (l.task.from = head \/ l.task.from > head)
    BY <1>2, <2>2, <2>3 DEF AInv, ListInv, ListShape
  <2>5. head \in Nat /\ l.task.from \in Nat
    BY <1>2, <2>4 DEF AInv, ListInv, TypeOK
  <2>. QED BY <2>4, <2>5
<1>. HIDE DEF l
<1>. QED BY <1>1, <1>2, <1>3, <1>4, OnlyWorkerMoves DEF WalkStart

\* A node that a walk reads.
LEMMA WalkNode ==
  ASSUME AInv, NEW w \in Workers, work[w].at = "walk", work[w].node # NULL,
         memory[work[w].node] = "live"
  PROVE  /\ work[w] \in Locals /\ work[w].task \in Task /\ work[w].task.from \in ConnIds
         /\ work[w].node \in ConnIds
         /\ next[work[w].node] \in ConnIds \cup {NULL}
         /\ next[work[w].node] # NULL =>
              /\ next[work[w].node] <= accepted /\ memory[next[work[w].node]] = "live"
              /\ next[work[w].node] # reactor.temp
<1>1. work[w] \in Locals /\ work[w].task \in Task /\ work[w].node \in ConnIds
  BY WorkType DEF AInv, ListInv, TaskAt, Locals
<1>. QED BY <1>1, TaskType, NextIsLive DEF AInv, ListInv, TypeOK

LEMMA WalkFreedInv == ASSUME AInv, NEW w \in Workers, WalkFreed(w) PROVE AInv'
<1>. USE DEF AInv, ListInv, WalkFreed, On
<1>1. cut
  BY WorkType DEF WalksOnLive, Locals
<1>2. TypeOK'
  <2>1. overlapped' \in BOOLEAN /\ refused' \in BOOLEAN
    BY Zenon DEF TypeOK
  <2>2. crashed' \in BOOLEAN
    BY Zenon
  <2>. QED BY <2>1, <2>2, WorkerTypes DEF TypeOK
<1>3. TaskAt' /\ ListShape' /\ WalksOnLive' /\ OpenIsListed' /\ WalkReaches' /\ AnswersOpen'
  BY DEF TaskAt, ListShape, WalksOnLive, OpenIsListed, WalkReaches, AnswersOpen, IsOpen
<1>. QED BY <1>1, <1>2, <1>3 DEF OnlyCutWalksDie

LEMMA WalkLoginInv == ASSUME AInv, NEW w \in Workers, WalkLogin(w) PROVE AInv'
<1>. DEFINE node == work[w].node
            l == IF sockfd[node] = work[w].task.fd
                 THEN [work[w] EXCEPT !.node = NULL, !.user = node,
                                      !.at = IF Kind(w) = "login1" THEN "name" ELSE "check"]
                 ELSE [work[w] EXCEPT !.node = next[node]]
<1>1. /\ work[w].at = "walk" /\ node # NULL /\ memory[node] = "live"
      /\ work[w].task.kind # "command" /\ work' = [work EXCEPT ![w] = l]
  BY WorkType DEF AInv, ListInv, WalkLogin, On, Kind
<1>2. /\ work[w] \in Locals /\ work[w].task \in Task /\ work[w].task.from \in ConnIds
      /\ node \in ConnIds /\ next[node] \in ConnIds \cup {NULL}
      /\ work[w].task.kind \in {"login1", "login2"}
  BY <1>1, WalkNode, TaskType
<1>3. l \in Locals /\ l.task = work[w].task /\ l.task \in Task
  BY <1>1, <1>2 DEF Locals, Labels
<1>4. CASE sockfd[node] = work[w].task.fd
  <2>1. /\ l.node = NULL /\ l.user = node /\ node # NULL
        /\ l.at = IF work[w].task.kind = "login1" THEN "name" ELSE "check"
    BY <1>1, <1>2, <1>4 DEF Kind, Locals
  <2>. HIDE DEF l
  <2>. QED BY <1>1, <1>2, <1>3, <2>1, OnlyWorkerMoves DEF WalkLogin
<1>5. CASE sockfd[node] # work[w].task.fd
  <2>1. /\ l.at = "walk" /\ l.node = next[node]
        /\ l.node # NULL => l.node = node + 1 /\ l.node <= accepted /\ memory[l.node] = "live"
                            /\ l.node # reactor.temp
    BY <1>1, <1>2, <1>5, WalkNode, NextIsLive DEF AInv, ListInv, Locals
  <2>2. ASSUME IsOpen(work[w].task.from)
        PROVE  l.node # NULL /\ l.node <= work[w].task.from
    <3>1. node <= work[w].task.from /\ node # work[w].task.from
      BY <1>1, <1>2, <1>5, <2>2 DEF AInv, ListInv, WalkReaches, OpenIsListed
    <3>2. /\ work[w].task.from <= accepted /\ node \in Nat /\ accepted \in Nat
          /\ work[w].task.from \in Nat
      BY <1>1, <1>2 DEF AInv, ListInv, WalkReaches, TypeOK
    <3>3. next[node] = node + 1
      BY <3>1, <3>2, <1>1, <1>2 DEF AInv, ListInv, ListShape
    <3>. QED BY <2>1, <3>1, <3>2, <3>3
  <2>. HIDE DEF l
  <2>. QED BY <1>1, <1>2, <1>3, <2>1, <2>2, OnlyWorkerMoves DEF WalkLogin
<1>. QED BY <1>4, <1>5

LEMMA WalkNameInv == ASSUME AInv, NEW w \in Workers, WalkName(w) PROVE AInv'
<1>. DEFINE node == work[w].node
            l == [work[w] EXCEPT !.node = next[node],
                    !.user = IF sockfd[node] = work[w].task.fd THEN node ELSE work[w].user]
<1>1. /\ work[w].at = "walk" /\ node # NULL /\ memory[node] = "live"
      /\ work[w].task.kind = "command"
  BY DEF WalkName, On, Kind
<1>2. /\ work[w] \in Locals /\ work[w].task \in Task /\ node \in ConnIds
      /\ next[node] \in ConnIds \cup {NULL}
      /\ next[node] # NULL => /\ next[node] <= accepted /\ memory[next[node]] = "live"
                              /\ next[node] # reactor.temp
  BY <1>1, WalkNode
<1>3. work' = [work EXCEPT ![w] = l]
  BY <1>2, WorkType DEF WalkName, AInv, ListInv, Locals
<1>4. /\ l \in Locals /\ l.task = work[w].task /\ l.at = "walk" /\ l.node = next[node]
  BY <1>1, <1>2 DEF Locals
<1>5. UNCHANGED <<fdOf, list, info, reactor, client, queue, spwd, crashed, history, counters>>
  BY DEF WalkName
<1>. HIDE DEF l, node
<1>6. l.node # NULL => l.node <= accepted /\ memory[l.node] = "live" /\ l.node # reactor.temp
  BY <1>2, <1>4
<1>7. work[w].at # "idle" /\ l.task.kind = "command"
  BY <1>1, <1>4
<1>. QED BY <1>2, <1>3, <1>4, <1>5, <1>6, <1>7, OnlyWorkerMoves

LEMMA WalkEndInv == ASSUME AInv, NEW w \in Workers, WalkEnd(w) PROVE AInv'
<1>. DEFINE l == [work[w] EXCEPT !.at = IF Kind(w) = "command" THEN "run" ELSE "lost"]
<1>1. work[w].at = "walk" /\ work[w].node = NULL /\ work' = [work EXCEPT ![w] = l]
  BY WorkType DEF AInv, ListInv, WalkEnd, On, Goto
<1>2. work[w] \in Locals /\ work[w].task \in Task
  BY <1>1, WorkType DEF AInv, ListInv, TaskAt
<1>3. /\ l \in Locals /\ l.task = work[w].task /\ l.node = NULL
      /\ l.at = IF work[w].task.kind = "command" THEN "run" ELSE "lost"
  BY <1>1, <1>2 DEF Locals, Labels, Kind
<1>4. l.at = "lost" => ~IsOpen(l.task.from)
  BY <1>1, <1>3 DEF AInv, ListInv, WalkReaches
<1>. HIDE DEF l
<1>. QED BY <1>1, <1>2, <1>3, <1>4, OnlyWorkerMoves DEF WalkEnd

LEMMA TaskEndInv == ASSUME AInv, NEW w \in Workers, TaskEnd(w) PROVE AInv'
<1>1. NoTask \in Locals /\ NoTask.at = "idle" /\ NoTask.node = NULL
  BY DEF NoTask, Locals, Labels
<1>. QED BY <1>1, OnlyWorkerMoves DEF TaskEnd, On, Ends

\* A login goes on to its next statement, or ends.
LEMMA LoginMoves ==
  ASSUME AInv, NEW w \in Workers, NEW a \in Labels, work[w].at \in {"name", "copy", "salt", "check"},
         \/ work[w].at \in {"name", "copy"} /\ a \in {"copy", "salt"} /\ Goto(w, a)
         \/ Ends(w),
         UNCHANGED <<fdOf, list, reactor, queue, counters, crashed, cut, hasty>>,
         client' \in [ConnIds -> Client],
         name' \in [ConnIds -> Secrets], encrypted' \in [ConnIds -> Secrets], spwd' \in Secrets,
         overlapped' \in BOOLEAN, refused' \in BOOLEAN
  PROVE  AInv'
<1>1. work[w] \in Locals /\ work[w].task \in Task
  BY WorkType DEF AInv, ListInv, TaskAt
<1>. DEFINE l == IF Ends(w) THEN NoTask ELSE [work[w] EXCEPT !.at = a]
<1>2. l \in Locals /\ work' = [work EXCEPT ![w] = l]
  <2>1. NoTask \in Locals
    BY DEF NoTask, Locals, Labels
  <2>2. [work[w] EXCEPT !.at = a] \in Locals
    BY <1>1 DEF Locals
  <2>. QED BY <2>1, <2>2 DEF Ends, Goto
<1>3. /\ l.node = NULL
      /\ \/ l.at = "idle"
         \/ /\ l.at \in {"copy", "salt"} /\ l.task = work[w].task /\ l.task \in Task
            /\ l.task.kind = "login1" /\ l.user # NULL
  <2>1. CASE Ends(w)
    BY <2>1 DEF NoTask
  <2>2. CASE ~Ends(w)
    BY <1>1, <2>2 DEF AInv, ListInv, TaskAt, Locals
  <2>. QED BY <2>1, <2>2
<1>. HIDE DEF l
<1>4. /\ work' \in [Workers -> Locals] /\ TaskAt' /\ ListShape' /\ WalksOnLive'
      /\ OpenIsListed' /\ WalkReaches' /\ OnlyCutWalksDie' /\ AnswersOpen'
  BY <1>2, <1>3, WorkerMoves
<1>5. TypeOK'
  <2>1. crashed' \in BOOLEAN
    BY Zenon DEF AInv, ListInv, TypeOK
  <2>. QED BY <1>4, <2>1, WorkerTypes DEF AInv, ListInv
<1>. QED BY <1>4, <1>5 DEF AInv, ListInv

LEMMA LoginNameInv == ASSUME AInv, NEW w \in Workers, LoginName(w) PROVE AInv'
<1>1. work[w].at = "name" /\ "copy" \in Labels
  BY DEF LoginName, On, Labels
<1>2. work[w].task.data \in Secrets
  BY <1>1, TaskType DEF AInv, ListInv, TaskAt, Secrets
<1>3. name' \in [ConnIds -> Secrets] /\ spwd' \in Secrets
  BY <1>2 DEF LoginName, AInv, ListInv, TypeOK
<1>4. overlapped' \in BOOLEAN /\ refused' \in BOOLEAN
  BY Zenon DEF LoginName, AInv, ListInv, TypeOK
<1>. QED BY <1>1, <1>3, <1>4, LoginMoves DEF LoginName, AInv, ListInv, TypeOK

LEMMA LoginCopyInv == ASSUME AInv, NEW w \in Workers, LoginCopy(w) PROVE AInv'
<1>1. work[w].at = "copy" /\ "salt" \in Labels
  BY DEF LoginCopy, On, Labels
<1>2. encrypted' \in [ConnIds -> Secrets]
  BY DEF LoginCopy, AInv, ListInv, TypeOK
<1>3. overlapped' \in BOOLEAN /\ refused' \in BOOLEAN
  BY Zenon DEF LoginCopy, AInv, ListInv, TypeOK
<1>. QED BY <1>1, <1>2, <1>3, LoginMoves DEF LoginCopy, AInv, ListInv, TypeOK

LEMMA LoginSaltInv == ASSUME AInv, NEW w \in Workers, LoginSalt(w) PROVE AInv'
<1>1. work[w].at = "salt" /\ "idle" \in Labels
  BY DEF LoginSalt, On, Labels
<1>2. client' \in [ConnIds -> Client]
  <2>1. client \in [ConnIds -> Client] /\ spwd \in Secrets
    BY DEF AInv, ListInv, TypeOK
  <2>2. ASSUME NEW cl \in Client
        PROVE  [cl EXCEPT !.at = "salted", !.salt = spwd] \in Client
    BY <2>1, <2>2 DEF Client
  <2>. QED BY <2>1, <2>2 DEF LoginSalt, Reply
<1>3. overlapped' \in BOOLEAN /\ refused' \in BOOLEAN
  BY Zenon DEF LoginSalt, AInv, ListInv, TypeOK
<1>. QED BY <1>1, <1>2, <1>3, LoginMoves DEF LoginSalt, AInv, ListInv, TypeOK

LEMMA LoginCheck2Inv == ASSUME AInv, NEW w \in Workers, LoginCheck2(w) PROVE AInv'
<1>1. work[w].at = "check" /\ "idle" \in Labels
  BY DEF LoginCheck2, On, Labels
<1>2. client' \in [ConnIds -> Client]
  <2>1. client \in [ConnIds -> Client] /\ spwd \in Secrets
    BY DEF AInv, ListInv, TypeOK
  <2>2. ASSUME NEW cl \in Client
        PROVE  [cl EXCEPT !.at = "in"] \in Client /\ [cl EXCEPT !.at = "salted"] \in Client
    BY <2>1, <2>2 DEF Client
  <2>. QED BY <2>1, <2>2 DEF LoginCheck2, Reply
<1>3. overlapped' \in BOOLEAN /\ refused' \in BOOLEAN
  BY Zenon DEF LoginCheck2, AInv, ListInv, TypeOK
<1>. QED BY <1>1, <1>2, <1>3, LoginMoves DEF LoginCheck2, AInv, ListInv, TypeOK

-------------------------------------------------------------------------------

\* No step of the reactor or of a worker breaks the invariant.
LEMMA NextInv == AInv /\ [Next]_vars => AInv'
<1> SUFFICES ASSUME AInv, [Next]_vars
             PROVE  AInv'
  OBVIOUS
<1>1. CASE ReactorStep
  BY <1>1, AcceptInv, UnlinkInv, FreeInv, SpinInv, HandleMessageInv, HangupInv, TimeoutCloseInv
     DEF ReactorStep
<1>2. CASE \E w \in Workers : WorkerStep(w)
  BY <1>2, DequeInv, WalkStartInv, WalkFreedInv, WalkLoginInv, WalkNameInv, WalkEndInv,
     LoginNameInv, LoginCopyInv, LoginSaltInv, LoginCheck2Inv, TaskEndInv DEF WorkerStep
<1>3. CASE UNCHANGED vars
  <2>1. TypeOK'
    <3>1. /\ crashed' \in BOOLEAN /\ cut' \in BOOLEAN /\ hasty' \in BOOLEAN
          /\ overlapped' \in BOOLEAN /\ refused' \in BOOLEAN
      BY <1>3, Zenon DEF AInv, ListInv, TypeOK, vars
    <3>. QED BY <1>3, <3>1 DEF AInv, ListInv, TypeOK, vars
  <2>2. /\ TaskAt' /\ ListShape' /\ WalksOnLive' /\ OpenIsListed' /\ WalkReaches'
        /\ OnlyCutWalksDie' /\ AnswersOpen'
    BY <1>3 DEF AInv, ListInv, TaskAt, ListShape, WalksOnLive, OpenIsListed, WalkReaches,
                OnlyCutWalksDie, AnswersOpen, IsOpen, vars
  <2>. QED BY <2>1, <2>2 DEF AInv, ListInv
<1>. QED BY <1>1, <1>2, <1>3 DEF Next, Done

\* A thread reads a freed node only when the reactor unlinks the node it stands on:
\* every other walk of userList meets live nodes only, in the order of the accepts.
THEOREM ListIsSafe == Spec => []ListInv
  BY InitInv, NextInv, PTL DEF Spec, AInv

\* A login is dropped without an answer only when its connection is gone, however
\* many nodes the reactor appends and deletes during the walk.
THEOREM LoginsAreAnswered == Spec => []AnswersOpen
  BY InitInv, NextInv, PTL DEF Spec, AInv

-------------------------------------------------------------------------------
(* Who is let in, and in whose name. *)

\* The parts that say who is served, with the list's invariant at hand.
Served ==
  /\ RightPasswordPasses /\ TasksOfClients /\ LoginsMeet /\ OwnSecret
  /\ NodesAreOpen /\ CommandsMeet
SInv == AInv /\ Served

\* The first node with a descriptor is one.
LEMMA FirstUnique ==
  ASSUME NEW n \in ConnIds, NEW m \in ConnIds, NEW f, FirstNode(n, f), FirstNode(m, f)
  PROVE  n = m
  BY DEF FirstNode

\* Two open connections have two descriptors.
LEMMA OpenDiffer ==
  ASSUME AInv, NEW c \in ConnIds, NEW d \in ConnIds, IsOpen(c), fdOf[c] = fdOf[d]
  PROVE  c = d
  BY DEF AInv, ListInv, OpenIsListed, IsOpen

\* The task of a worker, and its client.
LEMMA OwnTask ==
  ASSUME SInv, ~hasty, NEW w \in Workers, work[w].at # "idle"
  PROVE  /\ work[w].task \in Task /\ work[w].task.from \in ConnIds /\ IsOpen(work[w].task.from)
         /\ work[w].task.fd = fdOf[work[w].task.from] /\ OfClient(work[w].task)
         /\ work[w].at # "lost"
<1>1. work[w].task \in Task /\ work[w].task.from \in ConnIds
  BY TaskType DEF SInv, AInv, ListInv, TaskAt
<1>2. OfClient(work[w].task) /\ IsOpen(work[w].task.from)
  BY DEF SInv, Served, TasksOfClients, OfClient
<1>. QED BY <1>1, <1>2 DEF SInv, AInv, ListInv, WalkReaches, AnswersOpen

\* The same for a task of the queue.
LEMMA QueuedTask ==
  ASSUME SInv, ~hasty, NEW i \in 1..Len(queue)
  PROVE  /\ queue[i] \in Task /\ queue[i].from \in ConnIds /\ IsOpen(queue[i].from)
         /\ queue[i].fd = fdOf[queue[i].from] /\ OfClient(queue[i])
<1>1. queue[i] \in Task /\ queue[i].from \in ConnIds
  BY TaskType, ElementOfSeq DEF SInv, AInv, ListInv, TypeOK
<1>2. OfClient(queue[i]) /\ IsOpen(queue[i].from)
  BY DEF SInv, Served, TasksOfClients, OfClient
<1>. QED BY <1>1, <1>2 DEF SInv, AInv, ListInv, WalkReaches

\* Nothing is asked and nobody is served.
LEMMA InitServed == Init => Served
<1> SUFFICES ASSUME Init PROVE Served
  OBVIOUS
<1>. USE DEF Init, NoTask, Loop, IsOpen
<1>1. RightPasswordPasses
  BY DEF RightPasswordPasses
<1>2. TasksOfClients /\ LoginsMeet /\ OwnSecret
  BY DEF TasksOfClients, LoginsMeet, OwnSecret
<1>3. NodesAreOpen /\ CommandsMeet
  BY DEF NodesAreOpen, CommandsMeet
<1>. QED BY <1>1, <1>2, <1>3 DEF Served

\* An open connection's node is listed, and every listed node is live.
LEMMA OpenListed ==
  ASSUME AInv, NEW c \in ConnIds
  PROVE  /\ IsOpen(c) => Listed(c) /\ sockfd[c] = fdOf[c] /\ memory[c] = "live"
         /\ Listed(c) => memory[c] = "live"
<1>. USE DEF AInv, ListInv
<1>1. accepted \in Nat /\ (head # NULL => head \in ConnIds)
  BY DEF TypeOK
<1>2. Listed(c) => memory[c] = "live"
  BY DEF Listed, ListShape
<1>3. ASSUME IsOpen(c)
      PROVE  Listed(c) /\ sockfd[c] = fdOf[c] /\ memory[c] = "live"
  <2>1. sockfd[c] = fdOf[c] /\ memory[c] = "live"
    BY <1>3 DEF OpenIsListed
  <2>2. c <= accepted
    BY <1>1, <2>1 DEF ListShape
  <2>3. c # reactor.temp
    BY <1>3, <2>1 DEF OpenIsListed, ListShape
  <2>4. head # NULL /\ (c = head \/ c > head)
    BY <2>1, <2>3 DEF ListShape
  <2>5. c \in Nat /\ head \in Nat
    BY <1>1, <2>4
  <2>6. head <= c
    BY <2>4, <2>5
  <2>. QED BY <2>1, <2>2, <2>4, <2>6 DEF Listed
<1>. QED BY <1>2, <1>3

\* While the wheel has closed nobody, the first node with an open connection's
\* descriptor is its own.
LEMMA OwnIsFirst ==
  ASSUME AInv, NodesAreOpen, timeouts = 0, NEW c \in ConnIds, IsOpen(c)
  PROVE  /\ FirstNode(c, fdOf[c])
         /\ \A n \in ConnIds : memory[n] = "live" /\ sockfd[n] = fdOf[c] => n = c
<1>1. Listed(c) /\ sockfd[c] = fdOf[c] /\ memory[c] = "live"
  BY OpenListed
<1>2. \A n \in ConnIds : memory[n] = "live" /\ sockfd[n] = fdOf[c] => n = c
  BY <1>1 DEF NodesAreOpen
<1>3. \A m \in ConnIds : Listed(m) /\ m < c => sockfd[m] # fdOf[c]
  <2>1. SUFFICES ASSUME NEW m \in ConnIds, Listed(m), m < c, sockfd[m] = fdOf[c]
                 PROVE  FALSE
    OBVIOUS
  <2>2. m = c
    BY <1>2, <2>1, OpenListed
  <2>3. c \in Nat
    OBVIOUS
  <2>. QED BY <2>1, <2>2, <2>3
<1>. QED BY <1>1, <1>2, <1>3 DEF FirstNode

\* Names follow from the rest.
LEMMA NamesFollow ==
  ASSUME AInv, TasksOfClients, LoginsMeet, NodesAreOpen, CommandsMeet
  PROVE  InOwnNameAtFirst
<1> SUFFICES ASSUME ~hasty, ~(timeouts > 0), NEW w \in Workers, work[w].at = "run"
             PROVE  /\ work[w].user # NULL
                    /\ name[work[w].user] = client[work[w].task.from].who
  BY DEF InOwnNameAtFirst, InOwnName
<1>1. timeouts = 0
  BY DEF AInv, ListInv, TypeOK
<1>2. work[w].task.from \in ConnIds /\ work[w].task.kind = "command"
  BY TaskType DEF AInv, ListInv, TaskAt
<1>3. /\ IsOpen(work[w].task.from) /\ client[work[w].task.from].at = "in"
      /\ work[w].user = work[w].task.from
  BY <1>1, <1>2 DEF TasksOfClients, OfClient, CommandsMeet
<1>4. FirstNode(work[w].user, fdOf[work[w].user])
  BY <1>1, <1>2, <1>3, OwnIsFirst
<1>. QED BY <1>2, <1>3, <1>4 DEF LoginsMeet

\* A step of the reactor that leaves the tasks and the open connections' clients alone,
\* and appends or takes away nodes that are not an open connection's first.
LEMMA ListServed ==
  ASSUME SInv, UNCHANGED <<name, encrypted, queue, work, spwd, hasty, overlapped, refused,
                           timeouts>>,
         \A c \in ConnIds : IsOpen(c) => /\ IsOpen(c)' /\ fdOf'[c] = fdOf[c]
                                         /\ client'[c] = client[c],
         \A c \in ConnIds : IsOpen(c)' /\ ~IsOpen(c) => client'[c].at = "new",
         \A c, n \in ConnIds : IsOpen(c) => (FirstNode(n, fdOf[c])' <=> FirstNode(n, fdOf[c])),
         \A n \in ConnIds : Listed(n)' => (Listed(n) /\ sockfd'[n] = sockfd[n]) \/ n > accepted
  PROVE  RightPasswordPasses' /\ TasksOfClients' /\ LoginsMeet' /\ OwnSecret' /\ CommandsMeet'
<1>1. RightPasswordPasses'
  BY DEF SInv, Served, RightPasswordPasses
<1>2. TasksOfClients'
  <2>1. SUFFICES ASSUME ~hasty PROVE TasksOfClients'
    BY DEF TasksOfClients
  <2>2. \A i \in 1..Len(queue) : OfClient(queue[i])'
    <3>1. SUFFICES ASSUME NEW i \in 1..Len(queue) PROVE OfClient(queue[i])'
      OBVIOUS
    <3>2. queue[i].from \in ConnIds /\ IsOpen(queue[i].from) /\ OfClient(queue[i])
      BY <2>1, QueuedTask
    <3>3. queue' = queue /\ IsOpen(queue[i].from)' /\ client'[queue[i].from] = client[queue[i].from]
      BY <3>2
    <3>. QED BY <3>2, <3>3 DEF OfClient
  <2>3. \A w \in Workers : work[w].at # "idle" => OfClient(work[w].task)'
    <3>1. SUFFICES ASSUME NEW w \in Workers, work[w].at # "idle" PROVE OfClient(work[w].task)'
      OBVIOUS
    <3>2. work[w].task.from \in ConnIds /\ IsOpen(work[w].task.from) /\ OfClient(work[w].task)
      BY <2>1, <3>1, OwnTask
    <3>3. /\ work' = work /\ IsOpen(work[w].task.from)'
          /\ client'[work[w].task.from] = client[work[w].task.from]
      BY <3>2
    <3>. QED BY <3>2, <3>3 DEF OfClient
  <2>. QED BY <2>1, <2>2, <2>3 DEF TasksOfClients, SameLogin, SInv, Served
<1>3. LoginsMeet'
  <2>1. SUFFICES ASSUME ~hasty PROVE LoginsMeet'
    BY DEF LoginsMeet
  <2>2. LoginsMeet
    BY DEF SInv, Served
  <2>3. ASSUME NEW w \in Workers, work[w].at = "walk", work[w].task.kind # "command",
               NEW m \in ConnIds, Listed(m)', m < work[w].node
        PROVE  sockfd'[m] # work[w].task.fd
    <3>1. work[w].node # NULL
      BY <2>1, <2>3, OwnTask DEF SInv, AInv, ListInv, WalkReaches
    <3>2. work[w].node \in ConnIds /\ work[w].node <= accepted
      BY <2>3, <3>1, WorkType DEF SInv, AInv, ListInv, WalksOnLive, Locals
    <3>3. accepted \in Nat
      BY DEF SInv, AInv, ListInv, TypeOK
    <3>4. ~(m > accepted)
      <4>1. m \in Nat /\ work[w].node \in Nat
        BY <3>2
      <4>. QED BY <2>3, <3>2, <3>3, <4>1
    <3>5. Listed(m) /\ sockfd'[m] = sockfd[m]
      BY <2>3, <3>4
    <3>. QED BY <2>1, <2>2, <2>3, <3>5 DEF LoginsMeet
  <2>4. ASSUME NEW w \in Workers, work[w].at \in {"name", "copy", "salt", "check"}
        PROVE  FirstNode(work[w].user, work[w].task.fd)'
    <3>1. work[w].user \in ConnIds
      BY <2>4, WorkType DEF SInv, AInv, ListInv, TaskAt, Locals
    <3>2. FirstNode(work[w].user, work[w].task.fd)
      BY <2>1, <2>2, <2>4 DEF LoginsMeet
    <3>3. work[w].task.from \in ConnIds /\ IsOpen(work[w].task.from)
          /\ work[w].task.fd = fdOf[work[w].task.from]
      BY <2>1, <2>4, OwnTask
    <3>4. FirstNode(work[w].user, fdOf[work[w].task.from])'
          <=> FirstNode(work[w].user, work[w].task.fd)'
      BY <3>3
    <3>. QED BY <3>1, <3>2, <3>3
  <2>5. ASSUME NEW c \in ConnIds, NEW n \in ConnIds, IsOpen(c)',
               client'[c].at \in {"salted", "answer", "in"}, FirstNode(n, fdOf[c])'
        PROVE  name[n] = client'[c].who
    <3>1. IsOpen(c) /\ client'[c] = client[c] /\ fdOf'[c] = fdOf[c]
      BY <2>5
    <3>. QED BY <2>1, <2>2, <2>5, <3>1 DEF LoginsMeet
  <2>. QED BY <2>1, <2>2, <2>3, <2>4, <2>5 DEF LoginsMeet
<1>4. OwnSecret'
  <2>1. SUFFICES ASSUME ~hasty, ~overlapped PROVE OwnSecret'
    BY DEF OwnSecret
  <2>2. OwnSecret
    BY DEF SInv, Served
  <2>3. ASSUME NEW c \in ConnIds, IsOpen(c)', client'[c].at \in {"salted", "answer"}
        PROVE  /\ client'[c].salt = client'[c].who
               /\ \A n \in ConnIds : FirstNode(n, fdOf[c])' => encrypted[n] = client'[c].who
    <3>1. IsOpen(c) /\ client'[c] = client[c] /\ fdOf'[c] = fdOf[c]
      BY <2>3
    <3>. QED BY <2>1, <2>2, <2>3, <3>1 DEF OwnSecret
  <2>. QED BY <2>1, <2>2, <2>3 DEF OwnSecret
<1>5. CommandsMeet'
  BY DEF SInv, Served, CommandsMeet
<1>. QED BY <1>1, <1>2, <1>3, <1>4, <1>5

LEMMA AcceptServed == ASSUME SInv, Accept PROVE Served'
<1>. DEFINE c == accepted + 1
            f == LowestFd
<1>1. /\ f \in Fds /\ c \in ConnIds /\ accepted \in Nat /\ memory[c] = "unused"
      /\ fdOf[c] = NULL /\ \A d \in ConnIds : fdOf[d] # f
  <2>1. f \in FreeFds
    BY Lowest DEF Accept, LowestFd, FreeFds
  <2>2. c \in ConnIds /\ accepted \in Nat
    BY DEF Accept, SInv, AInv, ListInv, TypeOK, ConnIds
  <2>3. memory[c] = "unused" /\ fdOf[c] = NULL
    BY <2>2 DEF SInv, AInv, ListInv, ListShape, OpenIsListed, IsOpen
  <2>. QED BY <2>1, <2>2, <2>3 DEF FreeFds
<1>2. /\ fdOf' = [fdOf EXCEPT ![c] = f] /\ sockfd' = [sockfd EXCEPT ![c] = f]
      /\ memory' = [memory EXCEPT ![c] = "live"] /\ client' = [client EXCEPT ![c].at = "new"]
      /\ accepted' = c /\ reactor.at = "loop"
      /\ UNCHANGED <<name, encrypted, reactor, queue, work, spwd, hasty, overlapped, refused,
                     timeouts>>
  BY DEF Accept, ReactorAt
<1>3. \/ head = NULL /\ head' = c
      \/ head # NULL /\ head' = head
  BY DEF Accept, appendNode
<1>. HIDE DEF f
<1>4. \A d \in ConnIds : /\ d # c => /\ fdOf'[d] = fdOf[d] /\ sockfd'[d] = sockfd[d]
                                     /\ memory'[d] = memory[d] /\ client'[d] = client[d]
                         /\ d = c => fdOf'[d] = f /\ sockfd'[d] = f
                                     /\ memory'[d] = "live" /\ client'[d].at = "new"
  <2>1. client \in [ConnIds -> Client]
    BY DEF SInv, AInv, ListInv, TypeOK
  <2>2. client'[c].at = "new"
    BY <2>1, <1>1, <1>2 DEF Client
  <2>. QED BY <2>1, <2>2, <1>1, <1>2 DEF SInv, AInv, ListInv, TypeOK
<1>5. \A n \in ConnIds : /\ Listed(n)' => (Listed(n) /\ n # c) \/ n = c
                         /\ Listed(n) => Listed(n)' /\ n < c
  <2>1. head # NULL => head \in ConnIds
    BY DEF SInv, AInv, ListInv, TypeOK
  <2>2. SUFFICES ASSUME NEW n \in ConnIds
                 PROVE  /\ Listed(n)' => (Listed(n) /\ n # c) \/ n = c
                        /\ Listed(n) => Listed(n)' /\ n < c
    OBVIOUS
  <2>3. n \in Nat /\ c \in Nat /\ head' \in Nat
    BY <1>1, <1>3, <2>1
  <2>. QED BY <1>1, <1>2, <1>3, <2>1, <2>3 DEF Listed
<1>6. ASSUME NEW d \in ConnIds, NEW n \in ConnIds, IsOpen(d)
      PROVE  FirstNode(n, fdOf[d])' <=> FirstNode(n, fdOf[d])
  <2>1. d # c /\ fdOf[d] # f /\ fdOf'[d] = fdOf[d]
    BY <1>1, <1>4, <1>6 DEF IsOpen
  <2>2. \A m \in ConnIds : Listed(m)' /\ sockfd'[m] = fdOf[d] <=> Listed(m) /\ sockfd[m] = fdOf[d]
    <3>1. SUFFICES ASSUME NEW m \in ConnIds
                   PROVE  Listed(m)' /\ sockfd'[m] = fdOf[d] <=> Listed(m) /\ sockfd[m] = fdOf[d]
      OBVIOUS
    <3>2. CASE m = c
      <4>1. sockfd'[m] # fdOf[d] /\ ~Listed(m)
        BY <1>1, <1>4, <1>5, <2>1, <3>2
      <4>. QED BY <4>1
    <3>3. CASE m # c
      BY <1>4, <1>5, <3>3
    <3>. QED BY <3>2, <3>3
  <2>. QED BY <2>1, <2>2 DEF FirstNode
<1>7. RightPasswordPasses' /\ TasksOfClients' /\ LoginsMeet' /\ OwnSecret' /\ CommandsMeet'
  <2>1. \A d \in ConnIds : IsOpen(d) => /\ IsOpen(d)' /\ fdOf'[d] = fdOf[d]
                                        /\ client'[d] = client[d]
    BY <1>1, <1>4 DEF IsOpen
  <2>2. \A d \in ConnIds : IsOpen(d)' /\ ~IsOpen(d) => client'[d].at = "new"
    BY <1>4 DEF IsOpen
  <2>3. \A n \in ConnIds : Listed(n)' => (Listed(n) /\ sockfd'[n] = sockfd[n]) \/ n > accepted
    BY <1>1, <1>4, <1>5
  <2>. QED BY <1>2, <1>6, <2>1, <2>2, <2>3, ListServed
<1>8. NodesAreOpen'
  <2>1. SUFFICES ASSUME timeouts = 0 PROVE NodesAreOpen'
    BY <1>2 DEF NodesAreOpen
  <2>2. \A n \in ConnIds : memory[n] = "live" => IsOpen(n) /\ sockfd[n] = fdOf[n] /\ n # c
    BY <1>1, <1>2, <2>1, OpenListed DEF SInv, Served, NodesAreOpen
  <2>3. \A n, m \in ConnIds : memory[n] = "live" /\ memory[m] = "live" /\ sockfd[n] = sockfd[m]
                                => n = m
    BY <2>1 DEF SInv, Served, NodesAreOpen
  <2>4. \A n \in ConnIds : memory'[n] = "live" => IsOpen(n)'
    BY <1>1, <1>4, <2>2 DEF IsOpen
  <2>5. \A n \in ConnIds : memory[n] = "live" => sockfd[n] # f
    BY <1>1, <2>2
  <2>6. ASSUME NEW n \in ConnIds, NEW m \in ConnIds, memory'[n] = "live", memory'[m] = "live",
               sockfd'[n] = sockfd'[m]
        PROVE  n = m
    BY <1>4, <2>3, <2>5, <2>6
  <2>. QED BY <2>4, <2>6 DEF NodesAreOpen
<1>. QED BY <1>7, <1>8 DEF Served

\* The reactor's other steps on the list keep the rest of it where it is.
LEMMA DeleteServed ==
  ASSUME SInv, NodesAreOpen',
         UNCHANGED <<fdOf, sockfd, client, name, encrypted, queue, work, spwd, hasty, overlapped,
                     refused, timeouts, accepted>>,
         \/ head' = head
         \/ head # NULL /\ head' = next[head] /\ \A c \in ConnIds : IsOpen(c) => sockfd[head] # fdOf[c]
  PROVE  Served'
<1>. USE DEF SInv, AInv, ListInv
<1>1. \A n \in ConnIds : Listed(n)' <=> Listed(n) /\ (head' # head => n # head)
  <2>1. CASE head' = head
    BY <2>1 DEF Listed
  <2>2. CASE head' # head
    <3>1. head \in ConnIds /\ head # NULL /\ accepted \in Nat /\ head' = next[head]
      BY <2>2 DEF TypeOK
    <3>7. head \in Nat
      BY <3>1
    <3>8. head <= accepted
      BY <3>1 DEF ListShape
    <3>2. head <= accepted /\ head <= head
      BY <3>7, <3>8
    <3>6. memory[head] = "live"
      BY <3>1, <3>2 DEF ListShape
    <3>3. next[head] = IF head = accepted THEN NULL ELSE head + 1
      BY <3>1, <3>6 DEF ListShape
    <3>4. SUFFICES ASSUME NEW n \in ConnIds PROVE Listed(n)' <=> Listed(n) /\ n # head
      BY <2>2
    <3>9. n \in Nat
      OBVIOUS
    <3>10. head + 1 \in Nat
      BY <3>7
    <3>5. n \in Nat /\ head \in Nat /\ head # NULL /\ head + 1 # NULL
      BY <3>1, <3>7, <3>9, <3>10
    <3>. QED BY <3>1, <3>2, <3>3, <3>5 DEF Listed
  <2>. QED BY <2>1, <2>2
<1>2. ASSUME NEW c \in ConnIds, NEW n \in ConnIds, IsOpen(c)
      PROVE  FirstNode(n, fdOf[c])' <=> FirstNode(n, fdOf[c])
  <2>1. \A m \in ConnIds : Listed(m)' /\ sockfd[m] = fdOf[c] <=> Listed(m) /\ sockfd[m] = fdOf[c]
    BY <1>1, <1>2
  <2>. QED BY <2>1 DEF FirstNode
<1>3. RightPasswordPasses' /\ TasksOfClients' /\ LoginsMeet' /\ OwnSecret' /\ CommandsMeet'
  <2>1. \A d \in ConnIds : IsOpen(d) => /\ IsOpen(d)' /\ fdOf'[d] = fdOf[d]
                                        /\ client'[d] = client[d]
    BY DEF IsOpen
  <2>2. \A d \in ConnIds : IsOpen(d)' /\ ~IsOpen(d) => client'[d].at = "new"
    BY DEF IsOpen
  <2>3. \A n \in ConnIds : Listed(n)' => (Listed(n) /\ sockfd'[n] = sockfd[n]) \/ n > accepted
    BY <1>1
  <2>. QED BY <1>2, <2>1, <2>2, <2>3, ListServed
<1>. QED BY <1>3 DEF Served

LEMMA UnlinkServed == ASSUME SInv, Unlink PROVE Served'
<1>1. NodesAreOpen'
  <2>1. reactor'.at = "free" /\ reactor'.fd = reactor.fd
    BY DEF Unlink, SInv, AInv, ListInv, TypeOK
  <2>. QED BY <2>1 DEF Unlink, SInv, Served, NodesAreOpen, IsOpen
<1>2. \A c \in ConnIds : IsOpen(c) => sockfd[head] # fdOf[c]
  BY DEF Unlink, ReactorAt, SInv, AInv, ListInv, OpenIsListed
<1>. QED BY <1>1, <1>2, DeleteServed DEF Unlink

LEMMA FreeServed == ASSUME SInv, Free PROVE Served'
<1>1. /\ reactor.temp \in ConnIds /\ memory[reactor.temp] = "live" /\ head = next[reactor.temp]
      /\ sockfd[reactor.temp] = reactor.fd
  BY DEF Free, ReactorAt, SInv, AInv, ListInv, TypeOK, ListShape
<1>2. head' = head
  BY <1>1, NextIsLive DEF Free, SInv, AInv, ListInv
<1>3. NodesAreOpen'
  <2>1. SUFFICES ASSUME timeouts = 0 PROVE NodesAreOpen'
    BY DEF Free, NodesAreOpen
  <2>2. NodesAreOpen
    BY DEF SInv, Served
  <2>3. \A n \in ConnIds : memory'[n] = "live" => memory[n] = "live" /\ n # reactor.temp
    BY <1>1 DEF Free, SInv, AInv, ListInv, TypeOK
  <2>4. UNCHANGED <<fdOf, sockfd, timeouts>>
    BY DEF Free
  <2>5. ASSUME NEW n \in ConnIds, memory'[n] = "live" PROVE IsOpen(n)'
    <3>1. ~IsOpen(n) => n = reactor.temp
      BY <1>1, <2>1, <2>2, <2>3, <2>5 DEF NodesAreOpen
    <3>. QED BY <2>3, <2>4, <2>5, <3>1 DEF IsOpen
  <2>. QED BY <2>1, <2>2, <2>3, <2>4, <2>5 DEF NodesAreOpen
<1>. QED BY <1>2, <1>3, DeleteServed DEF Free

LEMMA SpinServed == ASSUME SInv, Spin PROVE Served'
<1>1. NodesAreOpen'
  <2>1. reactor'.at = "spinning" /\ reactor'.fd = reactor.fd
    BY DEF Spin, SInv, AInv, ListInv, TypeOK
  <2>. QED BY <2>1 DEF Spin, SInv, Served, NodesAreOpen, IsOpen
<1>. QED BY <1>1, DeleteServed DEF Spin

\* A client's next message: he waits for no answer, so it is his only login.
LEMMA MessageServed == ASSUME SInv, NEW c \in ConnIds, HandleMessage(c) PROVE Served'
<1>. USE DEF SInv, AInv, ListInv
<1>1. PICK t \in Task :
        /\ t.from = c /\ t.fd = fdOf[c] /\ IsOpen(c) /\ queue' = Append(queue, t)
        /\ \/ /\ client[c].at = "new" /\ t.kind = "login1"
              /\ client' = [client EXCEPT ![c].at = "salt", ![c].who = t.data]
           \/ /\ client[c].at = "salted" /\ t.kind = "login2"
              /\ t.data = <<client[c].who, client[c].salt>>
              /\ client' = [client EXCEPT ![c].at = "answer", ![c].who = @]
           \/ /\ client[c].at = "in" /\ t.kind = "command"
              /\ client' = [client EXCEPT ![c].at = "in", ![c].who = @]
        /\ UNCHANGED <<fdOf, list, info, reactor, work, spwd, history, accepted, timeouts>>
  <2>1. fdOf[c] \in Fds \/ ~IsOpen(c)
    BY DEF TypeOK, IsOpen
  <2>2. CASE client[c].at = "new" /\ \E n \in Names : Message(c, "login1", n, "salt")
    <3>1. PICK n \in Names : Message(c, "login1", n, "salt")
      BY <2>2
    <3>2. [kind |-> "login1", fd |-> fdOf[c], data |-> n, from |-> c] \in Task
      BY <2>1, <3>1 DEF Task, Message
    <3>3. client' = [client EXCEPT ![c].at = "salt", ![c].who = n]
      BY <3>1 DEF Message
    <3>. QED BY <2>2, <3>1, <3>2, <3>3 DEF Message
  <2>3. CASE /\ client[c].at = "salted"
             /\ Message(c, "login2", <<client[c].who, client[c].salt>>, "answer")
    <3>1. client[c].who \in Secrets /\ client[c].salt \in Secrets
      BY DEF TypeOK, Client
    <3>2. [kind |-> "login2", fd |-> fdOf[c], data |-> <<client[c].who, client[c].salt>>,
           from |-> c] \in Task
      BY <2>1, <2>3, <3>1 DEF Task, Message
    <3>3. client' = [client EXCEPT ![c].at = "answer", ![c].who = @]
      BY <2>3 DEF Message
    <3>. QED BY <2>3, <3>2, <3>3 DEF Message
  <2>4. CASE client[c].at = "in" /\ Message(c, "command", NULL, "in")
    <3>2. [kind |-> "command", fd |-> fdOf[c], data |-> NULL, from |-> c] \in Task
      BY <2>1, <2>4 DEF Task, Message
    <3>3. client' = [client EXCEPT ![c].at = "in", ![c].who = @]
      BY <2>4 DEF Message
    <3>. QED BY <2>4, <3>2, <3>3 DEF Message
  <2>. QED BY <2>2, <2>3, <2>4 DEF HandleMessage
<1>2. /\ \A d \in ConnIds : d # c => client'[d] = client[d]
      /\ client'[c].salt = client[c].salt
      /\ \/ client[c].at = "new" /\ client'[c].at = "salt" /\ client'[c].who = t.data
         \/ client[c].at = "salted" /\ client'[c].at = "answer" /\ client'[c].who = client[c].who
         \/ client[c].at = "in" /\ client'[c].at = "in" /\ client'[c].who = client[c].who
  <2>1. client \in [ConnIds -> Client]
    BY DEF TypeOK
  <2>2. ASSUME NEW at, client' = [client EXCEPT ![c].at = at, ![c].who = @]
        PROVE  /\ \A d \in ConnIds : d # c => client'[d] = client[d]
               /\ client'[c].salt = client[c].salt /\ client'[c].who = client[c].who
               /\ client'[c].at = at
    BY <2>1, <2>2 DEF Client
  <2>3. ASSUME client' = [client EXCEPT ![c].at = "salt", ![c].who = t.data]
        PROVE  /\ \A d \in ConnIds : d # c => client'[d] = client[d]
               /\ client'[c].salt = client[c].salt /\ client'[c].who = t.data
               /\ client'[c].at = "salt"
    BY <2>1, <2>3 DEF Client
  <2>4. CASE client[c].at = "new"
    BY <1>1, <2>3, <2>4
  <2>5. CASE client[c].at # "new"
    BY <1>1, <2>2, <2>5
  <2>. QED BY <2>4, <2>5
<1>3. OfClient(t)'
  BY <1>1, <1>2 DEF OfClient, IsOpen
<1>4. TasksOfClients'
  <2>1. SUFFICES ASSUME ~hasty PROVE TasksOfClients'
    BY <1>1 DEF TasksOfClients
  <2>2. ASSUME NEW u, u.from \in ConnIds, OfClient(u) PROVE OfClient(u)' /\ ~SameLogin(u, t)
    <3>1. CASE u.from = c
      BY <1>1, <1>2, <2>2, <3>1 DEF OfClient, SameLogin, IsOpen
    <3>2. CASE u.from # c
      BY <1>1, <1>2, <2>2, <3>2 DEF OfClient, SameLogin, IsOpen
    <3>. QED BY <3>1, <3>2
  <2>3. /\ Len(queue') = Len(queue) + 1 /\ queue'[Len(queue) + 1] = t /\ Len(queue) \in Nat
        /\ \A i \in 1..Len(queue) : queue'[i] = queue[i]
    BY <1>1 DEF TypeOK
  <2>4. \A i \in 1..Len(queue) : OfClient(queue[i])' /\ ~SameLogin(queue[i], t)
    <3>1. SUFFICES ASSUME NEW i \in 1..Len(queue)
                   PROVE  OfClient(queue[i])' /\ ~SameLogin(queue[i], t)
      OBVIOUS
    <3>2. OfClient(queue[i]) /\ queue[i].from \in ConnIds
      BY <2>1, QueuedTask
    <3>3. queue'[i] = queue[i]
      BY <2>3
    <3>. QED BY <3>2, <3>3, <2>2 DEF OfClient, IsOpen
  <2>5. \A w \in Workers : work[w].at # "idle" =>
          OfClient(work[w].task)' /\ ~SameLogin(work[w].task, t)
    <3>1. SUFFICES ASSUME NEW w \in Workers, work[w].at # "idle"
                   PROVE  OfClient(work[w].task)' /\ ~SameLogin(work[w].task, t)
      OBVIOUS
    <3>2. OfClient(work[w].task) /\ work[w].task.from \in ConnIds
      BY <2>1, <3>1, OwnTask
    <3>. QED BY <1>1, <3>2, <2>2 DEF OfClient, IsOpen
  <2>6. \A i \in 1..Len(queue') : OfClient(queue[i])'
    <3>1. SUFFICES ASSUME NEW i \in 1..Len(queue') PROVE OfClient(queue[i])'
      OBVIOUS
    <3>2. CASE i = Len(queue) + 1
      BY <3>2, <2>3, <1>3 DEF OfClient, IsOpen
    <3>3. CASE i \in 1..Len(queue)
      BY <3>3, <2>4
    <3>. QED BY <3>2, <3>3, <2>3
  <2>7. ASSUME NEW i \in 1..Len(queue'), NEW j \in 1..Len(queue'), SameLogin(queue'[i], queue'[j])
        PROVE  i = j
    <3>1. SameLogin(queue'[j], queue'[i]) \/ queue'[j].kind = "command"
      BY <2>7 DEF SameLogin
    <3>2. i \in 1..Len(queue) \/ i = Len(queue) + 1
      BY <2>3
    <3>3. j \in 1..Len(queue) \/ j = Len(queue) + 1
      BY <2>3
    <3>4. CASE i \in 1..Len(queue) /\ j \in 1..Len(queue)
      BY <3>4, <2>1, <2>3, <2>7 DEF Served, TasksOfClients
    <3>5. CASE i \in 1..Len(queue) /\ j = Len(queue) + 1
      BY <3>5, <2>3, <2>4, <2>7
    <3>6. CASE i = Len(queue) + 1 /\ j \in 1..Len(queue)
      <4>1. queue'[i] = t /\ queue'[j] = queue[j] /\ OfClient(queue[j])
        BY <3>6, <2>3, <2>1, QueuedTask
      <4>2. queue[j].kind = "command" /\ queue[j].from = c
        BY <4>1, <2>3, <2>4, <2>7, <3>6, <1>1 DEF SameLogin
      <4>3. client[c].at = "in"
        BY <4>1, <4>2 DEF OfClient
      <4>4. t.kind = "command"
        BY <1>1, <4>3
      <4>. QED BY <4>4, <4>1, <2>7 DEF SameLogin
    <3>. QED BY <3>2, <3>3, <3>4, <3>5, <3>6
  <2>8. ASSUME NEW w \in Workers, NEW i \in 1..Len(queue'), work[w].at # "idle"
        PROVE  ~SameLogin(work[w].task, queue'[i])
    <3>1. i \in 1..Len(queue) \/ i = Len(queue) + 1
      BY <2>3
    <3>. QED BY <2>1, <2>3, <2>5, <2>8, <3>1 DEF Served, TasksOfClients
  <2>9. \A w, v \in Workers :
          work[w].at # "idle" /\ work[v].at # "idle" /\ SameLogin(work[w].task, work[v].task) => w = v
    BY <2>1 DEF Served, TasksOfClients
  <2>10. work' = work
    BY <1>1
  <2>. QED BY <2>5, <2>6, <2>7, <2>8, <2>9, <2>10 DEF TasksOfClients, SameLogin
<1>5. \A d \in ConnIds : /\ client'[d].at \in {"salted", "answer", "in"} =>
                              client[d].at \in {"salted", "answer", "in"}
                         /\ client'[d].at \in {"salted", "answer"} =>
                              client[d].at \in {"salted", "answer"}
                         /\ client'[d].at \in {"salted", "answer", "in"} =>
                              client'[d].who = client[d].who /\ client'[d].salt = client[d].salt
  BY <1>2
<1>6. LoginsMeet'
  BY <1>1, <1>5 DEF Served, LoginsMeet, FirstNode, Listed, IsOpen
<1>7. OwnSecret'
  BY <1>1, <1>5 DEF Served, OwnSecret, FirstNode, Listed, IsOpen
<1>8. RightPasswordPasses' /\ NodesAreOpen' /\ CommandsMeet'
  BY <1>1 DEF Served, RightPasswordPasses, NodesAreOpen, CommandsMeet, IsOpen
<1>. QED BY <1>4, <1>6, <1>7, <1>8 DEF Served

\* A connection without a pending task is closed.
LEMMA CloseServed ==
  ASSUME SInv, NodesAreOpen', NEW c \in ConnIds, hasty' = (hasty \/ Pending(c)),
         fdOf' = [fdOf EXCEPT ![c] = NULL], client' = [client EXCEPT ![c].at = "away"],
         timeouts' = 0 => timeouts = 0,
         UNCHANGED <<list, info, queue, work, spwd, overlapped, refused, accepted>>
  PROVE  Served'
<1>. USE DEF SInv, AInv, ListInv
<1>1. \A d \in ConnIds : /\ d # c => fdOf'[d] = fdOf[d] /\ client'[d] = client[d]
                         /\ d = c => ~IsOpen(d)'
  BY DEF TypeOK, IsOpen
<1>2. RightPasswordPasses' /\ CommandsMeet'
  <2>1. timeouts \in Nat
    BY DEF TypeOK
  <2>. QED BY <2>1 DEF Served, RightPasswordPasses, CommandsMeet
<1>3. TasksOfClients'
  <2>1. SUFFICES ASSUME ~hasty, ~Pending(c) PROVE TasksOfClients'
    BY DEF TasksOfClients
  <2>2. \A i \in 1..Len(queue) : OfClient(queue[i])'
    <3>1. SUFFICES ASSUME NEW i \in 1..Len(queue) PROVE OfClient(queue[i])'
      OBVIOUS
    <3>2. OfClient(queue[i]) /\ queue[i].from \in ConnIds
      BY <2>1, QueuedTask
    <3>3. queue[i].from # c
      <4>1. i \in DOMAIN queue
        BY DEF TypeOK
      <4>. QED BY <4>1, <2>1 DEF Pending
    <3>. QED BY <1>1, <3>2, <3>3 DEF OfClient, IsOpen
  <2>3. \A w \in Workers : work[w].at # "idle" => OfClient(work[w].task)'
    <3>1. SUFFICES ASSUME NEW w \in Workers, work[w].at # "idle" PROVE OfClient(work[w].task)'
      OBVIOUS
    <3>2. OfClient(work[w].task) /\ work[w].task.from \in ConnIds
      BY <2>1, <3>1, OwnTask
    <3>3. work[w].task.from # c
      BY <2>1, <3>1 DEF Pending, NoTask
    <3>. QED BY <1>1, <3>2, <3>3 DEF OfClient, IsOpen
  <2>. QED BY <2>1, <2>2, <2>3 DEF Served, TasksOfClients, SameLogin
<1>4. LoginsMeet'
  <2>1. SUFFICES ASSUME ~hasty PROVE LoginsMeet'
    BY DEF LoginsMeet
  <2>2. LoginsMeet
    BY DEF Served
  <2>3. ASSUME NEW d \in ConnIds, NEW n \in ConnIds, IsOpen(d)',
               client'[d].at \in {"salted", "answer", "in"}, FirstNode(n, fdOf[d])'
        PROVE  name[n] = client'[d].who
    <3>1. IsOpen(d) /\ client'[d] = client[d] /\ fdOf'[d] = fdOf[d]
      BY <1>1, <2>3 DEF IsOpen
    <3>. QED BY <2>1, <2>2, <2>3, <3>1 DEF LoginsMeet, FirstNode, Listed
  <2>. QED BY <2>1, <2>2, <2>3 DEF LoginsMeet, FirstNode, Listed
<1>5. OwnSecret'
  <2>1. SUFFICES ASSUME ~hasty, ~overlapped PROVE OwnSecret'
    BY DEF OwnSecret
  <2>2. OwnSecret
    BY DEF Served
  <2>3. ASSUME NEW d \in ConnIds, IsOpen(d)', client'[d].at \in {"salted", "answer"}
        PROVE  /\ client'[d].salt = client'[d].who
               /\ \A n \in ConnIds : FirstNode(n, fdOf[d])' => encrypted[n] = client'[d].who
    <3>1. IsOpen(d) /\ client'[d] = client[d] /\ fdOf'[d] = fdOf[d]
      BY <1>1, <2>3 DEF IsOpen
    <3>. QED BY <2>1, <2>2, <2>3, <3>1 DEF OwnSecret, FirstNode, Listed
  <2>. QED BY <2>1, <2>2, <2>3 DEF OwnSecret
<1>. QED BY <1>2, <1>3, <1>4, <1>5 DEF Served

LEMMA HangupServed == ASSUME SInv, NEW c \in ConnIds, Hangup(c) PROVE Served'
<1>1. \A d \in ConnIds : /\ d # c => fdOf'[d] = fdOf[d]
                         /\ d = c => ~IsOpen(d)'
  BY DEF Hangup, SInv, AInv, ListInv, TypeOK, IsOpen
<1>2. NodesAreOpen'
  <2>1. SUFFICES ASSUME timeouts = 0 PROVE NodesAreOpen'
    BY DEF Hangup, NodesAreOpen
  <2>2. \A n \in ConnIds : memory[n] = "live" => IsOpen(n)
    BY <2>1 DEF Hangup, ReactorAt, SInv, Served, NodesAreOpen
  <2>3. sockfd[c] = fdOf[c] /\ reactor'.fd = fdOf[c] /\ reactor'.at = "find"
    BY DEF Hangup, SInv, AInv, ListInv, OpenIsListed
  <2>4. \A n \in ConnIds : ~IsOpen(n)' /\ memory[n] = "live" => n = c
    BY <1>1, <2>2 DEF IsOpen
  <2>5. UNCHANGED list
    BY DEF Hangup
  <2>. QED BY <2>1, <2>3, <2>4, <2>5 DEF NodesAreOpen, SInv, Served
<1>. QED BY <1>2, CloseServed DEF Hangup

LEMMA TimeoutServed == ASSUME SInv, NEW c \in ConnIds, TimeoutClose(c) PROVE Served'
<1>1. timeouts' # 0
  BY DEF TimeoutClose, SInv, AInv, ListInv, TypeOK
<1>2. NodesAreOpen'
  BY <1>1 DEF NodesAreOpen
<1>. QED BY <1>1, <1>2, CloseServed DEF TimeoutClose

\* A worker's step on its own local state.
LEMMA WorkServed ==
  ASSUME SInv, NEW w \in Workers, TasksOfClients',
         UNCHANGED <<fdOf, list, info, reactor, client, spwd, history, accepted, timeouts>>,
         \A v \in Workers : v # w => work'[v] = work[v],
         work'[w].at \notin {"copy", "salt"},
         ~hasty => /\ work'[w].at = "walk" /\ work'[w].task.kind # "command" =>
                        \A m \in ConnIds : Listed(m) /\ m < work'[w].node
                                             => sockfd[m] # work'[w].task.fd
                   /\ work'[w].at \in {"name", "check"} =>
                        FirstNode(work'[w].user, work'[w].task.fd),
         ~hasty /\ timeouts = 0 =>
           /\ work'[w].at \in {"start", "walk"} /\ work'[w].task.kind = "command" =>
                /\ work'[w].user \in {NULL, work'[w].task.from}
                /\ work'[w].at = "walk"
                   /\ (work'[w].node = NULL \/ work'[w].node > work'[w].task.from) =>
                     work'[w].user = work'[w].task.from
           /\ work'[w].at = "run" => work'[w].user = work'[w].task.from
  PROVE  Served'
<1>1. RightPasswordPasses' /\ NodesAreOpen'
  BY DEF SInv, Served, RightPasswordPasses, NodesAreOpen, IsOpen
<1>2. LoginsMeet'
  <2>1. SUFFICES ASSUME ~hasty PROVE LoginsMeet'
    BY DEF LoginsMeet
  <2>2. LoginsMeet
    BY DEF SInv, Served
  <2>3. ASSUME NEW v \in Workers
        PROVE  /\ work'[v].at = "walk" /\ work'[v].task.kind # "command" =>
                    \A m \in ConnIds : Listed(m)' /\ m < work'[v].node
                                         => sockfd'[m] # work'[v].task.fd
               /\ work'[v].at \in {"name", "copy", "salt", "check"} =>
                    FirstNode(work[v].user, work[v].task.fd)'
               /\ work'[v].at \in {"copy", "salt"} => name'[work'[v].user] = work'[v].task.data
    <3>1. CASE v = w
      BY <2>1, <3>1 DEF FirstNode, Listed
    <3>2. CASE v # w
      BY <2>1, <2>2, <3>2 DEF LoginsMeet, FirstNode, Listed
    <3>. QED BY <3>1, <3>2
  <2>. QED BY <2>1, <2>2, <2>3 DEF LoginsMeet, FirstNode, Listed, IsOpen
<1>3. OwnSecret'
  <2>1. SUFFICES ASSUME ~hasty, ~overlapped PROVE OwnSecret'
    BY DEF OwnSecret
  <2>2. \A v \in Workers : work'[v].at \in {"copy", "salt"} =>
          work'[v] = work[v] /\ work[v].at \in {"copy", "salt"}
    OBVIOUS
  <2>3. OwnSecret
    BY DEF SInv, Served
  <2>4. \A v, u \in Workers : {work'[v].at, work'[u].at} \subseteq {"copy", "salt"} => v = u
    <3>1. SUFFICES ASSUME NEW v \in Workers, NEW u \in Workers,
                          {work'[v].at, work'[u].at} \subseteq {"copy", "salt"}
                   PROVE  v = u
      OBVIOUS
    <3>2. {work[v].at, work[u].at} \subseteq {"copy", "salt"}
      BY <2>2, <3>1
    <3>. QED BY <2>1, <2>3, <3>2 DEF OwnSecret
  <2>5. \A v \in Workers :
          /\ work'[v].at \in {"copy", "salt"} => spwd = work'[v].task.data
          /\ work'[v].at = "salt" => encrypted[work'[v].user] = work'[v].task.data
    BY <2>1, <2>2, <2>3 DEF OwnSecret
  <2>6. \A c \in ConnIds : IsOpen(c)' /\ client'[c].at \in {"salted", "answer"} =>
          /\ client'[c].salt = client'[c].who
          /\ \A n \in ConnIds : FirstNode(n, fdOf[c])' => encrypted'[n] = client'[c].who
    BY <2>1, <2>3 DEF OwnSecret, FirstNode, Listed, IsOpen
  <2>. QED BY <2>4, <2>5, <2>6 DEF OwnSecret
<1>4. CommandsMeet'
  BY DEF CommandsMeet, SInv, Served
<1>. QED BY <1>1, <1>2, <1>3, <1>4 DEF Served

\* The tasks are whose they were as long as none begins.
LEMMA SameTasks ==
  ASSUME SInv, NEW w \in Workers, UNCHANGED <<fdOf, queue, client, hasty>>,
         \A v \in Workers : v # w => work'[v] = work[v],
         work'[w].at # "idle" => work[w].at # "idle" /\ work'[w].task = work[w].task
  PROVE  TasksOfClients'
<1>1. \A v \in Workers : work'[v].at # "idle" => work[v].at # "idle" /\ work'[v].task = work[v].task
  OBVIOUS
<1>. QED BY <1>1 DEF SInv, Served, TasksOfClients, OfClient, SameLogin, IsOpen

\* deque: the task leaves the queue and nothing of it is done yet.
LEMMA DequeServed == ASSUME SInv, NEW w \in Workers, Deque(w) PROVE Served'
<1>. USE DEF SInv, AInv, ListInv
<1>1. /\ queue \in Seq(Task) /\ queue # <<>> /\ queue' = Tail(queue)
      /\ work' = [work EXCEPT ![w] = [task |-> Head(queue), at |-> "start", node |-> NULL,
                                      user |-> NULL]]
      /\ work[w].at = "idle"
      /\ UNCHANGED <<fdOf, list, info, reactor, client, spwd, history, accepted, timeouts>>
  BY DEF Deque, On, TypeOK
<1>2. /\ Len(queue) \in Nat /\ Len(queue') = Len(queue) - 1 /\ 1 \in 1..Len(queue)
      /\ \A i \in 1..Len(queue') : i + 1 \in 1..Len(queue) /\ queue'[i] = queue[i + 1]
      /\ Head(queue) = queue[1]
  BY <1>1
<1>3. /\ \A v \in Workers : v # w => work'[v] = work[v]
      /\ work'[w] = [task |-> queue[1], at |-> "start", node |-> NULL, user |-> NULL]
  BY <1>1, <1>2 DEF TypeOK
<1>4. TasksOfClients'
  <2>1. SUFFICES ASSUME ~hasty PROVE TasksOfClients'
    BY <1>1 DEF TasksOfClients
  <2>2. TasksOfClients
    BY DEF Served
  <2>3. \A i \in 1..Len(queue') : OfClient(queue[i])'
    <3>1. SUFFICES ASSUME NEW i \in 1..Len(queue') PROVE OfClient(queue[i])'
      OBVIOUS
    <3>2. OfClient(queue[i + 1]) /\ queue'[i] = queue[i + 1]
      BY <2>1, <2>2, <1>2 DEF TasksOfClients
    <3>. QED BY <1>1, <3>2 DEF OfClient, IsOpen
  <2>4. ASSUME NEW v \in Workers, work'[v].at # "idle"
        PROVE  /\ OfClient(work[v].task)'
               /\ \/ v = w /\ work'[v].task = queue[1]
                  \/ v # w /\ work'[v] = work[v] /\ work[v].at # "idle"
    <3>1. CASE v = w
      <4>1. OfClient(queue[1]) /\ work'[v].task = queue[1]
        BY <2>1, <2>2, <1>2, <1>3, <3>1 DEF TasksOfClients
      <4>. QED BY <1>1, <3>1, <4>1 DEF OfClient, IsOpen
    <3>2. CASE v # w
      <4>1. work'[v] = work[v] /\ work[v].at # "idle"
        BY <1>3, <2>4, <3>2
      <4>2. OfClient(work[v].task)
        BY <2>1, <2>2, <4>1 DEF TasksOfClients
      <4>. QED BY <1>1, <3>2, <4>1, <4>2 DEF OfClient, IsOpen
    <3>. QED BY <3>1, <3>2
  <2>5. ASSUME NEW i \in 1..Len(queue'), NEW j \in 1..Len(queue'), SameLogin(queue'[i], queue'[j])
        PROVE  i = j
    <3>1. /\ i + 1 \in 1..Len(queue) /\ j + 1 \in 1..Len(queue)
          /\ SameLogin(queue[i + 1], queue[j + 1])
      BY <1>2, <2>5
    <3>2. i + 1 = j + 1
      BY <2>1, <2>2, <3>1 DEF TasksOfClients
    <3>. QED BY <3>2
  <2>6. ASSUME NEW v \in Workers, NEW i \in 1..Len(queue'), work'[v].at # "idle"
        PROVE  ~SameLogin(work'[v].task, queue'[i])
    <3>1. i + 1 \in 1..Len(queue) /\ queue'[i] = queue[i + 1] /\ i + 1 # 1
      BY <1>2
    <3>. QED BY <1>2, <2>1, <2>2, <2>4, <2>6, <3>1 DEF TasksOfClients
  <2>7. ASSUME NEW v \in Workers, NEW u \in Workers, work'[v].at # "idle", work'[u].at # "idle",
               SameLogin(work'[v].task, work'[u].task)
        PROVE  v = u
    <3>1. CASE v # w /\ u # w
      BY <2>1, <2>2, <2>4, <2>7, <3>1 DEF TasksOfClients
    <3>2. CASE v # w /\ u = w
      BY <1>2, <2>1, <2>2, <2>4, <2>7, <3>2 DEF TasksOfClients
    <3>3. CASE v = w /\ u # w
      <4>1. OfClient(queue[1]) /\ OfClient(work[u].task) /\ work[u].at # "idle"
            /\ SameLogin(queue[1], work[u].task)
        BY <1>2, <2>1, <2>2, <2>4, <2>7, <3>3 DEF TasksOfClients
      <4>2. SameLogin(work[u].task, queue[1])
        BY <4>1 DEF OfClient, SameLogin
      <4>. QED BY <1>2, <2>1, <2>2, <4>1, <4>2 DEF TasksOfClients
    <3>. QED BY <3>1, <3>2, <3>3
  <2>. QED BY <2>3, <2>4, <2>5, <2>6, <2>7 DEF TasksOfClients, SameLogin
<1>. QED BY <1>1, <1>3, <1>4, WorkServed

\* The walk begins at the first node: none is before it.
LEMMA WalkStartServed == ASSUME SInv, NEW w \in Workers, WalkStart(w) PROVE Served'
<1>. USE DEF SInv, AInv, ListInv
<1>1. /\ \A v \in Workers : v # w => work'[v] = work[v]
      /\ work'[w].task = work[w].task /\ work'[w].at = "walk" /\ work'[w].node = head
      /\ work'[w].user = work[w].user /\ work[w].at = "start"
      /\ UNCHANGED <<fdOf, list, info, reactor, client, spwd, history, accepted, timeouts, queue>>
  BY DEF WalkStart, On, TypeOK, Locals
<1>2. TasksOfClients'
  BY <1>1, SameTasks
<1>3. \A m \in ConnIds : Listed(m) /\ m < head => FALSE
  <2>1. SUFFICES ASSUME NEW m \in ConnIds, Listed(m), m < head PROVE FALSE
    OBVIOUS
  <2>2. head \in ConnIds
    BY <2>1 DEF Listed, TypeOK
  <2>3. m \in Nat /\ head \in Nat
    BY <2>2
  <2>. QED BY <2>1, <2>3 DEF Listed
<1>4. ASSUME ~hasty, timeouts = 0, work[w].task.kind = "command"
      PROVE  /\ work[w].user \in {NULL, work[w].task.from}
             /\ head = NULL \/ head > work[w].task.from => work[w].user = work[w].task.from
  <2>1. work[w].user \in {NULL, work[w].task.from}
    BY <1>1, <1>4 DEF Served, CommandsMeet
  <2>2. work[w].task.from \in ConnIds /\ Listed(work[w].task.from)
    BY <1>1, <1>4, OwnTask, OpenListed
  <2>3. head # NULL /\ head <= work[w].task.from /\ head \in ConnIds
    BY <2>2 DEF Listed, TypeOK
  <2>4. head \in Nat /\ work[w].task.from \in Nat
    BY <2>2, <2>3
  <2>. QED BY <2>1, <2>3, <2>4
<1>. QED BY <1>1, <1>2, <1>3, <1>4, WorkServed

LEMMA WalkFreedServed == ASSUME SInv, NEW w \in Workers, WalkFreed(w) PROVE Served'
<1>1. /\ UNCHANGED <<fdOf, list, info, reactor, client, queue, work, spwd, history, counters>>
      /\ Served
  BY DEF WalkFreed, SInv
<1>2. RightPasswordPasses' /\ TasksOfClients'
  BY <1>1 DEF Served, RightPasswordPasses, TasksOfClients, OfClient, SameLogin, IsOpen
<1>3. LoginsMeet' /\ OwnSecret'
  BY <1>1 DEF Served, LoginsMeet, OwnSecret, FirstNode, Listed, IsOpen
<1>4. NodesAreOpen' /\ CommandsMeet'
  BY <1>1 DEF Served, NodesAreOpen, CommandsMeet, IsOpen
<1>. QED BY <1>2, <1>3, <1>4 DEF Served

\* The node a walk goes on with is behind the one it stands on.
LEMMA NextNode ==
  ASSUME AInv, NEW n \in ConnIds, n <= accepted, memory[n] = "live"
  PROVE  /\ n = accepted => next[n] = NULL
         /\ n # accepted => next[n] = n + 1 /\ n < accepted
<1>1. n \in Nat /\ accepted \in Nat
  BY DEF AInv, ListInv, TypeOK
<1>. QED BY <1>1 DEF AInv, ListInv, ListShape

\* The walk of a login stops at the first node with the descriptor.
LEMMA WalkLoginServed == ASSUME SInv, NEW w \in Workers, WalkLogin(w) PROVE Served'
<1>. USE DEF SInv, AInv, ListInv
<1>. DEFINE node == work[w].node
            fd == work[w].task.fd
<1>1. /\ work[w].at = "walk" /\ work[w].task.kind # "command" /\ node # NULL
      /\ memory[node] = "live" /\ node \in ConnIds /\ node <= accepted
      /\ UNCHANGED <<fdOf, list, info, reactor, client, spwd, history, accepted, timeouts, queue>>
  BY DEF WalkLogin, On, Kind, TypeOK, Locals, WalksOnLive
<1>2. /\ \A v \in Workers : v # w => work'[v] = work[v]
      /\ work'[w].task = work[w].task
      /\ sockfd[node] = fd => work'[w].user = node /\ work'[w].at \in {"name", "check"}
      /\ sockfd[node] # fd => work'[w].at = "walk" /\ work'[w].node = next[node]
  <2>1. work[w] \in Locals /\ work \in [Workers -> Locals]
    BY DEF TypeOK
  <2>2. CASE sockfd[node] = fd
    <3>1. work' = [work EXCEPT ![w].node = NULL, ![w].user = node,
                               ![w].at = IF Kind(w) = "login1" THEN "name" ELSE "check"]
      BY <2>2 DEF WalkLogin
    <3>. QED BY <2>1, <2>2, <3>1 DEF Locals
  <2>3. CASE sockfd[node] # fd
    <3>1. work' = [work EXCEPT ![w].node = next[node]]
      BY <2>3 DEF WalkLogin
    <3>. QED BY <1>1, <2>1, <2>3, <3>1 DEF Locals
  <2>. QED BY <2>2, <2>3
<1>3. TasksOfClients'
  BY <1>1, <1>2, SameTasks
<1>4. ASSUME ~hasty PROVE \A m \in ConnIds : Listed(m) /\ m < node => sockfd[m] # fd
  BY <1>1, <1>4 DEF Served, LoginsMeet
<1>5. ASSUME ~hasty, sockfd[node] = fd PROVE FirstNode(node, fd)
  <2>1. work[w].task.from \in ConnIds /\ IsOpen(work[w].task.from) /\ fd = fdOf[work[w].task.from]
    BY <1>1, <1>5, OwnTask
  <2>2. node # reactor.temp
    <3>1. CASE reactor.at = "free"
      <4>1. fd # reactor.fd
        BY <2>1, <3>1 DEF OpenIsListed
      <4>2. sockfd[reactor.temp] = reactor.fd
        BY <3>1 DEF ListShape
      <4>. QED BY <1>5, <4>1, <4>2
    <3>2. CASE reactor.at # "free"
      BY <1>1, <3>2 DEF ListShape
    <3>. QED BY <3>1, <3>2
  <2>3. head # NULL /\ (node = head \/ node > head)
    BY <1>1, <2>2 DEF ListShape
  <2>4. head \in Nat /\ node \in Nat
    BY <2>3, <1>1 DEF TypeOK
  <2>5. Listed(node)
    BY <1>1, <2>3, <2>4 DEF Listed
  <2>. QED BY <1>4, <1>5, <2>5 DEF FirstNode
<1>6. ASSUME ~hasty, sockfd[node] # fd, NEW m \in ConnIds, Listed(m), m < next[node]
      PROVE  sockfd[m] # fd
  <2>1. /\ work[w].task.from \in ConnIds /\ IsOpen(work[w].task.from) /\ node <= work[w].task.from
        /\ fd = fdOf[work[w].task.from] /\ work[w].task.from <= accepted
    BY <1>1, <1>6, OwnTask DEF WalkReaches
  <2>2. sockfd[work[w].task.from] = fd
    BY <2>1 DEF OpenIsListed
  <2>3. node # accepted
    <3>1. accepted \in Nat /\ node \in Nat /\ work[w].task.from \in Nat
      <4>1. accepted \in Nat
        BY DEF TypeOK
      <4>. QED BY ONLY <1>1, <2>1, <4>1, Constants
    <3>. QED BY <1>6, <2>1, <2>2, <3>1
  <2>4. next[node] = node + 1
    BY <1>1, <2>3, NextNode
  <2>5. m \in Nat /\ node \in Nat
    BY <1>1
  <2>6. m < node \/ m = node
    BY <1>6, <2>4, <2>5
  <2>. QED BY <1>4, <1>6, <2>6
<1>. QED BY <1>1, <1>2, <1>3, <1>5, <1>6, WorkServed

\* The walk for a name goes over every node; the last with the descriptor counts.
LEMMA WalkNameServed == ASSUME SInv, NEW w \in Workers, WalkName(w) PROVE Served'
<1>. USE DEF SInv, AInv, ListInv
<1>. DEFINE node == work[w].node
            t == work[w].task
<1>1. /\ work[w].at = "walk" /\ t.kind = "command" /\ node # NULL
      /\ memory[node] = "live" /\ node \in ConnIds /\ node <= accepted
      /\ UNCHANGED <<fdOf, list, info, reactor, client, spwd, history, accepted, timeouts, queue>>
  BY DEF WalkName, On, Kind, TypeOK, Locals, WalksOnLive
<1>2. /\ \A v \in Workers : v # w => work'[v] = work[v]
      /\ work'[w].task = t /\ work'[w].at = "walk" /\ work'[w].node = next[node]
      /\ work'[w].user = IF sockfd[node] = t.fd THEN node ELSE work[w].user
  BY <1>1 DEF WalkName, TypeOK, Locals
<1>3. TasksOfClients'
  BY <1>1, <1>2, SameTasks
<1>4. ASSUME ~hasty, timeouts = 0
      PROVE  /\ work'[w].user \in {NULL, t.from}
             /\ next[node] = NULL \/ next[node] > t.from => work'[w].user = t.from
  <2>1. /\ t.from \in ConnIds /\ IsOpen(t.from) /\ t.fd = fdOf[t.from] /\ t.from <= accepted
        /\ sockfd[t.from] = t.fd
    BY <1>1, <1>4, OwnTask DEF WalkReaches, OpenIsListed
  <2>2. /\ work[w].user \in {NULL, t.from}
        /\ node = NULL \/ node > t.from => work[w].user = t.from
    BY <1>1, <1>4 DEF Served, CommandsMeet
  <2>3. sockfd[node] = t.fd => node = t.from
    BY <1>1, <1>4, <2>1, OwnIsFirst DEF Served
  <2>4. accepted \in Nat /\ node \in Nat /\ t.from \in Nat
    <3>1. accepted \in Nat
      BY DEF TypeOK
    <3>. QED BY ONLY <1>1, <2>1, <3>1, Constants
  <2>5. ASSUME next[node] = NULL \/ next[node] > t.from PROVE work'[w].user = t.from
    <3>1. CASE node = accepted
      <4>1. node = t.from \/ node > t.from
        BY <2>1, <2>4, <3>1
      <4>. QED BY <1>2, <2>1, <2>2, <2>3, <4>1
    <3>2. CASE node # accepted
      <4>1. next[node] = node + 1
        BY <1>1, <3>2, NextNode
      <4>2. node + 1 # NULL
        BY <2>4
      <4>3. node = t.from \/ node > t.from
        BY <2>4, <2>5, <4>1, <4>2
      <4>. QED BY <1>2, <2>1, <2>2, <2>3, <4>3
    <3>. QED BY <3>1, <3>2
  <2>. QED BY <1>2, <2>2, <2>3, <2>5
<1>. QED BY <1>1, <1>2, <1>3, <1>4, WorkServed

LEMMA WalkEndServed == ASSUME SInv, NEW w \in Workers, WalkEnd(w) PROVE Served'
<1>. USE DEF SInv, AInv, ListInv
<1>1. /\ work[w].at = "walk" /\ work[w].node = NULL
      /\ \A v \in Workers : v # w => work'[v] = work[v]
      /\ work'[w].task = work[w].task /\ work'[w].user = work[w].user
      /\ work'[w].at \in {"run", "lost"}
      /\ work'[w].at = "run" => work[w].task.kind = "command"
      /\ UNCHANGED <<fdOf, list, info, reactor, client, spwd, history, accepted, timeouts, queue>>
  BY DEF WalkEnd, On, Kind, Goto, TypeOK, Locals
<1>2. TasksOfClients'
  BY <1>1, SameTasks
<1>3. ASSUME ~hasty, timeouts = 0, work'[w].at = "run" PROVE work[w].user = work[w].task.from
  BY <1>1, <1>3 DEF Served, CommandsMeet
<1>. QED BY <1>1, <1>2, <1>3, WorkServed

LEMMA TaskEndServed == ASSUME SInv, NEW w \in Workers, TaskEnd(w) PROVE Served'
<1>1. /\ \A v \in Workers : v # w => work'[v] = work[v]
      /\ work'[w].at = "idle"
      /\ UNCHANGED <<fdOf, list, info, reactor, client, spwd, history, accepted, timeouts, queue>>
  BY DEF TaskEnd, Ends, NoTask, SInv, AInv, ListInv, TypeOK
<1>2. TasksOfClients'
  BY <1>1, SameTasks
<1>. QED BY <1>1, <1>2, WorkServed

\* Only the client of a login meets the node the login is at.
LEMMA OwnNode ==
  ASSUME SInv, ~hasty, NEW w \in Workers, work[w].at \in {"name", "copy", "salt", "check"}
  PROVE  /\ FirstNode(work[w].user, work[w].task.fd) /\ work[w].user \in ConnIds
         /\ \A c \in ConnIds : IsOpen(c) /\ FirstNode(work[w].user, fdOf[c])
                                 => c = work[w].task.from
         /\ \A v \in Workers : work[v].at \in {"name", "copy", "salt", "check"}
                               /\ work[v].user = work[w].user => v = w
<1>1. \A v \in Workers : work[v].at \in {"name", "copy", "salt", "check"} =>
        /\ FirstNode(work[v].user, work[v].task.fd) /\ work[v].user \in ConnIds
        /\ work[v].task.kind # "command"
  <2>1. SUFFICES ASSUME NEW v \in Workers, work[v].at \in {"name", "copy", "salt", "check"}
                 PROVE  /\ FirstNode(work[v].user, work[v].task.fd) /\ work[v].user \in ConnIds
                        /\ work[v].task.kind # "command"
    OBVIOUS
  <2>2. work[v].user \in ConnIds /\ work[v].task.kind # "command"
    BY <2>1, WorkType DEF SInv, AInv, ListInv, TaskAt, Locals
  <2>. QED BY <2>1, <2>2 DEF SInv, Served, LoginsMeet
<1>2. \A c \in ConnIds : IsOpen(c) /\ FirstNode(work[w].user, fdOf[c]) => c = work[w].task.from
  <2>1. SUFFICES ASSUME NEW c \in ConnIds, IsOpen(c), FirstNode(work[w].user, fdOf[c])
                 PROVE  c = work[w].task.from
    OBVIOUS
  <2>2. fdOf[c] = work[w].task.fd
    BY <1>1, <2>1 DEF FirstNode
  <2>3. /\ work[w].task.from \in ConnIds /\ IsOpen(work[w].task.from)
        /\ work[w].task.fd = fdOf[work[w].task.from]
    BY OwnTask
  <2>. QED BY <2>1, <2>2, <2>3, OpenDiffer DEF SInv
<1>3. ASSUME NEW v \in Workers, work[v].at \in {"name", "copy", "salt", "check"},
             work[v].user = work[w].user
      PROVE  v = w
  <2>1. work[v].task.fd = work[w].task.fd
    BY <1>1, <1>3 DEF FirstNode
  <2>2. /\ work[w].task.from \in ConnIds /\ IsOpen(work[w].task.from)
        /\ work[w].task.fd = fdOf[work[w].task.from]
    BY OwnTask
  <2>3. /\ work[v].task.from \in ConnIds /\ IsOpen(work[v].task.from)
        /\ work[v].task.fd = fdOf[work[v].task.from]
    BY <1>3, OwnTask
  <2>4. work[v].task.from = work[w].task.from
    BY <2>1, <2>2, <2>3, OpenDiffer DEF SInv
  <2>. QED BY <1>1, <1>3, <2>4 DEF SInv, Served, TasksOfClients, SameLogin
<1>4. FirstNode(work[w].user, work[w].task.fd) /\ work[w].user \in ConnIds
  BY <1>1
<1>5. \A v \in Workers : work[v].at \in {"name", "copy", "salt", "check"}
                          /\ work[v].user = work[w].user => v = w
  BY <1>3
<1>. QED BY ONLY <1>2, <1>4, <1>5

\* A step of a login in getspnam: the clients stay as they are.
LEMMA LoginNameServed == ASSUME SInv, NEW w \in Workers, LoginName(w) PROVE Served'
<1>. USE DEF SInv, AInv, ListInv
<1>1. /\ work[w].at = "name" /\ work[w].task.data \in Names
      /\ \A v \in Workers : v # w => work'[v] = work[v]
      /\ work'[w].task = work[w].task /\ work'[w].user = work[w].user /\ work'[w].at = "copy"
      /\ name' = [name EXCEPT ![work[w].user] = work[w].task.data]
      /\ spwd' = work[w].task.data
      /\ overlapped' = (overlapped \/ \E v \in Workers : work[v].at \in {"copy", "salt"})
      /\ UNCHANGED <<fdOf, list, encrypted, reactor, client, hasty, refused, accepted, timeouts,
                     queue>>
  <2>1. work[w].task \in Task /\ work[w].task.kind = "login1" /\ work[w].at = "name"
    BY DEF LoginName, On, TaskAt
  <2>2. work[w].task.data \in Names
    BY <2>1, TaskType
  <2>. QED BY <2>1, <2>2 DEF LoginName, On, Goto, TypeOK, Locals
<1>2. TasksOfClients'
  BY <1>1, SameTasks
<1>3. \A n \in ConnIds : n # work[w].user => name'[n] = name[n]
  BY <1>1 DEF TypeOK
<1>4. LoginsMeet'
  <2>1. SUFFICES ASSUME ~hasty PROVE LoginsMeet'
    BY <1>1 DEF LoginsMeet
  <2>2. LoginsMeet
    BY DEF Served
  <2>3. work[w].user \in ConnIds /\ name'[work[w].user] = work[w].task.data
    BY <1>1, <2>1, OwnNode DEF TypeOK
  <2>4. ASSUME NEW v \in Workers
        PROVE  /\ work'[v].at = "walk" /\ work'[v].task.kind # "command" =>
                    \A m \in ConnIds : Listed(m)' /\ m < work'[v].node
                                         => sockfd'[m] # work'[v].task.fd
               /\ work'[v].at \in {"name", "copy", "salt", "check"} =>
                    FirstNode(work[v].user, work[v].task.fd)'
               /\ work'[v].at \in {"copy", "salt"} => name'[work'[v].user] = work'[v].task.data
    <3>1. CASE v = w
      BY <1>1, <2>1, <2>2, <2>3, <3>1 DEF LoginsMeet, FirstNode, Listed
    <3>2. CASE v # w
      <4>1. ASSUME work[v].at \in {"copy", "salt"} PROVE name'[work[v].user] = work[v].task.data
        <5>1. work[v].user \in ConnIds /\ work[v].user # work[w].user
          BY <1>1, <2>1, <3>2, <4>1, OwnNode
        <5>. QED BY <1>3, <2>1, <2>2, <4>1, <5>1 DEF LoginsMeet
      <4>2. work'[v] = work[v]
        BY <1>1, <3>2
      <4>. QED BY <1>1, <2>1, <2>2, <4>1, <4>2 DEF LoginsMeet, FirstNode, Listed
    <3>. QED BY <3>1, <3>2
  <2>5. ASSUME NEW c \in ConnIds, NEW n \in ConnIds, IsOpen(c)',
               client'[c].at \in {"salted", "answer", "in"}, FirstNode(n, fdOf[c])'
        PROVE  name'[n] = client'[c].who
    <3>1. IsOpen(c) /\ client'[c] = client[c] /\ FirstNode(n, fdOf[c])
      BY <1>1, <2>5 DEF IsOpen, FirstNode, Listed
    <3>2. n # work[w].user
      <4>1. OfClient(work[w].task) /\ work[w].task.kind = "login1"
        BY <1>1, <2>1 DEF Served, TasksOfClients, TaskAt
      <4>2. c # work[w].task.from
        BY <2>5, <3>1, <4>1 DEF OfClient
      <4>. QED BY <1>1, <2>1, <3>1, <4>2, OwnNode
    <3>. QED BY <1>3, <2>1, <2>2, <2>5, <3>1, <3>2 DEF LoginsMeet
  <2>. QED BY <1>1, <2>1, <2>4, <2>5 DEF LoginsMeet
<1>5. OwnSecret'
  <2>1. SUFFICES ASSUME ~hasty, ~overlapped, \A v \in Workers : work[v].at \notin {"copy", "salt"}
                 PROVE  OwnSecret'
    BY <1>1 DEF OwnSecret
  <2>2. \A v \in Workers : work'[v].at \in {"copy", "salt"} => v = w
    BY <1>1, <2>1
  <2>3. \A c \in ConnIds : IsOpen(c)' /\ client'[c].at \in {"salted", "answer"} =>
          /\ client'[c].salt = client'[c].who
          /\ \A n \in ConnIds : FirstNode(n, fdOf[c])' => encrypted'[n] = client'[c].who
    BY <1>1, <2>1 DEF Served, OwnSecret, FirstNode, Listed, IsOpen
  <2>4. \A v \in Workers : /\ work'[v].at \in {"copy", "salt"} => spwd' = work'[v].task.data
                           /\ work'[v].at # "salt"
    BY <1>1, <2>1, <2>2
  <2>. QED BY <2>2, <2>3, <2>4 DEF OwnSecret
<1>6. RightPasswordPasses' /\ NodesAreOpen'
  BY <1>1 DEF Served, RightPasswordPasses, NodesAreOpen, IsOpen
<1>7. CommandsMeet'
  BY <1>1 DEF Served, CommandsMeet
<1>. QED BY <1>2, <1>4, <1>5, <1>6, <1>7 DEF Served

LEMMA LoginCopyServed == ASSUME SInv, NEW w \in Workers, LoginCopy(w) PROVE Served'
<1>. USE DEF SInv, AInv, ListInv
<1>1. /\ work[w].at = "copy"
      /\ \A v \in Workers : v # w => work'[v] = work[v]
      /\ work'[w].task = work[w].task /\ work'[w].user = work[w].user /\ work'[w].at = "salt"
      /\ encrypted' = [encrypted EXCEPT ![work[w].user] = spwd]
      /\ UNCHANGED <<fdOf, list, name, reactor, client, spwd, history, accepted, timeouts, queue>>
  BY DEF LoginCopy, On, Goto, TypeOK, Locals
<1>2. TasksOfClients'
  BY <1>1, SameTasks
<1>3. LoginsMeet'
  <2>1. SUFFICES ASSUME ~hasty PROVE LoginsMeet'
    BY <1>1 DEF LoginsMeet
  <2>2. LoginsMeet
    BY DEF Served
  <2>3. ASSUME NEW v \in Workers
        PROVE  /\ work'[v].at = "walk" /\ work'[v].task.kind # "command" =>
                    \A m \in ConnIds : Listed(m)' /\ m < work'[v].node
                                         => sockfd'[m] # work'[v].task.fd
               /\ work'[v].at \in {"name", "copy", "salt", "check"} =>
                    FirstNode(work[v].user, work[v].task.fd)'
               /\ work'[v].at \in {"copy", "salt"} => name'[work'[v].user] = work'[v].task.data
    <3>1. CASE v = w
      BY <1>1, <2>1, <2>2, <3>1 DEF LoginsMeet, FirstNode, Listed
    <3>2. CASE v # w
      BY <1>1, <2>1, <2>2, <3>2 DEF LoginsMeet, FirstNode, Listed
    <3>. QED BY <3>1, <3>2
  <2>. QED BY <1>1, <2>1, <2>2, <2>3 DEF LoginsMeet, FirstNode, Listed, IsOpen
<1>4. OwnSecret'
  <2>1. SUFFICES ASSUME ~hasty, ~overlapped PROVE OwnSecret'
    BY <1>1 DEF OwnSecret
  <2>2. OwnSecret
    BY DEF Served
  <2>3. \A v \in Workers : work'[v].at \in {"copy", "salt"} => v = w
    BY <1>1, <2>1, <2>2 DEF OwnSecret
  <2>4. spwd = work[w].task.data /\ work[w].user \in ConnIds
        /\ encrypted'[work[w].user] = spwd
        /\ \A n \in ConnIds : n # work[w].user => encrypted'[n] = encrypted[n]
    BY <1>1, <2>1, <2>2, OwnNode DEF OwnSecret, TypeOK
  <2>5. ASSUME NEW c \in ConnIds, IsOpen(c)', client'[c].at \in {"salted", "answer"}
        PROVE  /\ client'[c].salt = client'[c].who
               /\ \A n \in ConnIds : FirstNode(n, fdOf[c])' => encrypted'[n] = client'[c].who
    <3>1. IsOpen(c) /\ client'[c] = client[c]
          /\ \A n \in ConnIds : FirstNode(n, fdOf[c])' <=> FirstNode(n, fdOf[c])
      BY <1>1, <2>5 DEF IsOpen, FirstNode, Listed
    <3>2. c # work[w].task.from
      <4>1. OfClient(work[w].task) /\ work[w].task.kind = "login1"
        BY <1>1, <2>1 DEF Served, TasksOfClients, TaskAt
      <4>. QED BY <2>5, <3>1, <4>1 DEF OfClient
    <3>3. \A n \in ConnIds : FirstNode(n, fdOf[c]) => n # work[w].user
      BY <1>1, <2>1, <3>1, <3>2, OwnNode
    <3>. QED BY <2>1, <2>2, <2>4, <2>5, <3>1, <3>3 DEF OwnSecret
  <2>6. \A v \in Workers : /\ work'[v].at \in {"copy", "salt"} => spwd' = work'[v].task.data
                           /\ work'[v].at = "salt" => encrypted'[work'[v].user] = work'[v].task.data
    BY <1>1, <2>3, <2>4
  <2>. QED BY <2>3, <2>5, <2>6 DEF OwnSecret
<1>5. RightPasswordPasses' /\ NodesAreOpen'
  BY <1>1 DEF Served, RightPasswordPasses, NodesAreOpen, IsOpen
<1>6. CommandsMeet'
  BY <1>1 DEF Served, CommandsMeet
<1>. QED BY <1>2, <1>3, <1>4, <1>5, <1>6 DEF Served

\* A reply goes to the client who waits for it: no other has the descriptor.
LEMMA ReplyServed ==
  ASSUME SInv, NEW w \in Workers, work[w].at \in {"salt", "check"}, Ends(w),
         ~hasty => LET f == work[w].task.from IN
                   /\ \A d \in ConnIds : d # f => client'[d] = client[d]
                   /\ client'[f].at \in {"salted", "in"} /\ client'[f].who = client[f].who
                   /\ work[w].at = "salt" => client'[f].salt = spwd
                   /\ work[w].at = "check" => client'[f].salt = client[f].salt,
         UNCHANGED <<fdOf, list, info, reactor, queue, spwd, cut, hasty, overlapped,
                     accepted, timeouts>>
  PROVE  TasksOfClients' /\ LoginsMeet' /\ OwnSecret' /\ NodesAreOpen' /\ CommandsMeet'
<1>. USE DEF SInv, AInv, ListInv
<1>. DEFINE f == work[w].task.from
<1>1. /\ \A v \in Workers : v # w => work'[v] = work[v]
      /\ work'[w].at = "idle"
  BY DEF Ends, NoTask, TypeOK
<1>2. ASSUME ~hasty
      PROVE  /\ f \in ConnIds /\ IsOpen(f) /\ OfClient(work[w].task)
             /\ work[w].task.kind # "command" /\ FirstNode(work[w].user, fdOf[f])
             /\ work[w].user \in ConnIds
             /\ work[w].at = "salt" => client[f].who = work[w].task.data
             /\ work[w].at = "check" => client[f].at = "answer"
  <2>1. work[w].task.kind = IF work[w].at = "salt" THEN "login1" ELSE "login2"
    BY DEF TaskAt
  <2>2. f \in ConnIds /\ IsOpen(f) /\ OfClient(work[w].task) /\ work[w].task.fd = fdOf[f]
    BY <1>2, OwnTask
  <2>3. FirstNode(work[w].user, fdOf[f]) /\ work[w].user \in ConnIds
    BY <1>2, <2>2, OwnNode
  <2>. QED BY <2>1, <2>2, <2>3 DEF OfClient
<1>3. TasksOfClients'
  <2>1. SUFFICES ASSUME ~hasty PROVE TasksOfClients'
    BY DEF TasksOfClients
  <2>2. TasksOfClients
    BY DEF Served
  <2>3. ASSUME NEW t, t.from \in ConnIds, OfClient(t), ~SameLogin(work[w].task, t)
        PROVE  OfClient(t)'
    <3>1. CASE t.from = f
      <4>1. t.kind = "command"
        BY <1>2, <2>1, <2>3, <3>1 DEF SameLogin
      <4>2. client[f].at = "in"
        BY <2>3, <3>1, <4>1 DEF OfClient
      <4>. QED BY <1>2, <2>1, <4>2 DEF OfClient
    <3>2. CASE t.from # f
      BY <2>1, <2>3, <3>2 DEF OfClient, IsOpen
    <3>. QED BY <3>1, <3>2
  <2>4. \A i \in 1..Len(queue) : OfClient(queue[i])'
    <3>1. SUFFICES ASSUME NEW i \in 1..Len(queue) PROVE OfClient(queue[i])'
      OBVIOUS
    <3>2. queue[i].from \in ConnIds /\ OfClient(queue[i]) /\ ~SameLogin(work[w].task, queue[i])
      BY <2>1, <2>2, QueuedTask DEF TasksOfClients
    <3>. QED BY <2>3, <3>2 DEF OfClient, IsOpen
  <2>5. \A v \in Workers : v # w /\ work[v].at # "idle" => OfClient(work[v].task)'
    <3>1. SUFFICES ASSUME NEW v \in Workers, v # w, work[v].at # "idle"
                   PROVE  OfClient(work[v].task)'
      OBVIOUS
    <3>2. /\ work[v].task.from \in ConnIds /\ OfClient(work[v].task)
          /\ ~SameLogin(work[w].task, work[v].task)
      BY <2>1, <2>2, <3>1, OwnTask DEF TasksOfClients
    <3>3. work'[v] = work[v]
      BY <1>1, <3>1
    <3>4. CASE work[v].task.from = f
      <4>1. work[v].task.kind = "command"
        BY <1>2, <2>1, <3>2, <3>4 DEF SameLogin
      <4>2. client[f].at = "in"
        BY <3>2, <3>4, <4>1 DEF OfClient
      <4>. QED BY <1>2, <2>1, <4>2 DEF OfClient
    <3>5. CASE work[v].task.from # f
      BY <2>1, <3>2, <3>3, <3>5 DEF OfClient, IsOpen
    <3>. QED BY <3>4, <3>5
  <2>6. \A v \in Workers : work'[v].at # "idle" => v # w /\ work'[v] = work[v]
    BY <1>1
  <2>. QED BY <2>1, <2>2, <2>4, <2>5, <2>6 DEF TasksOfClients, SameLogin
<1>4. LoginsMeet'
  <2>1. SUFFICES ASSUME ~hasty PROVE LoginsMeet'
    BY DEF LoginsMeet
  <2>2. LoginsMeet
    BY DEF Served
  <2>3. ASSUME NEW c \in ConnIds, NEW n \in ConnIds, IsOpen(c)',
               client'[c].at \in {"salted", "answer", "in"}, FirstNode(n, fdOf[c])'
        PROVE  name[n] = client'[c].who
    <3>1. IsOpen(c) /\ FirstNode(n, fdOf[c])
      BY <2>3 DEF IsOpen, FirstNode, Listed
    <3>2. CASE c # f
      BY <2>1, <2>2, <2>3, <3>1, <3>2 DEF LoginsMeet
    <3>3. CASE c = f /\ work[w].at = "salt"
      <4>1. n = work[w].user
        BY <1>2, <2>1, <3>1, <3>3, FirstUnique
      <4>. QED BY <1>2, <2>1, <2>2, <3>3, <4>1 DEF LoginsMeet
    <3>4. CASE c = f /\ work[w].at = "check"
      BY <1>2, <2>1, <2>2, <3>1, <3>4 DEF LoginsMeet
    <3>. QED BY <3>2, <3>3, <3>4
  <2>4. ASSUME NEW v \in Workers
        PROVE  /\ work'[v].at = "walk" /\ work'[v].task.kind # "command" =>
                    \A m \in ConnIds : Listed(m)' /\ m < work'[v].node
                                         => sockfd'[m] # work'[v].task.fd
               /\ work'[v].at \in {"name", "copy", "salt", "check"} =>
                    FirstNode(work[v].user, work[v].task.fd)'
               /\ work'[v].at \in {"copy", "salt"} => name'[work'[v].user] = work'[v].task.data
    <3>1. CASE v = w
      BY <1>1, <3>1
    <3>2. CASE v # w
      BY <1>1, <2>1, <2>2, <3>2 DEF LoginsMeet, FirstNode, Listed
    <3>. QED BY <3>1, <3>2
  <2>. QED BY <2>1, <2>3, <2>4 DEF LoginsMeet
<1>5. OwnSecret'
  <2>1. SUFFICES ASSUME ~hasty, ~overlapped PROVE OwnSecret'
    BY DEF OwnSecret
  <2>2. OwnSecret
    BY DEF Served
  <2>3. ASSUME NEW c \in ConnIds, IsOpen(c)', client'[c].at \in {"salted", "answer"}
        PROVE  /\ client'[c].salt = client'[c].who
               /\ \A n \in ConnIds : FirstNode(n, fdOf[c])' => encrypted[n] = client'[c].who
    <3>1. IsOpen(c) /\ \A n \in ConnIds : FirstNode(n, fdOf[c])' <=> FirstNode(n, fdOf[c])
      BY <2>3 DEF IsOpen, FirstNode, Listed
    <3>2. CASE c # f
      BY <2>1, <2>2, <2>3, <3>1, <3>2 DEF OwnSecret
    <3>3. CASE c = f /\ work[w].at = "salt"
      <4>1. \A n \in ConnIds : FirstNode(n, fdOf[c]) => n = work[w].user
        BY <1>2, <2>1, <3>1, <3>3, FirstUnique
      <4>2. /\ encrypted[work[w].user] = work[w].task.data
            /\ spwd = work[w].task.data
        BY <2>1, <2>2, <3>3 DEF OwnSecret
      <4>. QED BY <1>2, <2>1, <3>1, <3>3, <4>1, <4>2
    <3>4. CASE c = f /\ work[w].at = "check"
      BY <1>2, <2>1, <2>2, <3>1, <3>4 DEF OwnSecret
    <3>. QED BY <3>2, <3>3, <3>4
  <2>4. \A v \in Workers : work'[v].at # "idle" => v # w /\ work'[v] = work[v]
    BY <1>1
  <2>5. \A v, u \in Workers : {work'[v].at, work'[u].at} \subseteq {"copy", "salt"} => v = u
    <3>1. SUFFICES ASSUME NEW v \in Workers, NEW u \in Workers,
                          {work'[v].at, work'[u].at} \subseteq {"copy", "salt"}
                   PROVE  v = u
      OBVIOUS
    <3>2. work'[v] = work[v] /\ work'[u] = work[u]
      BY <2>4, <3>1
    <3>. QED BY <2>1, <2>2, <3>1, <3>2 DEF OwnSecret
  <2>6. \A v \in Workers :
          /\ work'[v].at \in {"copy", "salt"} => spwd = work'[v].task.data
          /\ work'[v].at = "salt" => encrypted[work'[v].user] = work'[v].task.data
    BY <2>1, <2>2, <2>4 DEF OwnSecret
  <2>. QED BY <2>3, <2>5, <2>6 DEF OwnSecret
<1>6. NodesAreOpen'
  BY DEF Served, NodesAreOpen, IsOpen
<1>7. CommandsMeet'
  BY <1>1 DEF Served, CommandsMeet
<1>. QED BY <1>3, <1>4, <1>5, <1>6, <1>7

LEMMA LoginSaltServed == ASSUME SInv, NEW w \in Workers, LoginSalt(w) PROVE Served'
<1>. USE DEF SInv, AInv, ListInv
<1>. DEFINE f == work[w].task.from
<1>1. ASSUME ~hasty
      PROVE  /\ \A d \in ConnIds : d # f => client'[d] = client[d]
             /\ client'[f].at = "salted" /\ client'[f].who = client[f].who
             /\ client'[f].salt = spwd
  <2>1. work[w].at = "salt" /\ work[w].task.kind = "login1"
    BY DEF LoginSalt, On, TaskAt
  <2>2. /\ f \in ConnIds /\ IsOpen(f) /\ OfClient(work[w].task) /\ work[w].task.fd = fdOf[f]
    BY <1>1, <2>1, OwnTask
  <2>3. \A d \in ConnIds : fdOf[d] = work[w].task.fd => d = f
    BY <2>2, OpenDiffer
  <2>4. client[f].at = "salt" /\ client[f] \in Client
    BY <2>1, <2>2 DEF OfClient, TypeOK
  <2>5. client'[f] = [client[f] EXCEPT !.at = "salted", !.salt = spwd]
    BY <2>2, <2>4 DEF LoginSalt, Reply
  <2>6. \A d \in ConnIds : d # f => client'[d] = client[d]
    BY <2>3 DEF LoginSalt, Reply
  <2>. QED BY <2>4, <2>5, <2>6 DEF Client
<1>2. TasksOfClients' /\ LoginsMeet' /\ OwnSecret' /\ NodesAreOpen' /\ CommandsMeet'
  BY <1>1, ReplyServed DEF LoginSalt, On
<1>. QED BY <1>2 DEF LoginSalt, Served, RightPasswordPasses

LEMMA LoginCheck2Served == ASSUME SInv, NEW w \in Workers, LoginCheck2(w) PROVE Served'
<1>. USE DEF SInv, AInv, ListInv
<1>. DEFINE f == work[w].task.from
            passes == work[w].task.data = <<encrypted[work[w].user], encrypted[work[w].user]>>
            at == IF passes THEN "in" ELSE "salted"
<1>1. work[w].at = "check" /\ work[w].task.kind = "login2"
  BY DEF LoginCheck2, On, TaskAt
<1>2. ASSUME ~hasty
      PROVE  /\ f \in ConnIds /\ IsOpen(f) /\ work[w].task.fd = fdOf[f]
             /\ client[f].at = "answer" /\ client[f] \in Client
             /\ work[w].task.data = <<client[f].who, client[f].salt>>
  <2>1. f \in ConnIds /\ IsOpen(f) /\ OfClient(work[w].task) /\ work[w].task.fd = fdOf[f]
    BY <1>1, <1>2, OwnTask
  <2>. QED BY <1>1, <2>1 DEF OfClient, TypeOK
<1>3. ASSUME ~hasty
      PROVE  /\ \A d \in ConnIds : d # f => client'[d] = client[d]
             /\ client'[f].at \in {"salted", "in"} /\ client'[f].who = client[f].who
             /\ client'[f].salt = client[f].salt
  <2>1. \A d \in ConnIds : fdOf[d] = work[w].task.fd => d = f
    BY <1>2, <1>3, OpenDiffer
  <2>2. client'[f] = [client[f] EXCEPT !.at = at]
    BY <1>2, <1>3 DEF LoginCheck2, Reply
  <2>3. \A d \in ConnIds : d # f => client'[d] = client[d]
    BY <2>1 DEF LoginCheck2, Reply
  <2>. QED BY <1>2, <1>3, <2>2, <2>3 DEF Client
<1>4. TasksOfClients' /\ LoginsMeet' /\ OwnSecret' /\ NodesAreOpen' /\ CommandsMeet'
  BY <1>1, <1>3, ReplyServed DEF LoginCheck2
<1>5. ~hasty /\ ~overlapped => passes
  <2>1. SUFFICES ASSUME ~hasty, ~overlapped PROVE passes
    OBVIOUS
  <2>2. FirstNode(work[w].user, fdOf[f]) /\ work[w].user \in ConnIds
    BY <1>1, <1>2, <2>1, OwnNode
  <2>3. client[f].salt = client[f].who /\ encrypted[work[w].user] = client[f].who
    BY <1>2, <2>1, <2>2 DEF Served, OwnSecret
  <2>. QED BY <1>2, <2>1, <2>3
<1>6. refused' = (refused \/ ~passes) /\ overlapped' = overlapped /\ hasty' = hasty
  BY DEF LoginCheck2
<1>7. RightPasswordPasses'
  BY <1>5, <1>6 DEF Served, RightPasswordPasses
<1>. QED BY <1>4, <1>7 DEF Served

LEMMA NextServed == ASSUME SInv, [Next]_vars PROVE Served'
<1>1. CASE \E c \in ConnIds : HandleMessage(c) \/ Hangup(c) \/ TimeoutClose(c)
  BY <1>1, MessageServed, HangupServed, TimeoutServed
<1>2. CASE Accept \/ Unlink \/ Free \/ Spin
  BY <1>2, AcceptServed, UnlinkServed, FreeServed, SpinServed
<1>3. ASSUME NEW w \in Workers, WorkerStep(w) PROVE Served'
  BY <1>3, DequeServed, WalkStartServed, WalkFreedServed, WalkLoginServed, WalkNameServed,
     WalkEndServed, LoginNameServed, LoginCopyServed, LoginSaltServed, LoginCheck2Served,
     TaskEndServed DEF WorkerStep
<1>4. CASE UNCHANGED vars
  <2>. USE <1>4 DEF vars, SInv, Served
  <2>1. RightPasswordPasses' /\ NodesAreOpen' /\ CommandsMeet'
    BY DEF RightPasswordPasses, NodesAreOpen, CommandsMeet, IsOpen
  <2>2. TasksOfClients'
    BY DEF TasksOfClients, OfClient, SameLogin, IsOpen
  <2>3. LoginsMeet'
    BY DEF LoginsMeet, FirstNode, Listed, IsOpen
  <2>4. OwnSecret'
    BY DEF OwnSecret, FirstNode, Listed, IsOpen
  <2>. QED BY <2>1, <2>2, <2>3, <2>4
<1>5. CASE Done
  BY <1>4, <1>5 DEF Done
<1>. QED BY <1>1, <1>2, <1>3, <1>4, <1>5 DEF Next, ReactorStep

\* Whoever knows his password is let in, unless two getspnam overlapped or a connection
\* was closed on a task, and as long as the wheel closes nobody either, commands are
\* executed in the name their client logged in with (bussiness.c, dataTransfer.c).
THEOREM ServedInOwnName == Spec => []ServedAsHimself
<1>1. Init => AInv /\ Served
  BY InitInv, InitServed
<1>2. AInv /\ Served /\ [Next]_vars => AInv' /\ Served'
  BY NextInv, NextServed DEF SInv
<1>3. AInv /\ Served => ServedAsHimself
  BY NamesFollow DEF Served, ServedAsHimself
<1>. QED BY <1>1, <1>2, <1>3, PTL DEF Spec
==============================================================================
