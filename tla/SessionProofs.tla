----------------------------- MODULE SessionProofs -----------------------------
(***************************************************************************)
(* Proofs about Session, for a user who lets each command finish, any      *)
(* number of workers, commands and refusals and any size of the file: the  *)
(* two ends are at a place of the dialogue (InDialogue), which says what   *)
(* is in both streams, who works on the command and what the client waits  *)
(* for; or the client has given up a gets (GivenUp); or the model has      *)
(* stopped for one of the two reasons that Understood names (Stopped).     *)
(***************************************************************************)
EXTENDS Session, FiniteSetTheorems, TLAPS

-------------------------------------------------------------------------------
(* Commands and streams *)

\* The two enumerations agree but for a word that is no command.

LEMMA DoTask ==
  ASSUME NEW typed \in DOMAIN ClientType
  PROVE  doTask(ClientType[typed]) = IF typed = "notcmd" THEN "recv" ELSE typed
<1> DEFINE task == IF typed = "notcmd" THEN "recv" ELSE typed
<1>1. task \in DOMAIN ServerType /\ ServerType[task] = ClientType[typed]
  BY DEF ClientType, ServerType
<1>2. \A other \in DOMAIN ServerType : ServerType[other] = ClientType[typed] => other = task
  BY DEF ClientType, ServerType
<1> QED BY <1>1, <1>2 DEF doTask

\* handleMessage tells the transfers by the number the client gives them.
LEMMA TransferTypes ==
  ASSUME NEW typed \in DOMAIN ClientType
  PROVE  ClientType[typed] \in Transfers <=> typed \in {"puts", "gets"}
BY DEF ClientType, ServerType, Transfers

LEMMA OneUnit ==
  ASSUME NEW u
  PROVE  /\ <<u>> # <<>> /\ Head(<<u>>) = u /\ Tail(<<u>>) = <<>>
         /\ <<>> \o <<u>> = <<u>> /\ Append(<<>>, u) = <<u>> /\ Len(<<u>>) = 1
OBVIOUS

LEMMA TwoUnits ==
  ASSUME NEW u, NEW v
  PROVE  /\ <<u, v>> # <<>> /\ Head(<<u, v>>) = u /\ Tail(<<u, v>>) = <<v>>
         /\ <<>> \o <<u, v>> = <<u, v>>
         /\ Tail(Tail(<<u, v>>)) = <<>> /\ Len(<<u, v>>) = 2
OBVIOUS

LEMMA ThreeUnits ==
  ASSUME NEW u, NEW v, NEW x
  PROVE  /\ <<u, v, x>> # <<>> /\ Head(<<u, v, x>>) = u /\ Tail(<<u, v, x>>) = <<v, x>>
         /\ <<>> \o <<u, v, x>> = <<u, v, x>>
OBVIOUS

\* What is left of units of one kind when the first one is taken.
LEMMA DataTail ==
  ASSUME NEW S, NEW n \in Nat \ {0}, NEW s \in [1..n -> S]
  PROVE  s # <<>> /\ Head(s) \in S /\ Tail(s) \in [1..n - 1 -> S]
<1>1. s \in Seq(S) /\ Len(s) = n
  OBVIOUS
<1>2. s # <<>> /\ Head(s) = s[1]
  BY <1>1
<1>3. Tail(s) \in Seq(S) /\ Len(Tail(s)) = n - 1
  BY <1>1, <1>2
<1>4. Tail(s) \in [1..n - 1 -> S]
  <2> DEFINE t == Tail(s)  k == n - 1
  <2> HIDE DEF t, k
  <2>1. t \in Seq(S) /\ Len(t) = k
    BY <1>3 DEF t, k
  <2>2. t \in [1..k -> S]
    BY <2>1
  <2> QED BY <2>2 DEF t, k
<1> QED BY <1>1, <1>2, <1>4

\* A unit sent before others comes first.
LEMMA BehindHead ==
  ASSUME NEW S, NEW n \in Nat, NEW d \in [1..n -> S], NEW u
  PROVE  LET s == <<>> \o (<<u>> \o d) IN s # <<>> /\ Head(s) = u /\ Tail(s) = d
<1> DEFINE s == <<u>> \o d
<1>1. d \in Seq(S \cup {u}) /\ <<u>> \in Seq(S \cup {u}) /\ Len(d) = n
  OBVIOUS
<1>2. s \in Seq(S \cup {u}) /\ Len(s) = n + 1 /\ s[1] = u
  BY <1>1
<1>3. \A i \in 1..n : s[i + 1] = d[i]
  BY <1>1
<1>4. s # <<>> /\ Head(s) = u
  BY <1>2
<1>5. Tail(s) \in Seq(S \cup {u}) /\ Len(Tail(s)) = n /\ \A i \in 1..n : Tail(s)[i] = s[i + 1]
  BY <1>2, <1>4
<1>6. Tail(s) = d
  BY <1>1, <1>3, <1>5
<1>7. <<>> \o s = s
  BY <1>2
<1> QED BY <1>4, <1>6, <1>7

\* A length and what it announces, sent on an empty stream.
LEMMA SomeData ==
  ASSUME NEW n \in 0..Size, NEW u
  PROVE  LET s == <<>> \o (<<u>> \o Units("data", n)) IN
         s # <<>> /\ Head(s) = u /\ IsData(Tail(s), n)
<1>1. IsData(Units("data", n), n)
  BY SessionAssumption DEF IsData, Units
<1>2. n \in Nat
  BY SessionAssumption
<1> QED BY <1>1, <1>2, BehindHead DEF IsData

LEMMA NextData ==
  ASSUME NEW n \in 1..Size, NEW s, IsData(s, n)
  PROVE  s # <<>> /\ Head(s)[1] = "data" /\ IsData(Tail(s), n - 1)
<1>1. n \in Nat \ {0}
  BY SessionAssumption
<1> DEFINE S == {"data"} \X (1..Size)
<1>2. s # <<>> /\ Head(s) \in S /\ Tail(s) \in [1..n - 1 -> S]
  <2> HIDE DEF S
  <2>1. s \in [1..n -> S]
    BY DEF IsData, S
  <2> QED BY <1>1, <2>1, DataTail
<1> QED BY <1>2 DEF IsData

LEMMA NoData ==
  ASSUME NEW s, IsData(s, 0)
  PROVE  s = <<>>
BY DEF IsData

\* What is coming of the file is counted by the units on the stream.
LEMMA CountData ==
  ASSUME NEW n \in 0..Size, NEW s, IsData(s, n)
  PROVE  Coming(s) = n
<1>1. { i \in DOMAIN s : s[i][1] = "data" } = 1..n
  BY DEF IsData
<1>2. Cardinality(1..n) = n
  BY FS_Interval, SessionAssumption
<1> QED BY <1>1, <1>2 DEF Coming

-------------------------------------------------------------------------------
\* The inductive invariant has three parts, in the order in which a behaviour may go through
\* them: the dialogue, ...
Going == ~outOfStep /\ ~notOpened
Inv == TypeOK /\ Going /\ InDialogue

\* ... a gets that the client has given up, ...
GivenUp == TypeOK /\ ~outOfStep /\ notOpened /\ \E w \in Workers : Abandoned(w)

\* ... and the end, with the properties that are left to hold.
Stopped ==
  /\ TypeOK /\ outOfStep /\ (Nameless \/ notOpened)
  /\ CallsTyped /\ OneReader /\ PutsWhole /\ GetsWhole

LEMMA TypedParts ==
  ASSUME NEW m \in Typed
  PROVE  /\ m[1] \in DOMAIN ClientType /\ m[2] \in {"-", "name", "missing", "none"}
         /\ Awaits(m[1], m[2]) \in {"salt", "ok", "putsSize", "getsFlag", "loop"}
BY DEF Typed, Awaits, ClientType

LEMMA TaskTyped ==
  ASSUME NEW typed \in DOMAIN ClientType, NEW arg \in {"-", "name", "missing", "none"},
         NEW at \in {"start", "sha", "len", "data", "offset"}, NEW left \in 0..Size
  PROVE  Task(typed, arg, at, left) \in Tasks
<1>1. doTask(ClientType[typed]) \in DOMAIN ServerType
  BY DoTask DEF ClientType, ServerType
<1> QED BY <1>1 DEF Task, Tasks

LEMMA NotFree ==
  ASSUME NEW typed, NEW arg, NEW at, NEW left, at # "idle"
  PROVE  Task(typed, arg, at, left) # NoTask
BY DEF Task, NoTask

\* Where the dialogue can be, seen from the client, the reactor, the queue, a worker.
LEMMA Typing ==
  ASSUME Inv, client.pc \in {"name", "passwd"}
  PROVE  Idle /\ toClient = <<>>
BY TypedParts DEF Inv, InDialogue, Idle, LoginAnswered, GetsAnswered, PutsAgreed, GetsAgreed,
   Asked, Received

LEMMA SaltOrOk ==
  ASSUME Inv, client.pc \in {"salt", "ok"}, toClient # <<>>
  PROVE  LoginAnswered
BY TypedParts DEF Inv, InDialogue, Idle, LoginAnswered, GetsAnswered, PutsAgreed, GetsAgreed,
   Asked, Received

LEMMA AtPrompt ==
  ASSUME Inv, client.pc = "loop", toClient # <<>>
  PROVE  Idle
BY TypedParts DEF Inv, InDialogue, Idle, LoginAnswered, GetsAnswered, PutsAgreed, GetsAgreed,
   Asked, Received

LEMMA SettledIsIdle ==
  ASSUME Inv, client.pc = "loop", Settled
  PROVE  Idle /\ toClient = <<>>
BY TypedParts, NotFree DEF Inv, Going, Settled, InDialogue, Idle, LoginAnswered, GetsAnswered, PutsAgreed,
   GetsAgreed,
   Asked, Received, Queued, RunBy, Quiet, Free

LEMMA AtPutsSize ==
  ASSUME Inv, client.pc = "putsSize", toClient # <<>>
  PROVE  ~polled /\ toServer = <<>> /\ toClient = <<<<"size", stored>>>>
         /\ \E w \in Workers : RunBy(w, Task("puts", "name", "len", 0))
BY TypedParts DEF Inv, InDialogue, Idle, LoginAnswered, GetsAnswered, PutsAgreed, GetsAgreed,
   Asked, Received

LEMMA AtGetsFlag ==
  ASSUME Inv, client.pc = "getsFlag", toClient # <<>>
  PROVE  /\ toServer = <<>>
         /\ \/ ~polled /\ toClient = <<<<"flag", 0>>>>
               /\ \E w \in Workers : RunBy(w, Task("gets", "name", "offset", 0))
            \/ Free /\ polled /\ toClient = <<<<"flag", -1>>>>
BY TypedParts DEF Inv, InDialogue, Idle, LoginAnswered, GetsAnswered, PutsAgreed, GetsAgreed,
   Asked, Received

LEMMA AtGetsData ==
  ASSUME Inv, client.pc \in {"getsLen", "getsData"}, toClient # <<>>
  PROVE  GetsAnswered
BY TypedParts DEF Inv, InDialogue, Idle, LoginAnswered, GetsAnswered, PutsAgreed, GetsAgreed,
   Asked, Received

LEMMA AtReactor ==
  ASSUME Inv, polled, toServer # <<>>
  PROVE  \E m \in Typed :
           \/ Asked(m[1], m[2])
           \/ /\ m = <<"puts", "none">> /\ Received(m[1], m[2]) /\ toServer = Rest(m[1], m[2])
              /\ \/ Queued(m[1], m[2])
                 \/ \E w \in Workers : RunBy(w, Task(m[1], m[2], "start", 0))
<1>1. ASSUME NEW m \in Typed, Received(m[1], m[2])
      PROVE  m = <<"puts", "none">> /\ toServer = Rest(m[1], m[2])
  <2>1. ~ReadByWorker(m[1], m[2])
    BY <1>1 DEF Received
  <2>2. toServer = Rest(m[1], m[2])
    BY <1>1 DEF Received
  <2>3. m[1] = "puts"
    BY <2>2 DEF Rest
  <2>4. m[2] = "none"
    BY <2>1, <2>3 DEF ReadByWorker
  <2> QED BY <2>2, <2>3, <2>4 DEF Typed
<1> QED BY <1>1 DEF Inv, InDialogue, Idle, LoginAnswered, GetsAnswered

LEMMA AtQueue ==
  ASSUME Inv, queue # <<>>
  PROVE  \E m \in Typed : Received(m[1], m[2]) /\ Queued(m[1], m[2])
BY DEF Inv, InDialogue, Idle, LoginAnswered, GetsAnswered, PutsAgreed, GetsAgreed,
   Asked, RunBy, Free

LEMMA AtWorker ==
  ASSUME Inv, NEW w \in Workers, worker[w] # NoTask
  PROVE  \/ ~polled /\ (PutsAgreed(w) \/ GetsAgreed(w))
         \/ \E m \in Typed :
              Received(m[1], m[2]) /\ RunBy(w, Task(m[1], m[2], "start", 0))
BY DEF Inv, InDialogue, Idle, LoginAnswered, GetsAnswered, PutsAgreed, GetsAgreed,
   Asked, RunBy, Free, Queued

-------------------------------------------------------------------------------
(* The client's steps *)

LEMMA LoginSendKeeps ==
  ASSUME Inv, LoginSend
  PROVE  Inv'
<1>1. Idle /\ toClient = <<>>
  BY Typing DEF LoginSend
<1>2. TypeOK' /\ Going'
  BY SessionAssumption DEF Inv, TypeOK, Going, LoginSend, ClientGoto, server
<1>3. InDialogue'
  <2>1. CASE client.pc = "name"
    <3>1. Asked("login1", "-")'
      <4>1. toServer' = <<Header("login1", "-")>> /\ client'.pc = "salt"
        BY <1>1, <2>1, OneUnit DEF Idle, LoginSend, Send, ClientGoto
      <4>2. Awaits("login1", "-") = "salt" /\ Rest("login1", "-") = <<>>
        BY DEF Awaits, Rest
      <4>3. toServer' # <<>> /\ Head(toServer') = Header("login1", "-") /\ Tail(toServer') = <<>>
        BY <4>1, OneUnit
      <4> QED BY <1>1, <4>1, <4>2, <4>3 DEF Idle, LoginSend, Asked, Free, server
    <3>2. <<"login1", "-">> \in Typed
      BY DEF Typed
    <3> QED BY <3>1, <3>2 DEF InDialogue
  <2>2. CASE client.pc = "passwd"
    <3>1. Asked("login2", "-")'
      <4>1. toServer' = <<Header("login2", "-")>> /\ client'.pc = "ok"
        BY <1>1, <2>2, OneUnit DEF Idle, LoginSend, Send, ClientGoto
      <4>2. Awaits("login2", "-") = "ok" /\ Rest("login2", "-") = <<>>
        BY DEF Awaits, Rest
      <4>3. toServer' # <<>> /\ Head(toServer') = Header("login2", "-") /\ Tail(toServer') = <<>>
        BY <4>1, OneUnit
      <4> QED BY <1>1, <4>1, <4>2, <4>3 DEF Idle, LoginSend, Asked, Free, server
    <3>2. <<"login2", "-">> \in Typed
      BY DEF Typed
    <3> QED BY <3>1, <3>2 DEF InDialogue
  <2> QED BY <2>1, <2>2 DEF LoginSend
<1> QED BY <1>2, <1>3 DEF Inv

LEMMA LoginSaltKeeps ==
  ASSUME Inv, LoginSalt
  PROVE  Inv'
<1>1. LoginAnswered
  BY SaltOrOk DEF LoginSalt, ClientAt
<1>2. TypeOK' /\ Going'
  BY SessionAssumption DEF Inv, TypeOK, Going, LoginSalt, ClientGoto, server
<1>3. toClient = <<<<"resp", TRUE>>, <<"text", 0>>>>
  <2>1. ASSUME toClient = <<<<"resp", FALSE>>>> PROVE FALSE
    <3>1. Len(toClient) = 1
      BY <2>1, OneUnit
    <3> QED BY <3>1 DEF LoginSalt
  <2> QED BY <1>1, <2>1 DEF LoginAnswered
<1>4. toClient' = <<>>
  BY <1>3, TwoUnits DEF LoginSalt
<1>5. Idle'
  BY <1>1, <1>4 DEF Idle, LoginAnswered, LoginSalt, ClientGoto, Free, server
<1> QED BY <1>2, <1>5 DEF Inv, InDialogue

LEMMA LoginOkKeeps ==
  ASSUME Inv, LoginOk
  PROVE  Inv'
<1>1. LoginAnswered
  BY SaltOrOk DEF LoginOk, ClientAt
<1>2. TypeOK' /\ Going'
  BY SessionAssumption DEF Inv, TypeOK, Going, LoginOk, ClientGoto, server
<1>3. Idle'
  BY <1>1 DEF Idle, LoginAnswered, LoginOk, ClientGoto, Free, server
<1> QED BY <1>2, <1>3 DEF Inv, InDialogue

LEMMA LoginRefusedKeeps ==
  ASSUME Inv, LoginRefused
  PROVE  Inv'
<1>1. LoginAnswered
  BY SaltOrOk DEF LoginRefused
<1>2. TypeOK' /\ Going'
  BY SessionAssumption DEF Inv, TypeOK, Going, LoginRefused, ClientGoto, server
<1>3. toClient' = <<>>
  <2>1. CASE toClient = <<<<"resp", TRUE>>, <<"text", 0>>>>
    <3>1. Head(toClient) = <<"resp", TRUE>> /\ Head(toClient) = <<"resp", FALSE>>
      BY <2>1, TwoUnits DEF LoginRefused
    <3>2. <<"resp", TRUE>>[2] = <<"resp", FALSE>>[2]
      BY <3>1
    <3> QED BY <3>2
  <2>2. CASE toClient = <<<<"resp", FALSE>>>>
    BY <2>2, OneUnit DEF LoginRefused
  <2> QED BY <1>1, <2>1, <2>2 DEF LoginAnswered
<1>4. Idle'
  BY <1>1, <1>3 DEF Idle, LoginAnswered, LoginRefused, ClientGoto, Free, server
<1> QED BY <1>2, <1>4 DEF Inv, InDialogue

LEMMA ShowKeeps ==
  ASSUME Inv, Show
  PROVE  Inv'
<1>1. toClient # <<>>
  BY DEF Show
<1>2. Idle
  BY <1>1, AtPrompt DEF Show, ClientAt
<1>3. TypeOK' /\ Going'
  BY DEF Inv, TypeOK, Going, Show, server
<1>4. Idle'
  BY <1>2 DEF Idle, Show, ClientAt, Free, server
<1> QED BY <1>3, <1>4 DEF Inv, InDialogue

\* What a patient user types finds nothing under way.
LEMMA TypeKeeps ==
  ASSUME Inv, Patient, NEW typed, NEW arg, <<typed, arg>> \in Typed,
         NEW units, units # <<>>, <<>> \o units = units,
         Head(units) = Header(typed, arg), Tail(units) = Rest(typed, arg),
         Type(Awaits(typed, arg), units)
  PROVE  Inv'
<1>1. Idle /\ toServer = <<>> /\ toClient = <<>>
  BY SettledIsIdle DEF Type, ClientAt, Idle
<1>2. Awaits(typed, arg) \in {"salt", "ok", "putsSize", "getsFlag", "loop"}
  BY TypedParts
<1>3. TypeOK' /\ Going'
  <2>1. client' \in [pc : {"name", "salt", "passwd", "ok", "loop", "putsSize",
                           "getsFlag", "getsLen", "getsData"}, left : 0..Size]
    BY <1>2, SessionAssumption DEF Type, ClientGoto
  <2>2. commands' \in 0..MaxCommands
    BY SessionAssumption DEF Inv, TypeOK, Type
  <2> QED BY <2>1, <2>2 DEF Inv, TypeOK, Going, Type, server
<1>4. Asked(typed, arg)'
  BY <1>1 DEF Idle, Type, Send, ClientGoto, Asked, Free, server
<1>5. InDialogue'
  BY <1>4 DEF InDialogue
<1> QED BY <1>3, <1>5 DEF Inv

LEMMA UserKeeps ==
  ASSUME Inv, Patient, UserStep
  PROVE  Inv'
<1>1. CASE TypeCommand
  <2>1. PICK cmd \in {"pwd", "ls", "cd", "rm", "mkdir", "rmdir", "notcmd"} :
          Type("loop", <<Header(cmd, "-")>>)
    BY <1>1 DEF TypeCommand
  <2>2. <<cmd, "-">> \in Typed /\ Awaits(cmd, "-") = "loop" /\ Rest(cmd, "-") = <<>>
    BY DEF Typed, Awaits, Rest
  <2> QED BY <2>1, <2>2, OneUnit, TypeKeeps
<1>2. CASE TypePuts
  <2>1. CASE Type("loop", <<Header("puts", "missing"), <<"flag", -1>>>>)
    <3>1. <<"puts", "missing">> \in Typed /\ Awaits("puts", "missing") = "loop"
          /\ Rest("puts", "missing") = <<<<"flag", -1>>>>
      BY DEF Typed, Awaits, Rest
    <3> DEFINE units == <<Header("puts", "missing"), <<"flag", -1>>>>
    <3>2. /\ units # <<>> /\ <<>> \o units = units
          /\ Head(units) = Header("puts", "missing") /\ Tail(units) = Rest("puts", "missing")
      BY <3>1, TwoUnits
    <3>3. Type(Awaits("puts", "missing"), units)
      BY <2>1, <3>1
    <3> HIDE DEF units
    <3> QED BY <3>1, <3>2, <3>3, TypeKeeps
  <2>2. CASE Type("putsSize", <<Header("puts", "name"), <<"flag", 1>>, <<"sha", 0>>>>)
    <3>1. <<"puts", "name">> \in Typed /\ Awaits("puts", "name") = "putsSize"
          /\ Rest("puts", "name") = <<<<"flag", 1>>, <<"sha", 0>>>>
      BY DEF Typed, Awaits, Rest
    <3> DEFINE units == <<Header("puts", "name"), <<"flag", 1>>, <<"sha", 0>>>>
    <3>2. /\ units # <<>> /\ <<>> \o units = units
          /\ Head(units) = Header("puts", "name") /\ Tail(units) = Rest("puts", "name")
      BY <3>1, ThreeUnits
    <3>3. Type(Awaits("puts", "name"), units)
      BY <2>2, <3>1
    <3> HIDE DEF units
    <3> QED BY <3>1, <3>2, <3>3, TypeKeeps
  <2> QED BY <1>2, <2>1, <2>2 DEF TypePuts
<1>3. CASE TypePutsNoName
  <2>1. <<"puts", "none">> \in Typed /\ Awaits("puts", "none") = "loop"
        /\ Rest("puts", "none") = <<<<"flag", -1>>>>
    BY DEF Typed, Awaits, Rest
  <2> DEFINE units == <<Header("puts", "none"), <<"flag", -1>>>>
  <2>2. /\ units # <<>> /\ <<>> \o units = units
        /\ Head(units) = Header("puts", "none") /\ Tail(units) = Rest("puts", "none")
    BY <2>1, TwoUnits
  <2>3. Type(Awaits("puts", "none"), units)
    BY <1>3, <2>1 DEF TypePutsNoName
  <2> HIDE DEF units
  <2> QED BY <2>1, <2>2, <2>3, TypeKeeps
<1>4. CASE TypeGets
  <2>1. PICK arg \in {"name", "missing", "none"} : Type("getsFlag", <<Header("gets", arg)>>)
    BY <1>4 DEF TypeGets
  <2>2. <<"gets", arg>> \in Typed /\ Awaits("gets", arg) = "getsFlag" /\ Rest("gets", arg) = <<>>
    BY DEF Typed, Awaits, Rest
  <2> QED BY <2>1, <2>2, OneUnit, TypeKeeps
<1> QED BY <1>1, <1>2, <1>3, <1>4, LoginSendKeeps DEF UserStep

\* A unit of the kind that is asked for keeps the ends in step; WorkerTakesRight too.
LEMMA ClientTakesRight ==
  ASSUME NEW kind, ClientTakes(kind), Head(toClient)[1] = kind
  PROVE  toClient' = Tail(toClient) /\ outOfStep' = FALSE
BY DEF ClientTakes

LEMMA PutsSendKeeps ==
  ASSUME Inv, PutsSend
  PROVE  Inv'
<1>1. ~polled /\ toServer = <<>> /\ toClient = <<<<"size", stored>>>>
  BY AtPutsSize DEF PutsSend, ClientAt, ClientTakes
<1>2. PICK w \in Workers : RunBy(w, Task("puts", "name", "len", 0))
  BY AtPutsSize DEF PutsSend, ClientAt, ClientTakes
<1>3. Head(toClient) = <<"size", stored>> /\ Tail(toClient) = <<>>
  BY <1>1, OneUnit
<1>4. toClient' = <<>> /\ outOfStep' = FALSE /\ Taken = stored
  <2>1. Head(toClient)[1] = "size" /\ Head(toClient)[2] = stored
    BY <1>3
  <2> QED BY <1>3, <2>1, ClientTakesRight DEF PutsSend, Taken
<1> DEFINE n == Size - stored
<1>5. n \in 0..Size
  BY SessionAssumption DEF Inv, TypeOK
<1>6. toServer' = <<>> \o (<<<<"len", n>>>> \o Units("data", n))
  BY <1>1, <1>4 DEF PutsSend, Send
<1>7. toServer' # <<>> /\ Head(toServer') = <<"len", n>> /\ IsData(Tail(toServer'), n)
  <2> HIDE DEF n
  <2> QED BY <1>5, <1>6, SomeData
<1>8. client' = [pc |-> "loop", left |-> 0]
      /\ polled' = polled /\ queue' = queue /\ worker' = worker /\ stored' = stored
      /\ fetched' = fetched /\ commands' = commands /\ errors' = errors /\ notOpened' = notOpened
  BY DEF PutsSend, ClientGoto, server
<1>9. TypeOK' /\ Going'
  <2>1. client' \in [pc : {"loop"}, left : 0..Size]
    BY <1>8, SessionAssumption
  <2> QED BY <1>4, <1>8, <2>1 DEF Inv, TypeOK, Going
<1>10. PutsAgreed(w)'
  BY <1>2, <1>4, <1>7, <1>8 DEF PutsAgreed, RunBy
<1>11. InDialogue'
  BY <1>1, <1>8, <1>10 DEF InDialogue
<1> QED BY <1>9, <1>11 DEF Inv

LEMMA GetsFlagKeeps ==
  ASSUME Inv, GetsFlag
  PROVE  Inv'
<1>1. toClient # <<>> /\ client.pc = "getsFlag"
  BY DEF GetsFlag, ClientAt, ClientTakes
<1>2. toServer = <<>>
  BY <1>1, AtGetsFlag
<1>3. /\ polled' = polled /\ queue' = queue /\ worker' = worker /\ stored' = stored
      /\ fetched' = fetched /\ commands' = commands /\ errors' = errors /\ notOpened' = notOpened
  BY DEF GetsFlag, server
<1>4. CASE ~polled /\ toClient = <<<<"flag", 0>>>>
           /\ \E w \in Workers : RunBy(w, Task("gets", "name", "offset", 0))
  <2>1. PICK w \in Workers : RunBy(w, Task("gets", "name", "offset", 0))
    BY <1>4
  <2>2. Head(toClient) = <<"flag", 0>> /\ Tail(toClient) = <<>>
    BY <1>4, OneUnit
  <2>3. toClient' = <<>> /\ outOfStep' = FALSE /\ Taken = 0
    <3>1. Head(toClient)[1] = "flag" /\ Head(toClient)[2] = 0
      BY <2>2
    <3> QED BY <2>2, <3>1, ClientTakesRight DEF GetsFlag, Taken
  <2>4. client' = [pc |-> "getsLen", left |-> 0] /\ toServer' = <<>> \o <<<<"size", fetched>>>>
    BY <1>2, <2>3 DEF GetsFlag, ClientGoto, Send
  <2>5. toServer' = <<<<"size", fetched>>>>
    BY <2>4, OneUnit
  <2>6. GetsAgreed(w)'
    BY <1>3, <2>1, <2>3, <2>4, <2>5 DEF GetsAgreed, RunBy
  <2>7. InDialogue'
    BY <1>3, <1>4, <2>6 DEF InDialogue
  <2>8. TypeOK' /\ Going'
    <3>1. client' \in [pc : {"getsLen"}, left : 0..Size]
      BY <2>4, SessionAssumption
    <3> QED BY <1>3, <2>3, <3>1 DEF Inv, TypeOK, Going
  <2> QED BY <2>7, <2>8 DEF Inv
<1>5. CASE Free /\ polled /\ toClient = <<<<"flag", -1>>>>
  <2>1. Head(toClient) = <<"flag", -1>> /\ Tail(toClient) = <<>>
    BY <1>5, OneUnit
  <2>2. toClient' = <<>> /\ outOfStep' = FALSE /\ Taken = -1
    <3>1. Head(toClient)[1] = "flag" /\ Head(toClient)[2] = -1
      BY <2>1
    <3> QED BY <2>1, <3>1, ClientTakesRight DEF GetsFlag, Taken
  <2>3. client' = [pc |-> "loop", left |-> 0] /\ toServer' = <<>>
    BY <1>2, <2>2 DEF GetsFlag, ClientGoto
  <2>4. Idle'
    BY <1>3, <1>5, <2>3 DEF Idle, Free
  <2>5. TypeOK' /\ Going'
    <3>1. client' \in [pc : {"loop"}, left : 0..Size]
      BY <2>3, SessionAssumption
    <3> QED BY <1>3, <2>2, <3>1 DEF Inv, TypeOK, Going
  <2> QED BY <2>4, <2>5 DEF Inv, InDialogue
<1> QED BY <1>1, <1>4, <1>5, AtGetsFlag

\* The client gives up, the worker waits for its size.
LEMMA GetsNotOpenedLeads ==
  ASSUME Inv, GetsNotOpened
  PROVE  GivenUp'
<1>1. toClient # <<>> /\ client.pc = "getsFlag"
  BY DEF GetsNotOpened, ClientAt, ClientTakes
<1>2. toServer = <<>>
  BY <1>1, AtGetsFlag
<1>3. ~polled /\ toClient = <<<<"flag", 0>>>>
      /\ \E w \in Workers : RunBy(w, Task("gets", "name", "offset", 0))
  <2>1. ASSUME toClient = <<<<"flag", -1>>>> PROVE FALSE
    <3>1. Head(toClient) = <<"flag", -1>>
      BY <2>1, OneUnit
    <3>2. Head(toClient)[2] = -1
      BY <3>1
    <3> QED BY <3>2 DEF GetsNotOpened, Taken
  <2> QED BY <1>1, <2>1, AtGetsFlag
<1>4. /\ polled' = polled /\ queue' = queue /\ worker' = worker /\ stored' = stored
      /\ fetched' = fetched /\ commands' = commands /\ errors' = errors /\ notOpened' = TRUE
      /\ toServer' = toServer /\ client' = [pc |-> "loop", left |-> 0] /\ ~outOfStep'
  BY DEF GetsNotOpened, ClientGoto, server
<1>5. Tail(toClient) = <<>>
  BY <1>3, OneUnit
<1>6. toClient' = <<>> /\ outOfStep' = FALSE
  BY <1>4, <1>5 DEF GetsNotOpened, ClientTakes
<1>7. TypeOK'
  <2>1. client' \in [pc : {"loop"}, left : 0..Size]
    BY <1>4, SessionAssumption
  <2> QED BY <1>4, <1>6, <2>1 DEF Inv, TypeOK
<1>8. \E w \in Workers : Abandoned(w)'
  BY <1>2, <1>3, <1>4, <1>6 DEF Abandoned, RunBy
<1> QED BY <1>4, <1>7, <1>8 DEF GivenUp

LEMMA GetsLenKeeps ==
  ASSUME Inv, GetsLen
  PROVE  Inv'
<1>1. toClient # <<>> /\ client.pc = "getsLen"
  BY DEF GetsLen, ClientAt, ClientTakes
<1>2. GetsAnswered
  BY <1>1, AtGetsData
<1> DEFINE n == Size - fetched
<1>3. \/ toClient = <<<<"len", -1>>>>
      \/ Head(toClient) = <<"len", n>> /\ IsData(Tail(toClient), n)
  BY <1>1, <1>2 DEF GetsAnswered
<1>4. n \in 0..Size /\ (n # 0 => fetched < Size)
  BY SessionAssumption DEF Inv, TypeOK
<1>6. /\ polled' = polled /\ queue' = queue /\ worker' = worker /\ stored' = stored
      /\ fetched' = fetched /\ commands' = commands /\ errors' = errors /\ notOpened' = notOpened /\ toServer' = toServer
  BY DEF GetsLen, server
<1>7. CASE toClient = <<<<"len", -1>>>>
  <2>1. Head(toClient) = <<"len", -1>> /\ Tail(toClient) = <<>>
    BY <1>7, OneUnit
  <2>2. Head(toClient)[1] = "len" /\ Head(toClient)[2] = -1
    BY <2>1
  <2>3. outOfStep' = FALSE /\ Taken = -1 /\ toClient' = <<>>
    BY <2>1, <2>2, ClientTakesRight DEF GetsLen, Taken
  <2>4. client' = [pc |-> "loop", left |-> 0]
    BY <2>3 DEF GetsLen
  <2>5. Idle'
    BY <1>2, <1>6, <2>4 DEF Idle, GetsAnswered, Free
  <2>6. client' \in [pc : {"loop", "getsData"}, left : 0..Size]
    BY <2>4, SessionAssumption
  <2>7. TypeOK' /\ Going'
    BY <1>6, <2>3, <2>6 DEF Inv, TypeOK, Going
  <2> QED BY <2>5, <2>7 DEF Inv, InDialogue
<1>8. CASE Head(toClient) = <<"len", n>> /\ IsData(Tail(toClient), n)
  <2>1. Head(toClient)[1] = "len" /\ Head(toClient)[2] = n
    BY <1>8
  <2>2. outOfStep' = FALSE /\ Taken = n /\ IsData(toClient', n)
    BY <1>8, <2>1, ClientTakesRight DEF GetsLen, Taken
  <2>3. client' = IF n = 0 THEN [pc |-> "loop", left |-> 0] ELSE [pc |-> "getsData", left |-> n]
    <3> HIDE DEF n
    <3>1. n <= 0 <=> n = 0
      BY <1>4, SessionAssumption
    <3> QED BY <2>2, <3>1 DEF GetsLen
  <2>4. TypeOK' /\ Going'
    <3> HIDE DEF n
    <3>1. client' \in [pc : {"loop", "getsData"}, left : 0..Size]
      BY <1>4, <2>3, SessionAssumption
    <3> QED BY <1>6, <2>2, <3>1 DEF Inv, TypeOK, Going
  <2>5. CASE n = 0
    <3>1. Idle'
      BY <1>2, <1>6, <2>3, <2>5 DEF Idle, GetsAnswered, Free
    <3> QED BY <2>4, <3>1 DEF Inv, InDialogue
  <2>6. CASE n # 0
    <3>1. GetsAnswered'
      BY <1>2, <1>4, <1>6, <2>2, <2>3, <2>6 DEF GetsAnswered, Free
    <3> QED BY <2>4, <3>1 DEF Inv, InDialogue
  <2> QED BY <2>5, <2>6
<1> QED BY <1>3, <1>7, <1>8

LEMMA GetsDataKeeps ==
  ASSUME Inv, GetsData
  PROVE  Inv'
<1>1. toClient # <<>> /\ client.pc = "getsData"
  BY DEF GetsData, ClientAt, ClientTakes
<1>2. GetsAnswered
  BY <1>1, AtGetsData
<1> DEFINE n == Size - fetched
<1>3. fetched < Size /\ client.left = n /\ IsData(toClient, n)
  BY <1>1, <1>2 DEF GetsAnswered
<1>4. n \in 1..Size /\ fetched \in 0..Size /\ Size \in Nat
  BY <1>3, SessionAssumption DEF Inv, TypeOK
<1>5. Head(toClient)[1] = "data" /\ IsData(Tail(toClient), n - 1)
  <2> HIDE DEF n
  <2> QED BY <1>3, <1>4, NextData
<1>6. outOfStep' = FALSE /\ IsData(toClient', n - 1)
  BY <1>5, ClientTakesRight DEF GetsData
<1>7. /\ polled' = polled /\ queue' = queue /\ worker' = worker /\ stored' = stored
      /\ fetched' = fetched + 1 /\ commands' = commands /\ errors' = errors /\ notOpened' = notOpened /\ toServer' = toServer
  BY DEF GetsData, server
<1>8. client' = IF n = 1 THEN [pc |-> "loop", left |-> 0] ELSE [pc |-> "getsData", left |-> n - 1]
  <2>1. CASE n = 1
    BY <1>3, <2>1 DEF GetsData
  <2>2. CASE n # 1
    <3>1. client' = [client EXCEPT !.left = client.left - 1]
      BY <1>3, <2>2 DEF GetsData
    <3>2. client = [pc |-> client.pc, left |-> client.left]
      BY DEF Inv, TypeOK
    <3>3. [client EXCEPT !.left = client.left - 1] = [pc |-> client.pc, left |-> client.left - 1]
      BY <3>2
    <3> QED BY <1>1, <1>3, <2>2, <3>1, <3>3
  <2> QED BY <2>1, <2>2
<1>9. TypeOK' /\ Going'
  <2>1. fetched' \in 0..Size
    BY <1>3, <1>4, <1>7
  <2>2. client' \in [pc : {"loop", "getsData"}, left : 0..Size]
    <3> HIDE DEF n
    <3> QED BY <1>4, <1>8
  <2> QED BY <1>6, <1>7, <2>1, <2>2 DEF Inv, TypeOK, Going
<1>10. InDialogue'
  <2>1. CASE n = 1
    <3>1. Idle'
      BY <1>1, <1>2, <1>7, <1>8, <2>1 DEF Idle, GetsAnswered, Free
    <3> QED BY <3>1 DEF InDialogue
  <2>2. CASE n # 1
    <3>1. n - 1 = (Size - fetched)' /\ (fetched < Size)'
      BY <1>4, <1>7, <2>2
    <3>2. /\ client'.pc = "getsData" /\ client'.left = (Size - fetched)'
          /\ IsData(toClient', (Size - fetched)')
      BY <1>6, <1>8, <2>2, <3>1
    <3>3. (Free /\ polled /\ toServer = <<>>)'
      BY <1>2, <1>7 DEF GetsAnswered, Free
    <3>4. GetsAnswered'
      BY <3>1, <3>2, <3>3 DEF GetsAnswered
    <3> QED BY <3>4 DEF InDialogue
  <2> QED BY <2>1, <2>2
<1> QED BY <1>9, <1>10 DEF Inv

-------------------------------------------------------------------------------
(* The reactor and the queue *)

LEMMA DequeKeeps ==
  ASSUME Inv, NEW w \in Workers, Deque(w)
  PROVE  Inv'
<1>1. PICK m \in Typed : Received(m[1], m[2]) /\ Queued(m[1], m[2])
  BY AtQueue DEF Deque
<1> DEFINE cmd == Header(m[1], m[2])[2]
<1>2. Head(queue) = cmd /\ Tail(queue) = <<>>
  <2> HIDE DEF cmd
  <2>1. queue = <<cmd>>
    BY <1>1 DEF Queued, cmd
  <2> QED BY <2>1, OneUnit
<1>3. cmd.type = ClientType[m[1]] /\ cmd.arg = m[2] /\ cmd.typed = m[1]
  BY DEF Header
<1>4. worker' = [worker EXCEPT ![w] = Task(m[1], m[2], "start", 0)] /\ queue' = <<>>
  <2> HIDE DEF cmd
  <2> QED BY <1>2, <1>3 DEF Deque, Task
<1>5. RunBy(w, Task(m[1], m[2], "start", 0))'
  <2> DEFINE task == Task(m[1], m[2], "start", 0)
  <2> HIDE DEF task
  <2>1. worker \in [Workers -> Tasks] /\ worker' = [worker EXCEPT ![w] = task]
    BY <1>4 DEF Inv, TypeOK, task
  <2>2. worker'[w] = task /\ \A v \in Workers \ {w} : worker'[v] = NoTask
    BY <1>1, <2>1 DEF Queued
  <2> QED BY <1>4, <2>2 DEF RunBy, task
<1>6. Received(m[1], m[2])'
  BY <1>1 DEF Received, Deque
<1>7. InDialogue'
  BY <1>5, <1>6 DEF InDialogue
<1>8. TypeOK' /\ Going'
  <2>1. Task(m[1], m[2], "start", 0) \in Tasks
    BY TypedParts, TaskTyped, SessionAssumption
  <2>2. worker' \in [Workers -> Tasks]
    BY <1>4, <2>1 DEF Inv, TypeOK
  <2> QED BY <2>2 DEF Inv, TypeOK, Going, Deque
<1> QED BY <1>7, <1>8 DEF Inv

-------------------------------------------------------------------------------
(* A worker's steps *)

LEMMA WorkerTakesRight ==
  ASSUME NEW kind, WorkerTakes(kind), Head(toServer)[1] = kind
  PROVE  toServer' = Tail(toServer) /\ outOfStep' = FALSE
BY DEF WorkerTakes

\* What becomes of a worker that ends its task, and of one that goes on with it.
LEMMA Ends ==
  ASSUME Inv, NEW w \in Workers, NEW task, RunBy(w, task), TaskEnds(w), queue' = queue
  PROVE  Free' /\ worker' \in [Workers -> Tasks]
<1>1. NoTask \in Tasks
  BY SessionAssumption DEF NoTask, Tasks
<1>2. worker \in [Workers -> Tasks]
  BY DEF Inv, TypeOK
<1> QED BY <1>1, <1>2 DEF RunBy, TaskEnds, Free

LEMMA Goes ==
  ASSUME Inv, NEW w \in Workers,
         NEW typed \in DOMAIN ClientType, NEW arg \in {"-", "name", "missing", "none"},
         NEW at, NEW left, RunBy(w, Task(typed, arg, at, left)),
         NEW label \in {"start", "sha", "len", "data", "offset"}, NEW n \in 0..Size,
         WorkerGoto(w, label, n), queue' = queue
  PROVE  /\ queue' = <<>> /\ worker'[w] = Task(typed, arg, label, n)
         /\ \A v \in Workers \ {w} : worker'[v] = NoTask
         /\ worker' \in [Workers -> Tasks]
<1>1. Task(typed, arg, label, n) \in Tasks
  BY TaskTyped
<1>2. worker \in [Workers -> Tasks]
  BY DEF Inv, TypeOK
<1>3. worker' = [worker EXCEPT ![w] = Task(typed, arg, label, n)]
  <2>1. worker[w] = [task |-> doTask(ClientType[typed]), arg |-> arg, typed |-> typed,
                     at |-> at, left |-> left]
    BY DEF RunBy, Task
  <2>2. [worker[w] EXCEPT !.at = label, !.left = n] = Task(typed, arg, label, n)
    <3> DEFINE task == doTask(ClientType[typed])
    <3>1. [worker[w] EXCEPT !.at = label, !.left = n]
            = [task |-> task, arg |-> arg, typed |-> typed, at |-> label, left |-> n]
      <4> HIDE DEF task
      <4>1. worker[w] = [task |-> task, arg |-> arg, typed |-> typed, at |-> at, left |-> left]
        BY <2>1 DEF task
      <4> DEFINE there == [task |-> task, arg |-> arg, typed |-> typed, at |-> label,
                           left |-> left]
      <4>2. [worker[w] EXCEPT !.at = label] = there
        BY <4>1
      <4>3. [there EXCEPT !.left = n]
              = [task |-> task, arg |-> arg, typed |-> typed, at |-> label, left |-> n]
        OBVIOUS
      <4>4. [worker[w] EXCEPT !.at = label, !.left = n]
              = [[worker[w] EXCEPT !.at = label] EXCEPT !.left = n]
        BY <1>2 DEF Tasks
      <4> HIDE DEF there
      <4> QED BY <4>2, <4>3, <4>4
    <3> QED BY <3>1 DEF Task
  <2>3. worker' = [worker EXCEPT ![w] = [worker[w] EXCEPT !.at = label, !.left = n]]
    BY <1>2 DEF WorkerGoto
  <2> QED BY <2>2, <2>3
<1> QED BY <1>1, <1>2, <1>3 DEF RunBy

LEMMA TaskParts ==
  ASSUME NEW w, NEW typed \in DOMAIN ClientType, NEW arg, NEW at, NEW left,
         RunBy(w, Task(typed, arg, at, left))
  PROVE  /\ worker[w].task = IF typed = "notcmd" THEN "recv" ELSE typed
         /\ worker[w].arg = arg /\ worker[w].typed = typed
         /\ worker[w].at = at /\ worker[w].left = left
BY DoTask DEF RunBy, Task

\* A worker at the start of a task, or in the middle of a transfer.
LEMMA Started ==
  ASSUME Inv, NEW w \in Workers, worker[w].at = "start"
  PROVE  \E m \in Typed :
           Received(m[1], m[2]) /\ RunBy(w, Task(m[1], m[2], "start", 0))
           /\ worker[w].task = (IF m[1] = "notcmd" THEN "recv" ELSE m[1]) /\ worker[w].arg = m[2]
<1>1. worker[w] # NoTask
  BY DEF NoTask
<1>2. "puts" \in DOMAIN ClientType /\ "gets" \in DOMAIN ClientType
  BY DEF ClientType
<1>3. ~PutsAgreed(w) /\ ~GetsAgreed(w)
  BY <1>2, TaskParts DEF PutsAgreed, GetsAgreed
<1>4. PICK m \in Typed : Received(m[1], m[2]) /\ RunBy(w, Task(m[1], m[2], "start", 0))
  BY <1>1, <1>3, AtWorker
<1>5. worker[w].task = (IF m[1] = "notcmd" THEN "recv" ELSE m[1]) /\ worker[w].arg = m[2]
  <2>1. m[1] \in DOMAIN ClientType
    BY TypedParts
  <2> DEFINE typed == m[1]  arg == m[2]
  <2>2. typed \in DOMAIN ClientType /\ RunBy(w, Task(typed, arg, "start", 0))
    BY <1>4, <2>1
  <2> HIDE DEF typed, arg
  <2>3. worker[w].task = (IF typed = "notcmd" THEN "recv" ELSE typed) /\ worker[w].arg = arg
    BY <2>2, TaskParts
  <2> QED BY <2>3 DEF typed, arg
<1> QED BY <1>4, <1>5

LEMMA Transferring ==
  ASSUME Inv, NEW w \in Workers, worker[w].at \in {"sha", "len", "data", "offset"}
  PROVE  /\ ~polled
         /\ worker[w].at = "offset" => GetsAgreed(w)
         /\ worker[w].at # "offset" => PutsAgreed(w)
<1>1. worker[w] # NoTask
  BY DEF NoTask
<1>2. "puts" \in DOMAIN ClientType /\ "gets" \in DOMAIN ClientType
  BY DEF ClientType
<1>3. \A m \in Typed : ~RunBy(w, Task(m[1], m[2], "start", 0))
  BY TypedParts, TaskParts
<1>4. ~polled /\ (PutsAgreed(w) \/ GetsAgreed(w))
  BY <1>1, <1>3, AtWorker
<1>5. \A at, left : RunBy(w, Task("gets", "name", at, left)) => worker[w].at = at
  BY <1>2, TaskParts
<1>6. \A at, left : RunBy(w, Task("puts", "name", at, left)) => worker[w].at = at
  BY <1>2, TaskParts
<1>7. GetsAgreed(w) => worker[w].at = "offset"
  BY <1>5 DEF GetsAgreed
<1>8. PutsAgreed(w) => worker[w].at \in {"sha", "len", "data"}
  BY <1>6 DEF PutsAgreed
<1> QED BY <1>4, <1>7, <1>8

LEMMA LoginCheckKeeps ==
  ASSUME Inv, NEW w \in Workers, LoginCheck(w)
  PROVE  Inv'
<1>1. worker[w].at = "start" /\ worker[w].task \in {"login1", "login2"}
  BY DEF LoginCheck, On
<1>2. PICK m \in Typed :
        /\ Received(m[1], m[2]) /\ RunBy(w, Task(m[1], m[2], "start", 0))
        /\ worker[w].task = (IF m[1] = "notcmd" THEN "recv" ELSE m[1])
  BY <1>1, Started
<1>3. m[1] \in {"login1", "login2"} /\ ~ReadByWorker(m[1], m[2])
  BY <1>1, <1>2 DEF ReadByWorker
<1>4. Rest(m[1], m[2]) = <<>> /\ Awaits(m[1], m[2]) \in {"salt", "ok"}
  BY <1>3 DEF Rest, Awaits
<1>5. polled /\ toServer = <<>> /\ toClient = <<>> /\ client.pc \in {"salt", "ok"}
  BY <1>2, <1>3, <1>4 DEF Received
<1>6. /\ toServer' = toServer /\ client' = client /\ polled' = polled /\ queue' = queue
      /\ stored' = stored /\ fetched' = fetched /\ commands' = commands /\ outOfStep' = outOfStep
      /\ notOpened' = notOpened
  BY DEF LoginCheck
<1>7. Free' /\ worker' \in [Workers -> Tasks]
  BY <1>2, <1>6, Ends DEF LoginCheck
<1>8. errors' \in 0..MaxErrors
  BY SessionAssumption DEF LoginCheck, Inv, TypeOK
<1>9. toClient' = <<<<"resp", TRUE>>, <<"text", 0>>>> \/ toClient' = <<<<"resp", FALSE>>>>
  <2>1. <<>> \o <<<<"resp", TRUE>>, <<"text", 0>>>> = <<<<"resp", TRUE>>, <<"text", 0>>>>
    BY TwoUnits
  <2>2. <<>> \o <<<<"resp", FALSE>>>> = <<<<"resp", FALSE>>>>
    BY OneUnit
  <2> QED BY <1>5, <2>1, <2>2 DEF LoginCheck, Reply
<1>10. LoginAnswered'
  BY <1>5, <1>6, <1>7, <1>9 DEF LoginAnswered
<1>11. TypeOK' /\ Going'
  BY <1>6, <1>7, <1>8 DEF Inv, TypeOK, Going
<1> QED BY <1>10, <1>11 DEF Inv, InDialogue

\* A command that a worker answers, or not, at one go.
LEMMA BackToIdle ==
  ASSUME Inv, NEW w \in Workers, NEW m \in Typed, Received(m[1], m[2]),
         RunBy(w, Task(m[1], m[2], "start", 0)), ~ReadByWorker(m[1], m[2]),
         Awaits(m[1], m[2]) = "loop", TaskEnds(w), toServer' = <<>>,
         UNCHANGED <<client, queue, stored, fetched, outOfStep, commands, errors, notOpened>>,
         polled' = polled
  PROVE  Inv'
<1>1. polled /\ client.pc = "loop"
  BY DEF Received
<1>2. Free' /\ worker' \in [Workers -> Tasks]
  BY Ends
<1>3. Idle'
  BY <1>1, <1>2 DEF Idle
<1>4. TypeOK' /\ Going'
  BY <1>2 DEF Inv, TypeOK, Going
<1> QED BY <1>3, <1>4 DEF Inv, InDialogue

LEMMA AnswerKeeps ==
  ASSUME Inv, NEW w \in Workers, Answer(w)
  PROVE  Inv'
<1>1. worker[w].at = "start" /\ worker[w].task \in {"pwd", "ls", "cd", "rm", "mkdir", "rmdir"}
  BY DEF Answer, On
<1>2. PICK m \in Typed :
        /\ Received(m[1], m[2]) /\ RunBy(w, Task(m[1], m[2], "start", 0))
        /\ worker[w].task = (IF m[1] = "notcmd" THEN "recv" ELSE m[1])
  BY <1>1, Started
<1>3. ~ReadByWorker(m[1], m[2]) /\ Awaits(m[1], m[2]) = "loop" /\ Rest(m[1], m[2]) = <<>>
  BY <1>1, <1>2 DEF ReadByWorker, Awaits, Rest
<1>4. toServer' = <<>>
  BY <1>2, <1>3 DEF Received, Answer
<1>5. /\ UNCHANGED <<client, queue, stored, fetched, outOfStep, commands, errors, notOpened>>
      /\ polled' = polled /\ TaskEnds(w)
  BY DEF Answer
<1> QED BY <1>2, <1>3, <1>4, <1>5, BackToIdle

LEMMA RecvKeeps ==
  ASSUME Inv, NEW w \in Workers, RecvCommand(w)
  PROVE  Inv'
<1>1. worker[w].at = "start" /\ worker[w].task = "recv"
  BY DEF RecvCommand, On
<1>2. PICK m \in Typed :
        /\ Received(m[1], m[2]) /\ RunBy(w, Task(m[1], m[2], "start", 0))
        /\ worker[w].task = (IF m[1] = "notcmd" THEN "recv" ELSE m[1])
  BY <1>1, Started
<1>3. m[1] = "notcmd"
  BY <1>1, <1>2, TypedParts DEF ClientType
<1>4. ~ReadByWorker(m[1], m[2]) /\ Awaits(m[1], m[2]) = "loop" /\ Rest(m[1], m[2]) = <<>>
  BY <1>3 DEF ReadByWorker, Awaits, Rest
<1>5. toServer' = <<>>
  BY <1>2, <1>4 DEF Received, RecvCommand
<1>6. /\ UNCHANGED <<client, queue, stored, fetched, outOfStep, commands, errors, notOpened>>
      /\ polled' = polled /\ TaskEnds(w)
  BY DEF RecvCommand
<1> QED BY <1>2, <1>4, <1>5, <1>6, BackToIdle

LEMMA PutsFlagKeeps ==
  ASSUME Inv, NEW w \in Workers, PutsFlag(w)
  PROVE  Inv'
<1>1. worker[w].at = "start" /\ worker[w].task = "puts" /\ toServer # <<>>
  BY DEF PutsFlag, On, WorkerTakes
<1>2. PICK m \in Typed :
        /\ Received(m[1], m[2]) /\ RunBy(w, Task(m[1], m[2], "start", 0))
        /\ worker[w].task = (IF m[1] = "notcmd" THEN "recv" ELSE m[1])
  BY <1>1, Started
<1>3. m[1] = "puts" /\ m[2] \in {"name", "missing", "none"}
  BY <1>1, <1>2 DEF Typed
<1>4. toServer = Rest(m[1], m[2]) /\ toClient = <<>> /\ client.pc = Awaits(m[1], m[2])
  BY <1>1, <1>2 DEF Received
<1>5. /\ toClient' = toClient /\ client' = client /\ queue' = queue /\ stored' = stored
      /\ fetched' = fetched /\ commands' = commands /\ errors' = errors /\ notOpened' = notOpened
  BY DEF PutsFlag
<1>6. CASE m[2] = "name"
  <2>1. toServer = <<<<"flag", 1>>, <<"sha", 0>>>> /\ client.pc = "putsSize"
    BY <1>3, <1>4, <1>6 DEF Rest, Awaits
  <2>2. Head(toServer) = <<"flag", 1>> /\ Tail(toServer) = <<<<"sha", 0>>>>
    BY <2>1, TwoUnits
  <2>3. Head(toServer)[1] = "flag" /\ Head(toServer)[2] = 1
    BY <2>2
  <2>4. toServer' = <<<<"sha", 0>>>> /\ outOfStep' = FALSE
    BY <2>2, <2>3, WorkerTakesRight DEF PutsFlag
  <2>5. WorkerGoto(w, "sha", 0) /\ polled' = polled
    BY <2>3, <2>4 DEF PutsFlag, Got
  <2>6. RunBy(w, Task("puts", "name", "start", 0)) /\ "puts" \in DOMAIN ClientType
        /\ 0 \in 0..Size
    BY <1>2, <1>3, <1>6, SessionAssumption DEF ClientType
  <2>7. /\ queue' = <<>> /\ worker'[w] = Task("puts", "name", "sha", 0)
        /\ \A v \in Workers \ {w} : worker'[v] = NoTask
        /\ worker' \in [Workers -> Tasks]
    BY <1>5, <2>5, <2>6, Goes
  <2>8. ~polled'
    BY <1>2, <1>3, <1>6, <2>5 DEF Received, ReadByWorker
  <2>9. PutsAgreed(w)'
    BY <1>4, <1>5, <2>1, <2>4, <2>7 DEF PutsAgreed, RunBy
  <2>10. TypeOK' /\ Going'
    BY <1>5, <2>4, <2>5, <2>7 DEF Inv, TypeOK, Going
  <2> QED BY <2>8, <2>9, <2>10 DEF Inv, InDialogue
<1>7. CASE m[2] # "name"
  <2>1. toServer = <<<<"flag", -1>>>> /\ client.pc = "loop"
    BY <1>3, <1>4, <1>7 DEF Rest, Awaits
  <2>2. Head(toServer) = <<"flag", -1>> /\ Tail(toServer) = <<>>
    BY <2>1, OneUnit
  <2>3. Head(toServer)[1] = "flag" /\ Head(toServer)[2] = -1
    BY <2>2
  <2>4. toServer' = <<>> /\ outOfStep' = FALSE
    BY <2>2, <2>3, WorkerTakesRight DEF PutsFlag
  <2>5. TaskEnds(w) /\ polled' = TRUE
    BY <2>3 DEF PutsFlag, Got
  <2>6. Free' /\ worker' \in [Workers -> Tasks]
    BY <1>2, <1>5, <2>5, Ends
  <2>7. Idle'
    BY <1>5, <2>1, <2>4, <2>5, <2>6 DEF Idle
  <2>8. TypeOK' /\ Going'
    BY <1>5, <2>4, <2>5, <2>6 DEF Inv, TypeOK, Going
  <2> QED BY <2>7, <2>8 DEF Inv, InDialogue
<1> QED BY <1>6, <1>7

LEMMA PutsShaKeeps ==
  ASSUME Inv, NEW w \in Workers, PutsSha(w)
  PROVE  Inv'
<1>1. worker[w].at = "sha" /\ toServer # <<>>
  BY DEF PutsSha, WorkerTakes
<1>2. ~polled /\ PutsAgreed(w)
  BY <1>1, Transferring
<1>3. "puts" \in DOMAIN ClientType /\ 0 \in 0..Size
  BY SessionAssumption DEF ClientType
<1>4. \A at, left : RunBy(w, Task("puts", "name", at, left)) => at = "sha"
  BY <1>1, <1>3, TaskParts
<1>5. /\ RunBy(w, Task("puts", "name", "sha", 0)) /\ client.pc = "putsSize"
      /\ toServer = <<<<"sha", 0>>>> /\ toClient = <<>>
  BY <1>2, <1>4 DEF PutsAgreed
<1>6. Head(toServer) = <<"sha", 0>> /\ Tail(toServer) = <<>>
  BY <1>5, OneUnit
<1>7. toServer' = <<>> /\ outOfStep' = FALSE
  <2>1. Head(toServer)[1] = "sha"
    BY <1>6
  <2> QED BY <1>6, <2>1, WorkerTakesRight DEF PutsSha
<1>8. toClient' = <<<<"size", stored>>>>
  BY <1>5, OneUnit DEF PutsSha, Reply
<1>9. /\ client' = client /\ polled' = polled /\ queue' = queue /\ stored' = stored
      /\ fetched' = fetched /\ commands' = commands /\ errors' = errors /\ notOpened' = notOpened
      /\ WorkerGoto(w, "len", 0)
  BY DEF PutsSha
<1>10. /\ queue' = <<>> /\ worker'[w] = Task("puts", "name", "len", 0)
       /\ \A v \in Workers \ {w} : worker'[v] = NoTask
       /\ worker' \in [Workers -> Tasks]
  BY <1>3, <1>5, <1>9, Goes
<1>11. PutsAgreed(w)'
  BY <1>5, <1>7, <1>8, <1>9, <1>10 DEF PutsAgreed, RunBy
<1>12. TypeOK' /\ Going'
  BY <1>7, <1>9, <1>10 DEF Inv, TypeOK, Going
<1> QED BY <1>2, <1>9, <1>11, <1>12 DEF Inv, InDialogue

LEMMA PutsLenKeeps ==
  ASSUME Inv, NEW w \in Workers, PutsLen(w)
  PROVE  Inv'
<1>1. worker[w].at = "len" /\ toServer # <<>>
  BY DEF PutsLen, WorkerTakes
<1>2. ~polled /\ PutsAgreed(w)
  BY <1>1, Transferring
<1>3. "puts" \in DOMAIN ClientType
  BY DEF ClientType
<1>4. \A at, left : RunBy(w, Task("puts", "name", at, left)) => at = "len"
  BY <1>1, <1>3, TaskParts
<1> DEFINE n == Size - stored
<1>5. /\ RunBy(w, Task("puts", "name", "len", 0)) /\ client.pc = "loop"
      /\ Head(toServer) = <<"len", n>> /\ IsData(Tail(toServer), n) /\ toClient = <<>>
  BY <1>1, <1>2, <1>4 DEF PutsAgreed
<1>6. n \in 0..Size /\ (n # 0 => stored < Size)
  BY SessionAssumption DEF Inv, TypeOK
<1>7. outOfStep' = FALSE /\ IsData(toServer', n) /\ Got = n
  <2>1. Head(toServer)[1] = "len" /\ Head(toServer)[2] = n
    BY <1>5
  <2> QED BY <1>5, <2>1, WorkerTakesRight DEF PutsLen, Got
<1>8. /\ toClient' = toClient /\ client' = client /\ queue' = queue /\ stored' = stored
      /\ fetched' = fetched /\ commands' = commands /\ errors' = errors /\ notOpened' = notOpened
  BY DEF PutsLen
<1>9. CASE n = 0
  <2>1. TaskEnds(w) /\ polled' = TRUE
    BY <1>7, <1>9 DEF PutsLen
  <2>2. Free' /\ worker' \in [Workers -> Tasks]
    BY <1>5, <1>8, <2>1, Ends
  <2>3. toServer' = <<>>
    BY <1>7, <1>9, NoData
  <2>4. Idle'
    BY <1>5, <1>8, <2>1, <2>2, <2>3 DEF Idle
  <2>5. TypeOK' /\ Going'
    BY <1>7, <1>8, <2>1, <2>2 DEF Inv, TypeOK, Going
  <2> QED BY <2>4, <2>5 DEF Inv, InDialogue
<1>10. CASE n # 0
  <2>1. WorkerGoto(w, "data", n) /\ polled' = polled
    BY <1>7, <1>10 DEF PutsLen
  <2>2. /\ queue' = <<>> /\ worker'[w] = Task("puts", "name", "data", n)
        /\ \A v \in Workers \ {w} : worker'[v] = NoTask
        /\ worker' \in [Workers -> Tasks]
    <3> HIDE DEF n
    <3> QED BY <1>3, <1>5, <1>6, <1>8, <2>1, Goes
  <2>3. PutsAgreed(w)'
    BY <1>5, <1>6, <1>7, <1>8, <1>10, <2>2 DEF PutsAgreed, RunBy
  <2>4. TypeOK' /\ Going'
    BY <1>7, <1>8, <2>1, <2>2 DEF Inv, TypeOK, Going
  <2> QED BY <1>2, <2>1, <2>3, <2>4 DEF Inv, InDialogue
<1> QED BY <1>9, <1>10

LEMMA PutsDataKeeps ==
  ASSUME Inv, NEW w \in Workers, PutsData(w)
  PROVE  Inv'
<1>1. worker[w].at = "data" /\ toServer # <<>>
  BY DEF PutsData, WorkerTakes
<1>2. ~polled /\ PutsAgreed(w)
  BY <1>1, Transferring
<1>3. "puts" \in DOMAIN ClientType
  BY DEF ClientType
<1>4. \A at, left : RunBy(w, Task("puts", "name", at, left))
                      => at = "data" /\ worker[w].left = left
  <2>1. \A at, left : RunBy(w, Task("puts", "name", at, left)) => at = "data"
    BY <1>1, <1>3, TaskParts
  <2>2. \A at, left : RunBy(w, Task("puts", "name", at, left)) => worker[w].left = left
    BY <1>3, TaskParts
  <2> QED BY <2>1, <2>2
<1> DEFINE n == Size - stored
<1>5. /\ stored < Size /\ RunBy(w, Task("puts", "name", "data", n)) /\ worker[w].left = n
      /\ client.pc = "loop" /\ IsData(toServer, n) /\ toClient = <<>>
  BY <1>2, <1>4 DEF PutsAgreed
<1>6. n \in 1..Size /\ n - 1 \in 0..Size /\ stored \in 0..Size /\ Size \in Nat
  BY <1>5, SessionAssumption DEF Inv, TypeOK
<1>7. Head(toServer)[1] = "data" /\ IsData(Tail(toServer), n - 1)
  <2> HIDE DEF n
  <2> QED BY <1>5, <1>6, NextData
<1>8. outOfStep' = FALSE /\ IsData(toServer', n - 1)
  BY <1>7, WorkerTakesRight DEF PutsData
<1>9. /\ toClient' = toClient /\ client' = client /\ queue' = queue /\ stored' = stored + 1
      /\ fetched' = fetched /\ commands' = commands /\ errors' = errors /\ notOpened' = notOpened
  BY DEF PutsData
<1>10. stored' \in 0..Size
  BY <1>5, <1>6, <1>9
<1>11. CASE n = 1
  <2>1. TaskEnds(w) /\ polled' = TRUE
    BY <1>5, <1>11 DEF PutsData
  <2>2. Free' /\ worker' \in [Workers -> Tasks]
    BY <1>5, <1>9, <2>1, Ends
  <2>3. toServer' = <<>>
    BY <1>8, <1>11, NoData
  <2>4. Idle'
    BY <1>5, <1>9, <2>1, <2>2, <2>3 DEF Idle
  <2>5. TypeOK' /\ Going'
    BY <1>8, <1>9, <1>10, <2>1, <2>2 DEF Inv, TypeOK, Going
  <2> QED BY <2>4, <2>5 DEF Inv, InDialogue
<1>12. CASE n # 1
  <2>1. WorkerGoto(w, "data", n - 1) /\ polled' = polled
    BY <1>5, <1>12 DEF PutsData
  <2>2. /\ queue' = <<>> /\ worker'[w] = Task("puts", "name", "data", n - 1)
        /\ \A v \in Workers \ {w} : worker'[v] = NoTask
        /\ worker' \in [Workers -> Tasks]
    <3> DEFINE k == n - 1
    <3>1. k \in 0..Size /\ WorkerGoto(w, "data", k)
      BY <1>6, <2>1
    <3> HIDE DEF n, k
    <3>2. /\ queue' = <<>> /\ worker'[w] = Task("puts", "name", "data", k)
          /\ \A v \in Workers \ {w} : worker'[v] = NoTask
          /\ worker' \in [Workers -> Tasks]
      BY <1>3, <1>5, <1>9, <3>1, Goes
    <3> QED BY <3>2 DEF k
  <2>3. n - 1 = (Size - stored)' /\ (stored < Size)'
    BY <1>6, <1>9, <1>12
  <2>4. worker'[w] = Task("puts", "name", "data", (Size - stored)')
        /\ IsData(toServer', (Size - stored)')
    BY <1>8, <2>2, <2>3
  <2>5. PutsAgreed(w)'
    BY <1>5, <1>9, <2>2, <2>3, <2>4 DEF PutsAgreed, RunBy
  <2>6. TypeOK' /\ Going'
    BY <1>8, <1>9, <1>10, <2>1, <2>2 DEF Inv, TypeOK, Going
  <2> QED BY <1>2, <2>1, <2>5, <2>6 DEF Inv, InDialogue
<1> QED BY <1>11, <1>12

LEMMA GetsMissingKeeps ==
  ASSUME Inv, NEW w \in Workers, GetsMissing(w)
  PROVE  Inv'
<1>1. worker[w].at = "start" /\ worker[w].task = "gets"
  BY DEF GetsMissing, On
<1>2. PICK m \in Typed :
        /\ Received(m[1], m[2]) /\ RunBy(w, Task(m[1], m[2], "start", 0))
        /\ worker[w].task = (IF m[1] = "notcmd" THEN "recv" ELSE m[1])
  BY <1>1, Started
<1>3. Rest(m[1], m[2]) = <<>> /\ Awaits(m[1], m[2]) = "getsFlag"
  BY <1>1, <1>2 DEF Rest, Awaits
<1>4. toServer = <<>> /\ toClient = <<>> /\ client.pc = "getsFlag"
  BY <1>2, <1>3 DEF Received
<1>5. /\ toServer' = toServer /\ client' = client /\ queue' = queue /\ stored' = stored
      /\ fetched' = fetched /\ commands' = commands /\ errors' = errors /\ notOpened' = notOpened
      /\ outOfStep' = outOfStep /\ TaskEnds(w) /\ polled' = TRUE
  BY DEF GetsMissing
<1>6. toClient' = <<<<"flag", -1>>>>
  BY <1>4, OneUnit DEF GetsMissing, Reply
<1>7. Free' /\ worker' \in [Workers -> Tasks]
  BY <1>2, <1>5, Ends
<1>8. GetsAnswered'
  BY <1>4, <1>5, <1>6, <1>7 DEF GetsAnswered
<1>9. TypeOK' /\ Going'
  BY <1>5, <1>7 DEF Inv, TypeOK, Going
<1> QED BY <1>8, <1>9 DEF Inv, InDialogue

LEMMA GetsFoundKeeps ==
  ASSUME Inv, NEW w \in Workers, GetsFound(w)
  PROVE  Inv'
<1>1. worker[w].at = "start" /\ worker[w].task = "gets" /\ worker[w].arg = "name"
  BY DEF GetsFound, On
<1>2. PICK m \in Typed :
        /\ Received(m[1], m[2]) /\ RunBy(w, Task(m[1], m[2], "start", 0))
        /\ worker[w].task = (IF m[1] = "notcmd" THEN "recv" ELSE m[1])
        /\ worker[w].arg = m[2]
  BY <1>1, Started
<1>3. m[1] = "gets" /\ m[2] = "name"
  BY <1>1, <1>2
<1>4. /\ Rest(m[1], m[2]) = <<>> /\ Awaits(m[1], m[2]) = "getsFlag"
      /\ ReadByWorker(m[1], m[2])
  BY <1>3 DEF Rest, Awaits, ReadByWorker
<1>5. toServer = <<>> /\ toClient = <<>> /\ client.pc = "getsFlag" /\ ~polled
  BY <1>2, <1>4 DEF Received
<1>6. /\ toServer' = toServer /\ client' = client /\ queue' = queue /\ stored' = stored
      /\ fetched' = fetched /\ commands' = commands /\ errors' = errors /\ notOpened' = notOpened
      /\ outOfStep' = outOfStep /\ polled' = polled /\ WorkerGoto(w, "offset", 0)
  BY DEF GetsFound
<1>7. toClient' = <<<<"flag", 0>>>>
  BY <1>5, OneUnit DEF GetsFound, Reply
<1>8. /\ queue' = <<>> /\ worker'[w] = Task("gets", "name", "offset", 0)
      /\ \A v \in Workers \ {w} : worker'[v] = NoTask
      /\ worker' \in [Workers -> Tasks]
  <2>1. RunBy(w, Task("gets", "name", "start", 0)) /\ "gets" \in DOMAIN ClientType
        /\ 0 \in 0..Size
    BY <1>2, <1>3, SessionAssumption DEF ClientType
  <2> QED BY <1>6, <2>1, Goes
<1>9. GetsAgreed(w)'
  BY <1>5, <1>6, <1>7, <1>8 DEF GetsAgreed, RunBy
<1>10. TypeOK' /\ Going'
  BY <1>6, <1>8 DEF Inv, TypeOK, Going
<1> QED BY <1>5, <1>6, <1>9, <1>10 DEF Inv, InDialogue

LEMMA GetsSendKeeps ==
  ASSUME Inv, NEW w \in Workers, GetsSend(w)
  PROVE  Inv'
<1>1. worker[w].at = "offset" /\ toServer # <<>>
  BY DEF GetsSend, WorkerTakes
<1>2. GetsAgreed(w)
  BY <1>1, Transferring
<1>3. /\ RunBy(w, Task("gets", "name", "offset", 0))
      /\ client.pc = "getsLen" /\ toServer = <<<<"size", fetched>>>> /\ toClient = <<>>
  BY <1>1, <1>2 DEF GetsAgreed
<1>4. Head(toServer) = <<"size", fetched>> /\ Tail(toServer) = <<>>
  BY <1>3, OneUnit
<1>5. toServer' = <<>> /\ outOfStep' = FALSE /\ Got = fetched
  <2>1. Head(toServer)[1] = "size" /\ Head(toServer)[2] = fetched
    BY <1>4
  <2> QED BY <1>4, <2>1, WorkerTakesRight DEF GetsSend, Got
<1> DEFINE n == Size - fetched
<1>6. n \in 0..Size
  BY SessionAssumption DEF Inv, TypeOK
<1>7. toClient' = <<>> \o (<<<<"len", n>>>> \o Units("data", n))
  BY <1>3, <1>5 DEF GetsSend, Reply
<1>8. toClient' # <<>> /\ Head(toClient') = <<"len", n>> /\ IsData(Tail(toClient'), n)
  <2> HIDE DEF n
  <2> QED BY <1>6, <1>7, SomeData
<1>9. /\ client' = client /\ queue' = queue /\ stored' = stored
      /\ fetched' = fetched /\ commands' = commands /\ errors' = errors /\ notOpened' = notOpened
      /\ TaskEnds(w) /\ polled' = TRUE
  BY DEF GetsSend
<1>10. Free' /\ worker' \in [Workers -> Tasks]
  BY <1>3, <1>9, Ends
<1>11. GetsAnswered'
  BY <1>3, <1>5, <1>8, <1>9, <1>10 DEF GetsAnswered
<1>12. TypeOK' /\ Going'
  BY <1>5, <1>9, <1>10 DEF Inv, TypeOK, Going
<1> QED BY <1>11, <1>12 DEF Inv, InDialogue

-------------------------------------------------------------------------------
\* The answer is then a length alone.
LEMMA GetsOpenFailsKeeps ==
  ASSUME Inv, NEW w \in Workers, GetsOpenFails(w)
  PROVE  Inv'
<1>1. worker[w].at = "offset" /\ toServer # <<>>
  BY DEF GetsOpenFails, WorkerTakes
<1>2. GetsAgreed(w)
  BY <1>1, Transferring
<1>3. /\ RunBy(w, Task("gets", "name", "offset", 0))
      /\ client.pc = "getsLen" /\ toServer = <<<<"size", fetched>>>> /\ toClient = <<>>
  BY <1>1, <1>2 DEF GetsAgreed
<1>4. Head(toServer) = <<"size", fetched>> /\ Tail(toServer) = <<>>
  BY <1>3, OneUnit
<1>5. toServer' = <<>> /\ outOfStep' = FALSE
  <2>1. Head(toServer)[1] = "size"
    BY <1>4
  <2> QED BY <1>4, <2>1, WorkerTakesRight DEF GetsOpenFails
<1>6. toClient' = <<<<"len", -1>>>>
  BY <1>3, OneUnit DEF GetsOpenFails, Reply
<1>7. /\ client' = client /\ queue' = queue /\ stored' = stored
      /\ fetched' = fetched /\ commands' = commands /\ errors' = errors /\ notOpened' = notOpened
      /\ TaskEnds(w) /\ polled' = TRUE
  BY DEF GetsOpenFails
<1>8. Free' /\ worker' \in [Workers -> Tasks]
  BY <1>3, <1>7, Ends
<1>9. GetsAnswered'
  BY <1>3, <1>5, <1>6, <1>7, <1>8 DEF GetsAnswered
<1>10. TypeOK' /\ Going'
  BY <1>5, <1>7, <1>8 DEF Inv, TypeOK, Going
<1> QED BY <1>9, <1>10 DEF Inv, InDialogue

-------------------------------------------------------------------------------
(* What follows from the dialogue *)

LEMMA Follows ==
  ASSUME Inv
  PROVE  CallsTyped /\ OneReader /\ PutsWhole /\ GetsWhole
<1>1. CallsTyped
  <2>1. \A m \in Typed, w \in Workers :
          RunBy(w, Task(m[1], m[2], "start", 0)) => worker[w].typed \in {worker[w].task, "notcmd"}
    BY TypedParts, TaskParts
  <2>2. "puts" \in DOMAIN ClientType /\ "gets" \in DOMAIN ClientType
    BY DEF ClientType
  <2>3. \A w \in Workers : PutsAgreed(w) \/ GetsAgreed(w)
                             => worker[w].typed \in {worker[w].task, "notcmd"}
    BY <2>2, TaskParts DEF PutsAgreed, GetsAgreed
  <2>4. NoTask.typed = NoTask.task
    BY DEF NoTask
  <2> QED BY <2>1, <2>3, <2>4, AtWorker DEF CallsTyped
<1>2. ASSUME NEW w \in Workers, worker[w].task \in {"puts", "gets"}, polled
      PROVE  worker[w].arg = "none" /\ worker[w].at = "start"
  <2>1. worker[w] # NoTask
    BY <1>2 DEF NoTask
  <2>2. PICK m \in Typed : Received(m[1], m[2]) /\ RunBy(w, Task(m[1], m[2], "start", 0))
    BY <1>2, <2>1, AtWorker
  <2>3. worker[w].at = "start"
    BY <2>2 DEF RunBy, Task
  <2>4. PICK k \in Typed :
          /\ Received(k[1], k[2])
          /\ worker[w].task = (IF k[1] = "notcmd" THEN "recv" ELSE k[1])
          /\ worker[w].arg = k[2]
    BY <2>3, Started
  <2>5. k[1] \in {"puts", "gets"}
    BY <1>2, <2>4
  <2>6. ~ReadByWorker(k[1], k[2])
    BY <1>2, <2>4 DEF Received
  <2> QED BY <2>3, <2>4, <2>5, <2>6 DEF ReadByWorker
<1>3. PutsWhole
  <2>1. SUFFICES ASSUME NEW w \in Workers, worker[w].at = "data"
                 PROVE  stored + Coming(toServer) = Size
    BY DEF PutsWhole
  <2>2. PutsAgreed(w)
    BY <2>1, Transferring
  <2>3. \A at, left : RunBy(w, Task("puts", "name", at, left)) => at = "data"
    BY <2>1, TaskParts DEF ClientType
  <2>4. IsData(toServer, Size - stored)
    BY <2>2, <2>3 DEF PutsAgreed
  <2>5. Size - stored \in 0..Size /\ stored \in 0..Size /\ Size \in Nat
    BY SessionAssumption DEF Inv, TypeOK
  <2>6. Coming(toServer) = Size - stored
    BY <2>4, <2>5, CountData
  <2> QED BY <2>5, <2>6
<1>4. GetsWhole
  <2>1. SUFFICES ASSUME client.pc = "getsData"
                 PROVE  fetched + Coming(toClient) = Size
    BY DEF GetsWhole
  <2>2. GetsAnswered
    BY <2>1, TypedParts DEF Inv, InDialogue, Idle, LoginAnswered, PutsAgreed, GetsAgreed,
       Asked, Received
  <2>3. IsData(toClient, Size - fetched)
    BY <2>1, <2>2 DEF GetsAnswered
  <2>4. Size - fetched \in 0..Size /\ fetched \in 0..Size /\ Size \in Nat
    BY SessionAssumption DEF Inv, TypeOK
  <2>5. Coming(toClient) = Size - fetched
    BY <2>3, <2>4, CountData
  <2> QED BY <2>4, <2>5
<1> QED BY <1>1, <1>2, <1>3, <1>4 DEF OneReader

\* The reactor takes a command from the connection, or what a worker waits for.
LEMMA HandleMessageKeeps ==
  ASSUME Inv, HandleMessage
  PROVE  Inv' \/ Stopped'
<1>1. PICK m \in Typed :
        \/ Asked(m[1], m[2])
        \/ /\ m = <<"puts", "none">> /\ Received(m[1], m[2]) /\ toServer = Rest(m[1], m[2])
           /\ \/ Queued(m[1], m[2])
              \/ \E w \in Workers : RunBy(w, Task(m[1], m[2], "start", 0))
  BY AtReactor DEF HandleMessage
<1>2. toServer' = Tail(toServer)
      /\ toClient' = toClient /\ client' = client /\ worker' = worker /\ stored' = stored
      /\ fetched' = fetched /\ commands' = commands /\ errors' = errors /\ notOpened' = notOpened
  BY DEF HandleMessage
<1>3. CASE Asked(m[1], m[2])
  <2> DEFINE cmd == Header(m[1], m[2])[2]
  <2>1. Head(toServer) = <<"header", cmd>>
    BY <1>3 DEF Asked, Header
  <2>2. cmd.type = ClientType[m[1]] /\ cmd.arg = m[2]
    BY DEF Header
  <2>3. queue' = Append(queue, cmd) /\ polled' = (cmd.type \notin Transfers \/ cmd.arg = "none")
        /\ outOfStep' = outOfStep
    <3> HIDE DEF cmd
    <3>1. Head(toServer)[1] = "header" /\ Head(toServer)[2] = cmd
      BY <2>1
    <3> QED BY <3>1 DEF HandleMessage
  <2>4. cmd.type \in Transfers <=> m[1] \in {"puts", "gets"}
    BY <2>2, TypedParts, TransferTypes
  <2>5. polled' = ~ReadByWorker(m[1], m[2])
    <3> HIDE DEF cmd
    <3>1. (cmd.type \notin Transfers \/ cmd.arg = "none") <=> ~ReadByWorker(m[1], m[2])
      BY <2>2, <2>4 DEF ReadByWorker
    <3> QED BY <2>3, <3>1
  <2>6. queue' = <<cmd>>
    <3> HIDE DEF cmd
    <3>1. queue = <<>>
      BY <1>3 DEF Asked, Free
    <3> QED BY <2>3, <3>1, OneUnit
  <2>7. Queued(m[1], m[2])'
    BY <1>2, <1>3, <2>6 DEF Queued, Asked, Free
  <2>8. Received(m[1], m[2])'
    BY <1>2, <1>3, <2>5 DEF Received, Asked
  <2>9. InDialogue'
    BY <2>7, <2>8 DEF InDialogue
  <2>10. TypeOK' /\ Going'
    <3>1. polled' \in BOOLEAN
      BY <2>5
    <3> QED BY <1>2, <2>3, <3>1 DEF Inv, TypeOK, Going
  <2> QED BY <2>9, <2>10 DEF Inv
<1>4. CASE /\ m = <<"puts", "none">> /\ Received(m[1], m[2]) /\ toServer = Rest(m[1], m[2])
           /\ \/ Queued(m[1], m[2])
              \/ \E w \in Workers : RunBy(w, Task(m[1], m[2], "start", 0))
  <2>1. toServer = <<<<"flag", -1>>>>
    BY <1>4 DEF Rest
  <2>2. Head(toServer) = <<"flag", -1>>
    BY <2>1, OneUnit
  <2>3. outOfStep' = TRUE /\ polled' = polled /\ queue' = queue
    <3>1. Head(toServer)[1] = "flag"
      BY <2>2
    <3> QED BY <3>1 DEF HandleMessage
  <2>4. m[1] = "puts" /\ m[2] = "none" /\ m[1] \in DOMAIN ClientType
    BY <1>4 DEF ClientType
  <2>5. Nameless'
    <3>1. CASE Queued(m[1], m[2])
      <4> DEFINE cmd == Header(m[1], m[2])[2]
      <4>1. cmd.type = ClientType["puts"] /\ cmd.arg = "none"
        BY <2>4 DEF Header
      <4>2. doTask(cmd.type) = "puts"
        BY <2>4, <4>1, DoTask
      <4>3. queue' = <<cmd>>
        BY <2>3, <3>1 DEF Queued
      <4> HIDE DEF cmd
      <4>4. 1 \in DOMAIN queue' /\ queue'[1] = cmd
        BY <4>3
      <4> QED BY <4>1, <4>2, <4>4 DEF Nameless
    <3>2. ASSUME NEW w \in Workers, RunBy(w, Task(m[1], m[2], "start", 0))
          PROVE  Nameless'
      <4>1. worker[w].task = "puts" /\ worker[w].arg = "none"
        <5>1. RunBy(w, Task("puts", "none", "start", 0)) /\ "puts" \in DOMAIN ClientType
          BY <2>4, <3>2
        <5> QED BY <5>1, TaskParts
      <4> QED BY <1>2, <4>1 DEF Nameless
    <3> QED BY <1>4, <3>1, <3>2
  <2>6. CallsTyped' /\ OneReader'
    BY <1>2, <2>3, Follows DEF CallsTyped, OneReader
  <2>7. PutsWhole'
    <3>1. ASSUME NEW w \in Workers, worker[w].at = "data" PROVE FALSE
      <4>1. ~polled
        BY <3>1, Transferring
      <4> QED BY <4>1 DEF HandleMessage
    <3> QED BY <1>2, <3>1 DEF PutsWhole
  <2>8. GetsWhole'
    BY <1>2, Follows DEF GetsWhole
  <2>9. TypeOK'
    BY <1>2, <2>3 DEF Inv, TypeOK
  <2> QED BY <2>3, <2>5, <2>6, <2>7, <2>8, <2>9 DEF Stopped
<1> QED BY <1>1, <1>3, <1>4

\* After a gets that was given up the user types one more command, at most, and the worker
\* takes its header for the size.
LEMMA GivenUpTypes ==
  ASSUME Patient, GivenUp, UserStep
  PROVE  GivenUp'
<1>1. PICK w \in Workers : Abandoned(w)
  BY DEF GivenUp
<1>2. ~LoginSend
  BY <1>1 DEF Abandoned, LoginSend
<1>3. ASSUME NEW pc \in {"loop", "putsSize", "getsFlag"}, NEW units, <<>> \o units = units,
             units # <<>>, Head(units)[1] = "header", Type(pc, units)
      PROVE  GivenUp'
  <2>1. client.pc = "loop" /\ toServer = <<>>
    BY <1>3 DEF Type, ClientAt, Settled, Quiet
  <2>2. toServer' = units /\ client' = [pc |-> pc, left |-> 0]
    BY <1>3, <2>1 DEF Type, Send, ClientGoto
  <2>3. /\ toClient' = toClient /\ polled' = polled /\ queue' = queue /\ worker' = worker
        /\ stored' = stored /\ fetched' = fetched /\ errors' = errors
        /\ outOfStep' = outOfStep /\ notOpened' = notOpened
    BY <1>3 DEF Type, server
  <2>4. Abandoned(w)'
    BY <1>1, <1>3, <2>2, <2>3 DEF Abandoned, RunBy
  <2>5. TypeOK'
    <3>1. client' \in [pc : {"loop", "putsSize", "getsFlag"}, left : 0..Size]
      BY <2>2, SessionAssumption
    <3>2. commands' \in 0..MaxCommands
      BY <1>3, SessionAssumption DEF GivenUp, TypeOK, Type
    <3> QED BY <2>3, <3>1, <3>2 DEF GivenUp, TypeOK
  <2> QED BY <2>3, <2>4, <2>5 DEF GivenUp
<1>4. \A typed, arg : Header(typed, arg)[1] = "header"
  BY DEF Header
<1>5. CASE TypeCommand
  <2>1. PICK cmd \in {"pwd", "ls", "cd", "rm", "mkdir", "rmdir", "notcmd"} :
          Type("loop", <<Header(cmd, "-")>>)
    BY <1>5 DEF TypeCommand
  <2> DEFINE units == <<Header(cmd, "-")>>
  <2>2. <<>> \o units = units /\ units # <<>> /\ Head(units) = Header(cmd, "-")
    BY OneUnit
  <2>3. Type("loop", units)
    BY <2>1
  <2> HIDE DEF units
  <2> QED BY <1>3, <1>4, <2>2, <2>3
<1>6. CASE TypePuts
  <2>1. CASE Type("loop", <<Header("puts", "missing"), <<"flag", -1>>>>)
    <3> DEFINE units == <<Header("puts", "missing"), <<"flag", -1>>>>
    <3>1. <<>> \o units = units /\ units # <<>> /\ Head(units) = Header("puts", "missing")
      BY TwoUnits
    <3>2. Type("loop", units)
      BY <2>1
    <3> HIDE DEF units
    <3> QED BY <1>3, <1>4, <3>1, <3>2
  <2>2. CASE Type("putsSize", <<Header("puts", "name"), <<"flag", 1>>, <<"sha", 0>>>>)
    <3> DEFINE units == <<Header("puts", "name"), <<"flag", 1>>, <<"sha", 0>>>>
    <3>1. <<>> \o units = units /\ units # <<>> /\ Head(units) = Header("puts", "name")
      BY ThreeUnits
    <3>2. Type("putsSize", units)
      BY <2>2
    <3> HIDE DEF units
    <3> QED BY <1>3, <1>4, <3>1, <3>2
  <2> QED BY <1>6, <2>1, <2>2 DEF TypePuts
<1>7. CASE TypePutsNoName
  <2> DEFINE units == <<Header("puts", "none"), <<"flag", -1>>>>
  <2>1. <<>> \o units = units /\ units # <<>> /\ Head(units) = Header("puts", "none")
    BY TwoUnits
  <2>2. Type("loop", units)
    BY <1>7 DEF TypePutsNoName
  <2> HIDE DEF units
  <2> QED BY <1>3, <1>4, <2>1, <2>2
<1>8. CASE TypeGets
  <2>1. PICK arg \in {"name", "missing", "none"} : Type("getsFlag", <<Header("gets", arg)>>)
    BY <1>8 DEF TypeGets
  <2> DEFINE units == <<Header("gets", arg)>>
  <2>2. <<>> \o units = units /\ units # <<>> /\ Head(units) = Header("gets", arg)
    BY OneUnit
  <2>3. Type("getsFlag", units)
    BY <2>1
  <2> HIDE DEF units
  <2> QED BY <1>3, <1>4, <2>2, <2>3
<1> QED BY <1>2, <1>5, <1>6, <1>7, <1>8 DEF UserStep

\* The client has nothing to read, the reactor does not poll, no other worker has a task.
LEMMA GivenUpWaits ==
  ASSUME GivenUp
  PROVE  ~ProgramStep /\ ~HandleMessage
<1>1. PICK w \in Workers : Abandoned(w)
  BY DEF GivenUp
<1>2. toClient = <<>> /\ ~polled /\ client.pc \in {"loop", "putsSize", "getsFlag"}
  BY <1>1 DEF Abandoned
<1>3. ~Show
  BY <1>2 DEF Show
<1>4. ~LoginSalt /\ ~LoginOk /\ ~LoginRefused
  BY <1>2 DEF LoginSalt, LoginOk, LoginRefused, ClientAt
<1>5. ~PutsSend /\ ~GetsFlag /\ ~GetsNotOpened /\ ~GetsLen /\ ~GetsData
  BY <1>2 DEF PutsSend, GetsFlag, GetsNotOpened, GetsLen, GetsData, ClientTakes
<1>6. ~HandleMessage
  BY <1>2 DEF HandleMessage
<1> QED BY <1>3, <1>4, <1>5, <1>6 DEF ProgramStep

LEMMA GivenUpWorks ==
  ASSUME GivenUp, NEW v \in Workers, WorkerStep(v)
  PROVE  Stopped'
<1>1. PICK w \in Workers : Abandoned(w)
  BY DEF GivenUp
<1>2. /\ queue = <<>> /\ worker[w] = Task("gets", "name", "offset", 0)
      /\ \A u \in Workers \ {w} : worker[u] = NoTask
  BY <1>1 DEF Abandoned, RunBy
<1>3. worker[w].task = "gets" /\ worker[w].at = "offset"
  BY <1>1, TaskParts DEF Abandoned, ClientType
<1>4. NoTask.task = "none" /\ NoTask.at = "idle"
  BY DEF NoTask
<1>5. worker[v].at \in {"idle", "offset"} /\ worker[v].at = "offset" => v = w
  BY <1>2, <1>3, <1>4
<1>6. ~Deque(v)
  BY <1>2 DEF Deque
<1>7. ~LoginCheck(v) /\ ~Answer(v) /\ ~RecvCommand(v) /\ ~GetsMissing(v) /\ ~GetsFound(v)
  BY <1>2, <1>3, <1>4 DEF LoginCheck, Answer, RecvCommand, GetsMissing, GetsFound, On
<1>8. ~PutsFlag(v) /\ ~PutsSha(v) /\ ~PutsLen(v) /\ ~PutsData(v)
  BY <1>2, <1>3, <1>4 DEF PutsFlag, PutsSha, PutsLen, PutsData, On
<1>9. GetsSend(v) \/ GetsOpenFails(v)
  BY <1>6, <1>7, <1>8 DEF WorkerStep
<1>10. v = w
  BY <1>2, <1>4, <1>9 DEF GetsSend, GetsOpenFails
<1>11. /\ toServer # <<>> /\ outOfStep' = (Head(toServer)[1] # "size") /\ TaskEnds(w)
       /\ client' = client /\ queue' = queue /\ stored' = stored /\ fetched' = fetched
       /\ commands' = commands /\ errors' = errors /\ notOpened' = notOpened /\ polled' = TRUE
  <2>1. CASE GetsSend(v)
    BY <1>10, <2>1 DEF GetsSend, WorkerTakes
  <2>2. CASE GetsOpenFails(v)
    BY <1>10, <2>2 DEF GetsOpenFails, WorkerTakes
  <2> QED BY <1>9, <2>1, <2>2
<1>12. outOfStep' = TRUE
  BY <1>1, <1>11 DEF Abandoned
<1>13. worker' \in [Workers -> Tasks] /\ \A u \in Workers : worker'[u] = NoTask
  <2>1. NoTask \in Tasks
    BY SessionAssumption DEF NoTask, Tasks
  <2> QED BY <1>2, <1>11, <2>1 DEF TaskEnds, GivenUp, TypeOK
<1>14. TypeOK'
  BY <1>11, <1>12, <1>13 DEF GivenUp, TypeOK
<1>15. CallsTyped' /\ OneReader' /\ PutsWhole'
  BY <1>13 DEF NoTask, CallsTyped, OneReader, PutsWhole
<1>16. GetsWhole'
  BY <1>1, <1>11 DEF Abandoned, GetsWhole
<1> QED BY <1>11, <1>12, <1>14, <1>15, <1>16 DEF GivenUp, Stopped

-------------------------------------------------------------------------------
\* With a patient user every step of either side leads from one place of the dialogue
\* to another one, to a gets that is given up, or to the end.
LEMMA Invariance ==
  ASSUME Patient
  PROVE  Spec => [](Inv \/ GivenUp \/ Stopped)
<1>1. ASSUME Init
      PROVE  Inv
  <2>1. NoTask \in Tasks
    BY SessionAssumption DEF NoTask, Tasks
  <2>2. TypeOK
    <3>1. client \in [pc : {"name"}, left : 0..Size]
      BY <1>1, SessionAssumption DEF Init
    <3>2. worker \in [Workers -> Tasks] /\ commands \in 0..MaxCommands /\ errors \in 0..MaxErrors
      BY <1>1, <2>1, SessionAssumption DEF Init
    <3> QED BY <1>1, <3>1, <3>2 DEF Init, TypeOK
  <2>3. Idle
    BY <1>1 DEF Init, Idle, Free
  <2> QED BY <1>1, <2>2, <2>3 DEF Init, Inv, Going, InDialogue
<1>2. ASSUME Inv, Next
      PROVE  Inv' \/ GivenUp' \/ Stopped' \/ UNCHANGED vars
  <2>1. CASE ProgramStep
    BY <1>2, <2>1, LoginSaltKeeps, LoginOkKeeps, LoginRefusedKeeps, ShowKeeps, PutsSendKeeps,
       GetsFlagKeeps, GetsNotOpenedLeads, GetsLenKeeps, GetsDataKeeps DEF ProgramStep
  <2>2. CASE UserStep
    BY <1>2, <2>2, UserKeeps
  <2>3. CASE HandleMessage
    BY <1>2, <2>3, HandleMessageKeeps
  <2>4. ASSUME NEW w \in Workers, WorkerStep(w)
        PROVE  Inv'
    BY <1>2, <2>4, DequeKeeps, LoginCheckKeeps, AnswerKeeps, RecvKeeps, PutsFlagKeeps,
       PutsShaKeeps, PutsLenKeeps, PutsDataKeeps, GetsMissingKeeps, GetsFoundKeeps,
       GetsSendKeeps, GetsOpenFailsKeeps DEF WorkerStep
  <2> QED BY <1>2, <2>1, <2>2, <2>3, <2>4 DEF Next, Done
<1>3. ASSUME GivenUp, Next
      PROVE  GivenUp' \/ Stopped' \/ UNCHANGED vars
  BY <1>3, GivenUpTypes, GivenUpWaits, GivenUpWorks DEF Next, Done
<1>4. ASSUME Stopped, Next
      PROVE  UNCHANGED vars
  <2>1. outOfStep
    BY <1>4 DEF Stopped
  <2>2. ~ProgramStep
    BY <2>1 DEF ProgramStep, LoginSalt, LoginOk, LoginRefused, Show, PutsSend, GetsFlag,
       GetsNotOpened, GetsLen, GetsData, ClientAt
  <2>3. ~UserStep
    BY <2>1 DEF UserStep, LoginSend, TypeCommand, TypePuts, TypePutsNoName, TypeGets, Type,
       ClientAt
  <2>4. ASSUME NEW w \in Workers
        PROVE  ~WorkerStep(w)
    BY <2>1 DEF WorkerStep, Deque, LoginCheck, Answer, RecvCommand, PutsFlag, PutsSha, PutsLen,
       PutsData, GetsMissing, GetsFound, GetsSend, GetsOpenFails, On
  <2> QED BY <1>4, <2>1, <2>2, <2>3, <2>4 DEF Next, HandleMessage, Done
<1>5. ASSUME UNCHANGED vars
      PROVE  /\ Inv => Inv'
             /\ GivenUp => GivenUp'
             /\ Stopped => Stopped'
  <2>1. Inv => Inv'
    BY <1>5 DEF vars, Inv, TypeOK, Going, InDialogue, Idle, LoginAnswered, GetsAnswered,
       PutsAgreed, GetsAgreed, Asked, Received, Queued, RunBy, Free
  <2>2. GivenUp => GivenUp'
    BY <1>5 DEF vars, GivenUp, TypeOK, Abandoned, RunBy
  <2>3. Stopped => Stopped'
    BY <1>5 DEF vars, Stopped, TypeOK, Nameless, CallsTyped, OneReader, PutsWhole, GetsWhole
  <2> QED BY <2>1, <2>2, <2>3
<1>6. ASSUME Inv \/ GivenUp \/ Stopped, [Next]_vars
      PROVE  (Inv \/ GivenUp \/ Stopped)'
  BY <1>2, <1>3, <1>4, <1>5, <1>6
<1> QED BY <1>1, <1>6, PTL DEF Spec

\* What the three parts of the invariant have in common.
LEMMA Holds ==
  ASSUME Inv \/ GivenUp \/ Stopped
  PROVE  TypeOK /\ CallsTyped /\ OneReader /\ PutsWhole /\ GetsWhole
<1>1. CASE Inv
  BY <1>1, Follows DEF Inv
<1>2. CASE GivenUp
  <2>1. PICK w \in Workers : Abandoned(w)
    BY <1>2 DEF GivenUp
  <2>2. worker[w].task = "gets" /\ worker[w].typed = "gets" /\ worker[w].at = "offset"
    BY <2>1, TaskParts DEF Abandoned, ClientType
  <2>3. \A v \in Workers \ {w} : worker[v] = NoTask
    BY <2>1 DEF Abandoned, RunBy
  <2>4. NoTask.task = "none" /\ NoTask.typed = "none" /\ NoTask.at = "idle"
    BY DEF NoTask
  <2>5. ~polled /\ client.pc # "getsData"
    BY <2>1 DEF Abandoned
  <2>6. CallsTyped
    BY <2>2, <2>3, <2>4 DEF CallsTyped
  <2>7. PutsWhole
    BY <2>2, <2>3, <2>4 DEF PutsWhole
  <2> QED BY <1>2, <2>5, <2>6, <2>7 DEF GivenUp, OneReader, GetsWhole
<1>3. CASE Stopped
  BY <1>3 DEF Stopped
<1> QED BY <1>1, <1>2, <1>3

\* The worker runs the command that was typed (CmdType of client.h and thread_pool.h), and
\* what a side takes from the connection is what the other side meant by it, at every place of
\* the dialogue, with two exceptions: the flag of a puts without a name may be read by the
\* reactor (bussiness.c:75-77), and after a gets whose file the client could not open
\* (client/gets.c:30-33) the worker reads the next command as the size.
THEOREM EndsUnderstand ==
  ASSUME Patient
  PROVE  Spec => []Understood
<1>1. ASSUME Inv \/ GivenUp \/ Stopped
      PROVE  Understood
  <2>1. CallsTyped
    BY <1>1, Holds
  <2>2. CASE Inv
    <3>1. ~outOfStep /\ ~notOpened /\ InDialogue
      BY <2>2 DEF Inv, Going
    <3> QED BY <2>1, <3>1 DEF Understood
  <2>3. CASE GivenUp
    <3>1. ~outOfStep /\ notOpened /\ \E w \in Workers : Abandoned(w)
      BY <2>3 DEF GivenUp
    <3> QED BY <2>1, <3>1 DEF Understood
  <2>4. CASE Stopped
    <3>1. outOfStep /\ (Nameless \/ notOpened)
      BY <2>4 DEF Stopped
    <3> QED BY <2>1, <3>1 DEF Understood
  <2> QED BY <1>1, <2>2, <2>3, <2>4
<1> QED BY <1>1, Invariance, PTL

\* While a worker runs a transfer the reactor does not poll its connection (delEpollReadfd in
\* handleMessage, addEpollReadfd at each end of putsCommand and getsCommand), unless the
\* transfer has no name: that one stays polled, until the worker has its first field.
THEOREM ReadersTakeTurns ==
  ASSUME Patient
  PROVE  Spec => []OneReader
<1>1. Inv \/ GivenUp \/ Stopped => OneReader
  BY Holds
<1> QED BY <1>1, Invariance, PTL

\* What has arrived of a file and what is under way make up the file (client/puts.c,
\* server/puts.c, client/gets.c, server/gets.c): a transfer is resumed at the right place.
THEOREM TransfersAreWhole ==
  ASSUME Patient
  PROVE  Spec => []TransfersWhole
<1>1. Inv \/ GivenUp \/ Stopped => TransfersWhole
  BY Holds DEF TransfersWhole
<1> QED BY <1>1, Invariance, PTL

================================================================================
