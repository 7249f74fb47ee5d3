---------------------------- MODULE TaskQueueProofs ----------------------------
(***************************************************************************)
(* Safety of the task queue, for any number of workers and of tasks.       *)
(* IInv is inductive: InitInv, NextInv; every invariant of TaskQueue is    *)
(* one of its conjuncts, or follows from it (DrainLemma).                  *)
(***************************************************************************)
EXTENDS TaskQueue, SequenceTheorems, TLAPS

USE TaskQueueAssumption DEF Threads

\* The queue starts empty, every worker outside its critical section.
LEMMA InitInv == Init => IInv
  BY DEF Init, IInv, TypeOK, MutexInv, ProducerInv, QueuedInv, OwnerInv, StopInv,
         FifoOrder, QueueShape, ExclusiveTask, WokenForReason, ClosedOnEmpty,
         NoLostWakeup, Pending, WorkerLabels, MainLabels

\* The reactor links a task: the chain grows by one at its end.
LEMMA EnqueLinkInv == ASSUME IInv, EnqueLink PROVE IInv'
<1>. USE DEF IInv
<1>. DEFINE t == ptask[Main]
            n == Len(submitted)
<1>1. t \in Tasks /\ heap[t] = "live" /\ \A i \in 1..n : submitted[i] # t
  BY DEF ProducerInv, TypeOK, EnqueLink
<1>2. /\ submitted' \in Seq(Tasks) /\ n \in Nat /\ Len(submitted') = n + 1
      /\ \A i \in 1..n : submitted'[i] = submitted[i]
      /\ submitted'[n + 1] = t
  BY <1>1, AppendProperties DEF TypeOK, EnqueLink
<1>3. Len(taken) \in Nat /\ Len(taken) <= n /\ queSize = n - Len(taken)
  BY DEF TypeOK, FifoOrder, QueueShape
<1>4. t \notin done
  <2>1. ASSUME t \in done PROVE FALSE
    <3>1. PICK i \in 1..Len(taken) : taken[i] = t
      BY <2>1 DEF OwnerInv
    <3>2. i \in 1..n /\ submitted[i] = t
      BY <3>1, <1>3 DEF FifoOrder
    <3>. QED BY <3>2, <1>1
  <2>. QED BY <2>1
<1>5. TypeOK'
  <2>1. pNext' \in [Tasks -> Tasks \cup {NULL}]
    BY <1>1 DEF TypeOK, EnqueLink
  <2>. QED BY <1>1, <1>2, <2>1, <1>3 DEF TypeOK, EnqueLink, Goto, WorkerLabels, MainLabels
<1>6. QueuedInv'
  BY <1>1, <1>2, <1>3, <1>4 DEF QueuedInv, Pending, EnqueLink
<1>7. FifoOrder'
  BY <1>2, <1>3 DEF FifoOrder, EnqueLink
<1>8. QueueShape'
  <2>1. CASE queSize = 0
    BY <2>1, <1>1, <1>2, <1>3 DEF QueueShape, Pending, EnqueLink
  <2>2. CASE queSize # 0
    <3>1. pRear = submitted[n] /\ pRear \in Tasks /\ n \in 1..n /\ Len(taken) + 1 \in 1..n
      BY <2>2, <1>2, <1>3 DEF QueueShape, TypeOK
    <3>2. \A i \in Pending : i < n => pNext'[submitted[i]] = submitted[i + 1]
      BY <2>2, <3>1, <1>2, <1>3 DEF QueueShape, QueuedInv, Pending, EnqueLink, TypeOK
    <3>3. pNext'[submitted[n]] = t
      BY <2>2, <3>1 DEF EnqueLink, TypeOK
    <3>4. \A i \in Pending' : i < n + 1 => pNext'[submitted'[i]] = submitted'[i + 1]
      <4>1. taken' = taken
        BY DEF EnqueLink
      <4>2. SUFFICES ASSUME NEW i \in (Len(taken) + 1)..n
                     PROVE  pNext'[submitted'[i]] = submitted'[i + 1]
        BY <4>1, <1>2, <1>3 DEF Pending
      <4>3. CASE i < n
        BY <4>3, <3>2, <1>2, <1>3 DEF Pending
      <4>4. CASE i = n
        BY <4>4, <3>1, <3>3, <1>2
      <4>. QED BY <4>3, <4>4, <1>3
    <3>5. pFront' = submitted'[Len(taken') + 1] /\ pRear' = submitted'[Len(submitted')]
      BY <2>2, <1>2, <1>3, <3>1 DEF QueueShape, EnqueLink
    <3>6. queSize' = Len(submitted') - Len(taken') /\ queSize' > 0
      BY <2>2, <1>2, <1>3, <3>1 DEF EnqueLink
    <3>. QED BY <1>2, <3>4, <3>5, <3>6 DEF QueueShape
  <2>. QED BY <2>1, <2>2
<1>9. MutexInv' /\ ProducerInv' /\ OwnerInv' /\ StopInv' /\ ExclusiveTask'
  BY <1>1, <1>3 DEF TypeOK, EnqueLink, Goto, MutexInv, ProducerInv, OwnerInv, StopInv, ExclusiveTask
<1>10. WokenForReason' /\ ClosedOnEmpty' /\ NoLostWakeup'
  BY <1>3 DEF WokenForReason, ClosedOnEmpty, NoLostWakeup, StopInv,
                       TypeOK, EnqueLink, Goto
<1>. QED BY <1>5, <1>6, <1>7, <1>8, <1>9, <1>10

\* A worker takes the first task: its position moves from Pending to taken.
LEMMA DequeTakeInv == ASSUME NEW w \in Workers, IInv, DequeTake(w) PROVE IInv'
<1>. USE DEF IInv
<1>. DEFINE n == Len(submitted)
            k == Len(taken) + 1
<1>1. queSize > 0 /\ mutex = w /\ ptask[w] = NULL
  BY DEF WokenForReason, MutexInv, OwnerInv, DequeTake, TypeOK
<1>2. /\ n \in Nat /\ k \in 1..n /\ queSize = n - k + 1
      /\ pFront = submitted[k] /\ pFront \in Tasks
  BY <1>1 DEF QueueShape, TypeOK
<1>3. /\ taken' \in Seq(Tasks) /\ Len(taken') = k
      /\ \A i \in 1..(k - 1) : taken'[i] = taken[i]
      /\ taken'[k] = pFront
  BY <1>2, AppendProperties DEF TypeOK, DequeTake
<1>4. /\ heap[pFront] = "live" /\ pFront \notin done
      /\ \A v \in Workers : ptask[v] # pFront
  <2>1. heap[pFront] = "live" /\ pFront \notin done
    BY <1>2 DEF QueuedInv, Pending
  <2>2. ASSUME NEW v \in Workers, ptask[v] = pFront PROVE FALSE
    <3>1. PICK i \in 1..Len(taken) : taken[i] = pFront
      BY <2>2, <1>2 DEF OwnerInv
    <3>2. submitted[i] = submitted[k] /\ i \in 1..n /\ i # k
      BY <3>1, <1>2 DEF FifoOrder
    <3>. QED BY <3>2, <1>2 DEF QueuedInv
  <2>. QED BY <2>1, <2>2
<1>5. ASSUME queSize = 1 PROVE TypeOK' /\ QueueShape'
  <2>1. TypeOK'
    BY <1>2, <1>3, <1>5 DEF TypeOK, DequeTake, Goto, WorkerLabels, MainLabels
  <2>2. QueueShape'
    BY <1>2, <1>3, <1>5 DEF QueueShape, Pending, DequeTake
  <2>. QED BY <2>1, <2>2
<1>6. ASSUME queSize # 1 PROVE TypeOK' /\ QueueShape'
  <2>0. k \in Pending /\ k < n /\ k + 1 \in 1..n
    BY <1>1, <1>2, <1>6 DEF Pending
  <2>1. pFront' = submitted[k + 1] /\ pRear' = pRear
    BY <1>2, <1>6, <2>0 DEF QueueShape, DequeTake
  <2>2. TypeOK'
    BY <1>1, <1>2, <1>3, <1>6, <2>0, <2>1 DEF TypeOK, DequeTake, Goto, WorkerLabels, MainLabels
  <2>3. QueueShape'
    BY <1>1, <1>2, <1>3, <1>6, <2>0, <2>1 DEF QueueShape, Pending, DequeTake
  <2>. QED BY <2>2, <2>3
<1>7. FifoOrder'
  <2>1. \A i \in 1..k : taken'[i] = submitted[i]
    BY <1>2, <1>3 DEF FifoOrder
  <2>. QED BY <1>2, <1>3, <2>1 DEF FifoOrder, DequeTake
<1>8. MutexInv' /\ ProducerInv' /\ StopInv'
  BY <1>1, <1>2 DEF MutexInv, ProducerInv, StopInv, TypeOK, DequeTake, Goto, WorkerLabels, MainLabels
<1>9. QueuedInv'
  BY <1>2, <1>3 DEF QueuedInv, Pending, DequeTake
<1>10. OwnerInv'
  <2>1. ASSUME NEW v \in Workers, v # w
        PROVE  ptask'[v] = ptask[v] /\ pc'[v] = pc[v]
    BY <2>1 DEF TypeOK, DequeTake, Goto
  <2>2. ptask'[w] = taken'[k] /\ pc'[w] = "unlock"
    BY <1>3 DEF TypeOK, DequeTake, Goto
  <2>3. \A v \in Workers :
          /\ pc'[v] \in {"run", "free"} => ptask'[v] # NULL
          /\ ptask'[v] # NULL => /\ pc'[v] \in {"unlock", "run", "free"}
                                 /\ \E i \in 1..k : taken'[i] = ptask'[v]
    BY <1>2, <1>3, <2>1, <2>2 DEF OwnerInv
  <2>4. \A i \in 1..k : taken'[i] \in done \/ \E v \in Workers : ptask'[v] = taken'[i]
    <3>1. ASSUME NEW i \in 1..(k - 1)
          PROVE  taken'[i] \in done \/ \E v \in Workers : ptask'[v] = taken'[i]
      <4>1. CASE taken[i] \in done
        BY <4>1, <1>3
      <4>2. CASE \E v \in Workers : ptask[v] = taken[i]
        <5>1. PICK v \in Workers : ptask[v] = taken[i]
          BY <4>2
        <5>2. taken[i] \in Tasks
          BY <1>2, ElementOfSeq DEF TypeOK
        <5>3. v # w
          BY <5>1, <5>2, <1>1
        <5>. QED BY <5>1, <5>3, <2>1, <1>3
      <4>. QED BY <4>1, <4>2, <1>2 DEF OwnerInv
    <3>. QED BY <3>1, <2>2, <1>2
  <2>5. \A t \in done : \E i \in 1..k : taken'[i] = t
    BY <1>2, <1>3 DEF OwnerInv
  <2>6. done' = done
    BY DEF DequeTake
  <2>. QED BY <2>3, <2>4, <2>5, <2>6, <1>3 DEF OwnerInv
<1>11. ExclusiveTask'
  BY <1>2, <1>4 DEF ExclusiveTask, TypeOK, DequeTake, Goto
<1>12. WokenForReason' /\ ClosedOnEmpty' /\ NoLostWakeup'
  BY <1>1, <1>2 DEF WokenForReason, ClosedOnEmpty, NoLostWakeup, MutexInv,
                       StopInv, TypeOK, DequeTake, Goto
<1>. QED BY <1>5, <1>6, <1>7, <1>8, <1>9, <1>10, <1>11, <1>12

\* No step, of the reactor or of a worker, breaks the inductive invariant.
LEMMA NextInv == ASSUME IInv, [Next]_vars PROVE IInv'
<1>. USE DEF IInv, TypeOK, MutexInv, ProducerInv, QueuedInv, OwnerInv, StopInv,
             FifoOrder, QueueShape, ExclusiveTask, WokenForReason, ClosedOnEmpty,
             NoLostWakeup, Pending, WorkerLabels, MainLabels, list, hist, Goto, Blocked
<1>1. ASSUME NEW t \in Tasks, Request(t) PROVE IInv'
  <2>1. /\ TypeOK' /\ MutexInv' /\ ProducerInv' /\ QueuedInv'
    BY <1>1 DEF Request
  <2>2. /\ OwnerInv' /\ StopInv' /\ FifoOrder' /\ QueueShape' /\ ExclusiveTask'
    BY <1>1 DEF Request
  <2>3. /\ WokenForReason' /\ ClosedOnEmpty' /\ NoLostWakeup'
    BY <1>1 DEF Request
  <2>. QED BY <2>1, <2>2, <2>3
<1>2. ASSUME ExitRequest PROVE IInv'
  BY <1>2 DEF ExitRequest
<1>3. ASSUME EnqueLock PROVE IInv'
  BY <1>3 DEF EnqueLock
<1>4. ASSUME EnqueLink PROVE IInv'
  BY <1>4, EnqueLinkInv
<1>5. ASSUME EnqueUnlock PROVE IInv'
  BY <1>5 DEF EnqueUnlock
<1>6. ASSUME EnqueSignal PROVE IInv'
  <2>1. CASE Blocked = {} /\ Goto(Main, "epoll")
    BY <1>6, <2>1 DEF EnqueSignal
  <2>2. ASSUME NEW w \in Blocked, pc' = [pc EXCEPT ![Main] = "epoll", ![w] = "lock"]
        PROVE IInv'
    BY <1>6, <2>2 DEF EnqueSignal
  <2>. QED BY <1>6, <2>1, <2>2 DEF EnqueSignal
<1>7. ASSUME StopPoll PROVE IInv'
  BY <1>7 DEF StopPoll
<1>8. ASSUME ClearFlag PROVE IInv'
  BY <1>8 DEF ClearFlag
<1>9. ASSUME Broadcast PROVE IInv'
  <2>. USE <1>9 DEF Broadcast
  <2>1. TypeOK' OBVIOUS
  <2>2. MutexInv' /\ ProducerInv' /\ StopInv' OBVIOUS
  <2>3. QueuedInv' OBVIOUS
  <2>4. OwnerInv' OBVIOUS
  <2>5. FifoOrder' /\ QueueShape' OBVIOUS
  <2>6. ExclusiveTask' OBVIOUS
  <2>7. WokenForReason' /\ ClosedOnEmpty' /\ NoLostWakeup' OBVIOUS
  <2>. QED BY <2>1, <2>2, <2>3, <2>4, <2>5, <2>6, <2>7
<1>10. ASSUME Join PROVE IInv'
  BY <1>10 DEF Join
<1>11. ASSUME NEW w \in Workers, DequeLock(w) PROVE IInv'
  BY <1>11 DEF DequeLock
<1>12. ASSUME NEW w \in Workers, DequeCheck(w) PROVE IInv'
  BY <1>12 DEF DequeCheck
<1>13. ASSUME NEW w \in Workers, DequeWait(w) PROVE IInv'
  BY <1>13 DEF DequeWait
<1>14. ASSUME NEW w \in Workers, SpuriousWakeup(w) PROVE IInv'
  BY <1>14 DEF SpuriousWakeup
<1>15. ASSUME NEW w \in Workers, DequeTake(w) PROVE IInv'
  BY <1>15, DequeTakeInv
<1>16. ASSUME NEW w \in Workers, DequeStop(w) PROVE IInv'
  BY <1>16 DEF DequeStop
<1>17. ASSUME NEW w \in Workers, DequeUnlock(w) PROVE IInv'
  BY <1>17 DEF DequeUnlock
<1>18. ASSUME NEW w \in Workers, DoTask(w) PROVE IInv'
  BY <1>18 DEF DoTask
<1>19. ASSUME NEW w \in Workers, FreeTask(w) PROVE IInv'
  <2>. USE <1>19 DEF FreeTask
  <2>1. ptask[w] \in done /\ ptask[w] \in Tasks OBVIOUS
  <2>2. TypeOK' OBVIOUS
  <2>3. MutexInv' /\ StopInv' OBVIOUS
  <2>4. ProducerInv' /\ QueuedInv' BY <2>1
  <2>5. OwnerInv' BY <2>1
  <2>6. FifoOrder' /\ QueueShape' OBVIOUS
  <2>7. ExclusiveTask' BY <2>1
  <2>8. WokenForReason' /\ ClosedOnEmpty' /\ NoLostWakeup' OBVIOUS
  <2>. QED BY <2>2, <2>3, <2>4, <2>5, <2>6, <2>7, <2>8
<1>20. CASE UNCHANGED vars
  BY <1>20 DEF vars
<1>. QED
  <2>. HIDE DEF IInv
  <2>. QED BY <1>1, <1>2, <1>3, <1>4, <1>5, <1>6, <1>7, <1>8, <1>9, <1>10, <1>11, <1>12, <1>13, <1>14, <1>15, <1>16, <1>17, <1>18, <1>19, <1>20
          DEF Next, MainStep, WorkerStep, Terminated

\* IInv holds in every reachable state.
THEOREM Invariance == Spec => []IInv
  BY InitInv, NextInv, PTL DEF Spec

\* Every variable keeps its type, the pointers of the list included: pFront and
\* pNext are only followed where they are not NULL.
THEOREM TypeCorrect == Spec => []TypeOK
  BY Invariance, PTL DEF IInv

\* First in, first out, and a list whose counter and pointers agree.
THEOREM QueueCorrect == Spec => [](FifoOrder /\ QueueShape)
  BY Invariance, PTL DEF IInv

\* A task is held by one worker, live, and executed once.
THEOREM Exclusive == Spec => []ExclusiveTask
  BY Invariance, PTL DEF IInv

\* taskDeque never takes from an empty queue, and never refuses a queued task.
THEOREM TakesAndStops == Spec => [](WokenForReason /\ ClosedOnEmpty)
  BY Invariance, PTL DEF IInv

\* A queued task has a worker awake, or about to be signalled.
THEOREM Awake == Spec => []NoLostWakeup
  BY Invariance, PTL DEF IInv

\* When the reactor has joined the workers, no task is queued or held.
LEMMA DrainLemma == IInv => DrainBeforeExit
<1> SUFFICES ASSUME IInv, pc[Main] = "exited", NEW i \in 1..Len(submitted)
             PROVE  submitted[i] \in done
  BY DEF DrainBeforeExit
<1>1. \A w \in Workers : ptask[w] = NULL
  BY DEF IInv, StopInv, OwnerInv
<1>2. i \in 1..Len(taken) /\ taken[i] = submitted[i]
  BY DEF IInv, StopInv, ClosedOnEmpty, QueueShape, FifoOrder, TypeOK
<1>3. taken[i] \in Tasks
  BY <1>2, ElementOfSeq DEF IInv, TypeOK
<1>. QED BY <1>1, <1>2, <1>3 DEF IInv, OwnerInv

\* The process exits with every accepted task executed.
THEOREM Drained == Spec => []DrainBeforeExit
  BY Invariance, DrainLemma, PTL

-------------------------------------------------------------------------------
(* The list, the mutex and the condition variable implement TaskPool: every *)
(* step is one of the pool's, or changes nothing that the pool shows.       *)

\* What the pool shows of the queue, and of a worker.
Shown     == SubSeq(submitted, Len(taken) + 1, Len(submitted))
Runs(w)   == IF pc[w] \in {"unlock", "run"} THEN ptask[w] ELSE NULL
Running   == [w \in Workers |-> Runs(w)]

\* What is left of a sequence behind its first k elements.
LEMMA Rest ==
  ASSUME NEW s \in Seq(Tasks), NEW k \in 0..Len(s)
  PROVE  /\ SubSeq(s, k + 1, Len(s)) \in Seq(Tasks)
         /\ Len(SubSeq(s, k + 1, Len(s))) = Len(s) - k
         /\ \A i \in 1..(Len(s) - k) : SubSeq(s, k + 1, Len(s))[i] = s[k + i]
<1>. DEFINE m == k + 1
            n == Len(s)
<1>1. n \in Nat /\ m \in Nat /\ k \in Nat /\ \A i \in m..n : s[i] \in Tasks
  OBVIOUS
<1>2. /\ SubSeq(s, m, n) \in Seq(Tasks)
      /\ Len(SubSeq(s, m, n)) = IF m <= n THEN n - m + 1 ELSE 0
      /\ \A i \in 1..(n - m + 1) : SubSeq(s, m, n)[i] = s[m + i - 1]
  BY <1>1, SubSeqProperties
<1>3. n - m + 1 = n - k /\ \A i \in 1..(n - k) : m + i - 1 = k + i
  BY <1>1
<1>4. k <= n /\ m = k + 1
  OBVIOUS
<1>. HIDE DEF m, n
<1>5. (IF m <= n THEN n - m + 1 ELSE 0) = n - k
  <2>1. CASE m <= n
    BY <2>1, <1>3
  <2>2. CASE ~ (m <= n)
    <3>1. n = k
      BY <2>2, <1>1, <1>4
    <3>. QED BY <3>1, <2>2, <1>1
  <2>. QED BY <2>1, <2>2
<1>. QED BY <1>2, <1>3, <1>5 DEF m, n

\* The tasks that are shown: what was submitted and not taken.
LEMMA ShownQueue ==
  ASSUME IInv
  PROVE  /\ Shown \in Seq(Tasks) /\ Len(Shown) = queSize /\ queSize \in Nat
         /\ \A i \in 1..queSize : Shown[i] = submitted[Len(taken) + i]
<1>1. /\ submitted \in Seq(Tasks) /\ Len(taken) \in 0..Len(submitted)
      /\ queSize = Len(submitted) - Len(taken) /\ queSize \in Nat
  BY DEF IInv, TypeOK, FifoOrder, QueueShape
<1>. QED BY <1>1, Rest DEF Shown

LEMMA PoolInit == Init => Pool!Init
<1> SUFFICES ASSUME Init PROVE Pool!Init
  OBVIOUS
<1>1. Shown = <<>>
  BY SubSeqEmpty DEF Init, Shown
<1>. QED BY <1>1 DEF Init, Pool!Init, Shown

\* A step that changes neither queue, tasks in execution, flag nor exit is hidden.
LEMMA Hidden ==
  ASSUME UNCHANGED <<submitted, taken, done, flag>>,
         \A w \in Workers : Runs(w)' = Runs(w),
         (pc'[Main] = "exited") = (pc[Main] = "exited")
  PROVE  UNCHANGED Pool!vars
<1>1. Running' = Running
  BY DEF Running
<1>2. Shown' = Shown
  BY DEF Shown
<1>. QED BY <1>1, <1>2 DEF Pool!vars, Shown, Running, Runs

\* EnqueLink is the pool's Submit.
LEMMA EnqueLinkSubmits == ASSUME IInv, IInv', EnqueLink PROVE Pool!Next
<1>. DEFINE t == ptask[Main]
<1>1. /\ pc[Main] = "link" /\ t \in Tasks /\ submitted' = Append(submitted, t)
      /\ pc' = [pc EXCEPT ![Main] = "unlock"] /\ queSize' = queSize + 1
      /\ UNCHANGED <<flag, ptask, taken, done>>
  BY DEF IInv, TypeOK, ProducerInv, EnqueLink, Goto
<1>2. flag = 1
  BY <1>1 DEF IInv, TypeOK, StopInv
<1>3. Running' = Running /\ pc'[Main] # "exited"
  BY <1>1 DEF IInv, TypeOK, Running, Runs
<1>4. \A i \in 1..Len(submitted) : submitted[i] # t
  BY <1>1 DEF IInv, ProducerInv
<1>5. \A i \in 1..Len(taken) : taken[i] # t
  BY <1>4 DEF IInv, TypeOK, FifoOrder
<1>6. t \notin { Shown[i] : i \in DOMAIN Shown } \cup done \cup { Running[w] : w \in Workers }
  <2>1. \A i \in DOMAIN Shown : Shown[i] # t
    <3>1. \A i \in 1..queSize : Len(taken) + i \in 1..Len(submitted)
      BY ShownQueue DEF IInv, TypeOK, QueueShape
    <3>2. DOMAIN Shown = 1..queSize
      BY ShownQueue
    <3>. QED BY <1>4, <3>1, <3>2, ShownQueue
  <2>2. t \notin done
    BY <1>5 DEF IInv, OwnerInv
  <2>3. \A w \in Workers : Running[w] # t
    BY <1>1, <1>5 DEF IInv, OwnerInv, Running, Runs
  <2>. QED BY <2>1, <2>2, <2>3
<1>7. Shown' = Append(Shown, t)
  <2>1. /\ Shown \in Seq(Tasks) /\ Len(Shown) = queSize /\ queSize \in Nat
        /\ \A i \in 1..queSize : Shown[i] = submitted[Len(taken) + i]
    BY ShownQueue
  <2>2. /\ submitted \in Seq(Tasks) /\ Len(taken) \in 0..Len(submitted)
        /\ queSize = Len(submitted) - Len(taken)
    BY DEF IInv, TypeOK, FifoOrder, QueueShape
  <2>3. /\ submitted' \in Seq(Tasks) /\ Len(submitted') = Len(submitted) + 1
        /\ \A i \in 1..Len(submitted) : submitted'[i] = submitted[i]
        /\ submitted'[Len(submitted) + 1] = t
    BY <1>1, <2>2, AppendProperties
  <2>4. /\ Shown' \in Seq(Tasks) /\ Len(Shown') = queSize + 1
        /\ \A i \in 1..(queSize + 1) : Shown'[i] = submitted'[Len(taken) + i]
    <3>1. Shown' = SubSeq(submitted', Len(taken) + 1, Len(submitted'))
      BY <1>1 DEF Shown
    <3>2. Len(taken) \in 0..Len(submitted') /\ Len(submitted') - Len(taken) = queSize + 1
      BY <2>2, <2>3
    <3>. QED BY <2>3, <3>1, <3>2, Rest
  <2>5. /\ Append(Shown, t) \in Seq(Tasks) /\ Len(Append(Shown, t)) = queSize + 1
        /\ \A i \in 1..queSize : Append(Shown, t)[i] = Shown[i]
        /\ Append(Shown, t)[queSize + 1] = t
    BY <1>1, <2>1, AppendProperties
  <2>6. \A i \in 1..(queSize + 1) : Shown'[i] = Append(Shown, t)[i]
    <3>1. \A i \in 1..queSize : Len(taken) + i \in 1..Len(submitted)
      BY <2>1, <2>2
    <3>2. Len(taken) + queSize + 1 = Len(submitted) + 1
      BY <2>1, <2>2
    <3>3. \A i \in 1..queSize : Shown'[i] = Append(Shown, t)[i]
      <4>. SUFFICES ASSUME NEW i \in 1..queSize
                   PROVE  Shown'[i] = Append(Shown, t)[i]
        OBVIOUS
      <4>1. Shown'[i] = submitted'[Len(taken) + i]
        BY <2>1, <2>4
      <4>2. submitted'[Len(taken) + i] = submitted[Len(taken) + i]
        BY <3>1, <2>3
      <4>3. submitted[Len(taken) + i] = Append(Shown, t)[i]
        BY <2>1, <2>5
      <4>. QED BY <4>1, <4>2, <4>3
    <3>4. Shown'[queSize + 1] = Append(Shown, t)[queSize + 1]
      BY <2>1, <2>2, <2>3, <2>4, <2>5, <3>2
    <3>5. \A i \in 1..(queSize + 1) : i \in 1..queSize \/ i = queSize + 1
      BY <2>1
    <3>. QED BY <3>3, <3>4, <3>5
  <2>. QED BY <2>4, <2>5, <2>6, SeqEqual
<1>8. Pool!Submit(t)
  BY <1>1, <1>2, <1>3, <1>6, <1>7 DEF Pool!Submit, Pool!Queued, Shown, Running, Runs
<1>. QED BY <1>1, <1>8 DEF Pool!Next

\* DequeTake is the pool's Start.
LEMMA DequeTakeStarts == ASSUME IInv, IInv', NEW w \in Workers, DequeTake(w) PROVE Pool!Next
<1>1. /\ pc[w] = "take" /\ flag = 1 /\ ptask' = [ptask EXCEPT ![w] = pFront]
      /\ pc' = [pc EXCEPT ![w] = "unlock"] /\ taken' = Append(taken, pFront)
      /\ queSize' = queSize - 1 /\ UNCHANGED <<flag, submitted, done>>
  BY DEF DequeTake, Goto
<1>2. queSize \in Nat /\ queSize > 0 /\ queSize = Len(submitted) - Len(taken)
      /\ pFront = submitted[Len(taken) + 1] /\ Len(taken) \in Nat /\ Len(submitted) \in Nat
      /\ pFront \in Tasks
  BY <1>1 DEF IInv, TypeOK, WokenForReason, QueueShape
<1>3. /\ Shown \in Seq(Tasks) /\ Shown # <<>> /\ Head(Shown) = pFront
  BY <1>2, ShownQueue
<1>4. Shown' = Tail(Shown)
  <2>1. Len(taken') = Len(taken) + 1
    BY <1>1 DEF IInv, TypeOK
  <2>2. Len(taken) + 1 \in 1..Len(submitted) /\ Len(submitted) \in (Len(taken) + 1)..Len(submitted)
    BY <1>2
  <2>3. submitted \in Seq(Tasks) /\ Len(taken) + 1 \in 1..Len(submitted)
    BY <2>2 DEF IInv, TypeOK
  <2>4. Shown = SubSeq(submitted, Len(taken) + 1, Len(submitted))
    BY DEF Shown
  <2>5. Shown' = SubSeq(submitted, Len(taken) + 1 + 1, Len(submitted))
    BY <1>1, <2>1 DEF Shown
  <2>. QED BY <2>2, <2>3, <2>4, <2>5, HeadTailOfSubSeq
<1>5. Running[w] = NULL /\ Running' = [Running EXCEPT ![w] = pFront]
  BY <1>1 DEF IInv, TypeOK, Running, Runs
<1>6. (pc'[Main] = "exited") = (pc[Main] = "exited")
  BY <1>1 DEF IInv, TypeOK
<1>7. Pool!Start(w)
  BY <1>1, <1>3, <1>4, <1>5, <1>6 DEF Pool!Start, Shown, Running, Runs
<1>. QED BY <1>7 DEF Pool!Next

\* DoTask is the pool's Finish.
LEMMA DoTaskFinishes == ASSUME IInv, NEW w \in Workers, DoTask(w) PROVE Pool!Next
<1>1. /\ pc[w] = "run" /\ done' = done \cup {ptask[w]} /\ pc' = [pc EXCEPT ![w] = "free"]
      /\ UNCHANGED <<flag, ptask, submitted, taken>>
  BY DEF DoTask, Goto
<1>2. Running[w] = ptask[w] /\ ptask[w] # NULL /\ Running' = [Running EXCEPT ![w] = NULL]
  BY <1>1 DEF IInv, TypeOK, OwnerInv, Running, Runs
<1>3. Shown' = Shown /\ (pc'[Main] = "exited") = (pc[Main] = "exited")
  BY <1>1 DEF IInv, TypeOK, Shown
<1>4. Pool!Finish(w)
  BY <1>1, <1>2, <1>3 DEF Pool!Finish, Shown, Running, Runs
<1>. QED BY <1>4 DEF Pool!Next

\* ClearFlag is the pool's Close.
LEMMA ClearFlagCloses == ASSUME IInv, ClearFlag PROVE Pool!Next
<1>1. /\ pc[Main] = "clear" /\ flag' = 0 /\ pc' = [pc EXCEPT ![Main] = "broadcast"]
      /\ UNCHANGED <<ptask, submitted, taken, done>>
  BY DEF ClearFlag, Goto, hist
<1>2. flag = 1 /\ queSize = 0
  BY <1>1 DEF IInv, TypeOK, StopInv
<1>3. Shown = <<>> /\ Shown' = Shown
  BY <1>1, <1>2, ShownQueue DEF Shown
<1>4. Running' = Running /\ pc'[Main] # "exited" /\ pc[Main] # "exited"
  BY <1>1 DEF IInv, TypeOK, Running, Runs
<1>5. Pool!Close
  BY <1>1, <1>2, <1>3, <1>4 DEF Pool!Close, Shown, Running, Runs
<1>. QED BY <1>5 DEF Pool!Next

\* Join is the pool's Exit.
LEMMA JoinExits == ASSUME IInv, Join PROVE Pool!Next
<1>1. /\ pc[Main] = "join" /\ pc' = [pc EXCEPT ![Main] = "exited"]
      /\ \A w \in Workers : pc[w] = "exited"
      /\ UNCHANGED <<ptask, submitted, taken, done, flag>>
  BY DEF Join, Goto, hist
<1>2. flag # 1 /\ pc'[Main] = "exited"
  BY <1>1 DEF IInv, TypeOK, StopInv
<1>3. Running' = Running /\ \A w \in Workers : Running[w] = NULL
  BY <1>1 DEF IInv, TypeOK, Running, Runs
<1>4. Shown' = Shown
  BY <1>1 DEF Shown
<1>5. Pool!Exit
  BY <1>1, <1>2, <1>3, <1>4 DEF Pool!Exit, Pool!Busy, Shown, Running, Runs
<1>. QED BY <1>5 DEF Pool!Next

\* Every step of the reactor and of the workers is a step of the pool, or hidden.
LEMMA PoolNext == IInv /\ IInv' /\ [Next]_vars => [Pool!Next]_(Pool!vars)
<1> SUFFICES ASSUME IInv, IInv', [Next]_vars PROVE Pool!Next \/ UNCHANGED Pool!vars
  OBVIOUS
<1>. USE DEF Goto
<1>1. ASSUME NEW t \in Tasks, Request(t) PROVE UNCHANGED Pool!vars
  BY <1>1, Hidden DEF Request, hist, IInv, TypeOK, Runs
<1>2. CASE ExitRequest \/ EnqueLock \/ EnqueUnlock \/ StopPoll
  BY <1>2, Hidden DEF ExitRequest, EnqueLock, EnqueUnlock, StopPoll, hist, IInv, TypeOK, Runs
<1>3. CASE EnqueSignal
  BY <1>3, Hidden DEF EnqueSignal, Blocked, hist, IInv, TypeOK, Runs
<1>4. CASE Broadcast
  BY <1>4, Hidden DEF Broadcast, Blocked, hist, IInv, TypeOK, Runs
<1>5. ASSUME NEW w \in Workers, DequeLock(w) \/ DequeCheck(w) \/ DequeWait(w) \/ SpuriousWakeup(w)
      PROVE  UNCHANGED Pool!vars
  BY <1>5, Hidden DEF DequeLock, DequeCheck, DequeWait, SpuriousWakeup, hist, IInv, TypeOK, Runs
<1>6. ASSUME NEW w \in Workers, DequeStop(w) \/ DequeUnlock(w) PROVE UNCHANGED Pool!vars
  BY <1>6, Hidden DEF DequeStop, DequeUnlock, hist, IInv, TypeOK, Runs
<1>7. ASSUME NEW w \in Workers, FreeTask(w) PROVE UNCHANGED Pool!vars
  BY <1>7, Hidden DEF FreeTask, hist, IInv, TypeOK, Runs
<1>8. CASE UNCHANGED vars
  BY <1>8, Hidden DEF vars, Runs
<1>. QED BY <1>1, <1>2, <1>3, <1>4, <1>5, <1>6, <1>7, <1>8, EnqueLinkSubmits, ClearFlagCloses,
            JoinExits, DequeTakeStarts, DoTaskFinishes
         DEF Next, MainStep, WorkerStep, Terminated

\* The safety part of ImplementsPool: tasks start in the order of their submission,
\* each is run by one worker, once, and the pool closes and exits in that order.
THEOREM IsPool == Spec => Pool!Init /\ [][Pool!Next]_(Pool!vars)
  BY PoolInit, PoolNext, Invariance, PTL DEF Spec
===============================================================================
