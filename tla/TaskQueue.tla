------------------------------- MODULE TaskQueue -------------------------------
(***************************************************************************)
(* The task queue (server/task_queue.c), the worker threads that drain it  *)
(* and the reactor thread that fills it and stops the pool                 *)
(* (server/thread_pool.c, the exit branch of server/main.c).               *)
(*                                                                         *)
(* One action is one step between two points where another thread may run: *)
(* a mutex call, a condition-variable call, or an access to the queue made *)
(* without holding the mutex.  The list is modelled with its pointers      *)
(* (pFront, pRear, pNext) and its counter, since the code tests the        *)
(* counter and follows the pointers.  What doTask does with a task is left *)
(* to other modules: here it is one step that returns.                     *)
(***************************************************************************)
EXTENDS Integers, Sequences

CONSTANTS Workers,  \* the threads threadpoolStart creates
          Main,     \* the reactor thread, the only producer
          Tasks,    \* the task_t blocks the reactor may allocate (the bound on requests)
          NULL      \* the null pointer, and "no owner" of the mutex

ASSUME TaskQueueAssumption ==
  /\ Workers # {}
  /\ Main \notin Workers
  /\ NULL \notin Workers \cup {Main}
  /\ NULL \notin Tasks

Threads == Workers \cup {Main}

VARIABLES
  pFront, pRear,  \* task_queue_t.pFront, pRear
  pNext,          \* pNext[t]: task_t.pNext
  queSize,        \* task_queue_t.queSize
  flag,           \* task_queue_t.flag: 1 run, 0 exit
  mutex,          \* the owner of task_queue_t.mutex, or NULL
  pc,             \* where each thread is
  ptask,          \* the local ptask of each thread
  heap,           \* heap[t]: "unused" before calloc, "live", "freed" after free
  submitted,      \* history: the tasks linked into the queue, in order
  taken,          \* history: the tasks taken out of it, in order
  done            \* history: the tasks whose doTask has returned

list == <<pFront, pRear, pNext, queSize>>
hist == <<submitted, taken, done>>
vars == <<pFront, pRear, pNext, queSize, flag, mutex, pc, ptask, heap,
          submitted, taken, done>>

WorkerLabels == {"lock", "check", "wait", "blocked", "take", "unlock", "run",
                 "free", "exited"}
MainLabels   == {"epoll", "enque", "link", "unlock", "signal", "poll", "clear",
                 "broadcast", "join", "exited"}

\* The threads asleep in pthread_cond_wait.
Blocked == { w \in Workers : pc[w] = "blocked" }

Goto(t, label) == pc' = [pc EXCEPT ![t] = label]

Init ==
  /\ pFront = NULL /\ pRear = NULL
  /\ pNext = [t \in Tasks |-> NULL]
  /\ queSize = 0
  /\ flag = 1
  /\ mutex = NULL
  /\ pc = [t \in Threads |-> IF t = Main THEN "epoll" ELSE "lock"]
  /\ ptask = [t \in Threads |-> NULL]
  /\ heap = [t \in Tasks |-> "unused"]
  /\ submitted = <<>> /\ taken = <<>> /\ done = {}

-------------------------------------------------------------------------------
(* The reactor thread: handleMessage allocates a task and calls taskEnque. *)

Request(t) ==
  /\ pc[Main] = "epoll"
  /\ heap[t] = "unused"
  /\ heap' = [heap EXCEPT ![t] = "live"]
  /\ ptask' = [ptask EXCEPT ![Main] = t]
  /\ Goto(Main, "enque")
  /\ UNCHANGED <<list, flag, mutex, hist>>

EnqueLock ==
  /\ pc[Main] = "enque"
  /\ mutex = NULL
  /\ mutex' = Main
  /\ Goto(Main, "link")
  /\ UNCHANGED <<list, flag, ptask, heap, hist>>

\* Mutant of EnqueLink: pRear is left on the old last task.
EnqueLinkKeepsRear ==
  /\ pc[Main] = "link"
  /\ LET t == ptask[Main] IN
       /\ IF queSize = 0
          THEN pFront' = t /\ pRear' = t /\ UNCHANGED pNext
          ELSE pNext' = [pNext EXCEPT ![pRear] = t] /\ UNCHANGED <<pFront, pRear>>
       /\ submitted' = Append(submitted, t)
  /\ queSize' = queSize + 1
  /\ Goto(Main, "unlock")
  /\ UNCHANGED <<flag, mutex, ptask, heap, taken, done>>

\* if(queueIsEmpty(que)) ... else ...; que->queSize++
EnqueLink ==
  /\ pc[Main] = "link"
  /\ LET t == ptask[Main] IN
       /\ \/ /\ queSize = 0
             /\ pFront' = t
             /\ UNCHANGED pNext
          \/ /\ queSize # 0
             /\ pNext' = [pNext EXCEPT ![pRear] = t]
             /\ UNCHANGED pFront
       /\ pRear' = t
       /\ submitted' = Append(submitted, t)
  /\ queSize' = queSize + 1
  /\ Goto(Main, "unlock")
  /\ UNCHANGED <<flag, mutex, ptask, heap, taken, done>>

EnqueUnlock ==
  /\ pc[Main] = "unlock"
  /\ mutex' = NULL
  /\ Goto(Main, "signal")
  /\ UNCHANGED <<list, flag, ptask, heap, hist>>

\* Mutant of EnqueSignal: the signal is forgotten.
EnqueSignalNobody ==
  /\ pc[Main] = "signal"
  /\ Goto(Main, "epoll")
  /\ ptask' = [ptask EXCEPT ![Main] = NULL]
  /\ UNCHANGED <<list, flag, mutex, heap, hist>>

\* pthread_cond_signal wakes one sleeper, if there is one; the woken thread
\* has to take the mutex again before pthread_cond_wait returns.
EnqueSignal ==
  /\ pc[Main] = "signal"
  /\ \/ /\ Blocked = {}
        /\ Goto(Main, "epoll")
     \/ \E w \in Blocked :
          pc' = [pc EXCEPT ![Main] = "epoll", ![w] = "lock"]
  /\ ptask' = [ptask EXCEPT ![Main] = NULL]
  /\ UNCHANGED <<list, flag, mutex, heap, hist>>

-------------------------------------------------------------------------------
(* The reactor thread: the exit pipe is readable, threadpoolStop.  The     *)
(* queue's counter is read, and its flag written, without the mutex.       *)

ExitRequest ==
  /\ pc[Main] = "epoll"
  /\ Goto(Main, "poll")
  /\ UNCHANGED <<list, flag, mutex, ptask, heap, hist>>

\* Mutant of StopPoll: threadpoolStop does not wait for the queue to drain.
StopPollAtOnce ==
  /\ pc[Main] = "poll"
  /\ Goto(Main, "clear")
  /\ UNCHANGED <<list, flag, mutex, ptask, heap, hist>>

\* while(!queueIsEmpty(que)) sleep(1);
StopPoll ==
  /\ pc[Main] = "poll"
  /\ queSize = 0
  /\ Goto(Main, "clear")
  /\ UNCHANGED <<list, flag, mutex, ptask, heap, hist>>

ClearFlag ==
  /\ pc[Main] = "clear"
  /\ flag' = 0
  /\ Goto(Main, "broadcast")
  /\ UNCHANGED <<list, mutex, ptask, heap, hist>>

\* Mutant of Broadcast: pthread_cond_signal, which wakes one thread.
BroadcastOne ==
  /\ pc[Main] = "broadcast"
  /\ \/ /\ Blocked = {}
        /\ Goto(Main, "join")
     \/ \E w \in Blocked : pc' = [pc EXCEPT ![Main] = "join", ![w] = "lock"]
  /\ UNCHANGED <<list, flag, mutex, ptask, heap, hist>>

\* pthread_cond_broadcast wakes the threads that are asleep now.
Broadcast ==
  /\ pc[Main] = "broadcast"
  /\ pc' = [t \in Threads |-> IF t = Main THEN "join"
                              ELSE IF t \in Blocked THEN "lock" ELSE pc[t]]
  /\ UNCHANGED <<list, flag, mutex, ptask, heap, hist>>

\* Mutant of Join: the process exits without joining the workers.
JoinNobody ==
  /\ pc[Main] = "join"
  /\ Goto(Main, "exited")
  /\ UNCHANGED <<list, flag, mutex, ptask, heap, hist>>

\* pthread_join of every worker, then threadpoolDestroy and exit(0).
Join ==
  /\ pc[Main] = "join"
  /\ \A w \in Workers : pc[w] = "exited"
  /\ Goto(Main, "exited")
  /\ UNCHANGED <<list, flag, mutex, ptask, heap, hist>>

-------------------------------------------------------------------------------
(* A worker: threadFunc calls taskDeque, doTask, free, in a loop. *)

\* pthread_mutex_lock, on entry to taskDeque or on return from pthread_cond_wait.
DequeLock(w) ==
  /\ pc[w] = "lock"
  /\ mutex = NULL
  /\ mutex' = w
  /\ Goto(w, "check")
  /\ UNCHANGED <<list, flag, ptask, heap, hist>>

\* while(que->flag && queueIsEmpty(que))
DequeCheck(w) ==
  /\ pc[w] = "check"
  /\ Goto(w, IF flag = 1 /\ queSize = 0 THEN "wait" ELSE "take")
  /\ UNCHANGED <<list, flag, mutex, ptask, heap, hist>>

\* pthread_cond_wait releases the mutex and falls asleep in one step.
DequeWait(w) ==
  /\ pc[w] = "wait"
  /\ mutex' = NULL
  /\ Goto(w, "blocked")
  /\ UNCHANGED <<list, flag, ptask, heap, hist>>

\* Mutant of SpuriousWakeup: the wait is under an "if", so its thread goes on
\* without looking at the queue again.
WakeupNoLoop(w) ==
  /\ pc[w] = "blocked"
  /\ mutex = NULL
  /\ mutex' = w
  /\ Goto(w, "take")
  /\ UNCHANGED <<list, flag, ptask, heap, hist>>

\* A wakeup nobody asked for, which POSIX allows.
SpuriousWakeup(w) ==
  /\ pc[w] = "blocked"
  /\ Goto(w, "lock")
  /\ UNCHANGED <<list, flag, mutex, ptask, heap, hist>>

\* Mutant of DequeTake: the task is not unlinked while others follow it.
DequeTakeKeepsFront(w) ==
  /\ pc[w] = "take"
  /\ flag = 1
  /\ ptask' = [ptask EXCEPT ![w] = pFront]
  /\ IF queSize = 1
     THEN pFront' = NULL /\ pRear' = NULL
     ELSE UNCHANGED <<pFront, pRear>>
  /\ queSize' = queSize - 1
  /\ taken' = Append(taken, pFront)
  /\ Goto(w, "unlock")
  /\ UNCHANGED <<pNext, flag, mutex, heap, submitted, done>>

\* if(que->flag): the flag is read again.  The first task leaves the list.
DequeTake(w) ==
  /\ pc[w] = "take"
  /\ flag = 1
  /\ ptask' = [ptask EXCEPT ![w] = pFront]
  /\ \/ /\ queSize = 1
        /\ pFront' = NULL /\ pRear' = NULL
     \/ /\ queSize # 1
        /\ pFront' = pNext[pFront]
        /\ UNCHANGED pRear
  /\ queSize' = queSize - 1
  /\ taken' = Append(taken, pFront)
  /\ Goto(w, "unlock")
  /\ UNCHANGED <<pNext, flag, mutex, heap, submitted, done>>

\* else pret = NULL
DequeStop(w) ==
  /\ pc[w] = "take"
  /\ flag = 0
  /\ ptask' = [ptask EXCEPT ![w] = NULL]
  /\ Goto(w, "unlock")
  /\ UNCHANGED <<list, flag, mutex, heap, hist>>

\* A NULL task ends threadFunc.
DequeUnlock(w) ==
  /\ pc[w] = "unlock"
  /\ mutex' = NULL
  /\ Goto(w, IF ptask[w] = NULL THEN "exited" ELSE "run")
  /\ UNCHANGED <<list, flag, ptask, heap, hist>>

\* Mutant of DoTask: the task is freed before it is executed.
DoTaskAfterFree(w) ==
  /\ pc[w] = "run"
  /\ done' = done \cup {ptask[w]}
  /\ heap' = [heap EXCEPT ![ptask[w]] = "freed"]
  /\ Goto(w, "free")
  /\ UNCHANGED <<list, flag, mutex, ptask, submitted, taken>>

DoTask(w) ==
  /\ pc[w] = "run"
  /\ done' = done \cup {ptask[w]}
  /\ Goto(w, "free")
  /\ UNCHANGED <<list, flag, mutex, ptask, heap, submitted, taken>>

FreeTask(w) ==
  /\ pc[w] = "free"
  /\ heap' = [heap EXCEPT ![ptask[w]] = "freed"]
  /\ ptask' = [ptask EXCEPT ![w] = NULL]
  /\ Goto(w, "lock")
  /\ UNCHANGED <<list, flag, mutex, hist>>

-------------------------------------------------------------------------------
(* The process is gone after exit(0). *)
Terminated == pc[Main] = "exited" /\ UNCHANGED vars

\* What the reactor does once a request, or the exit request, is in.
MainStep == EnqueLink \/ EnqueUnlock \/ EnqueSignal
              \/ StopPoll \/ ClearFlag \/ Broadcast \/ Join

WorkerStep(w) == DequeCheck(w) \/ DequeWait(w) \/ DequeTake(w) \/ DequeStop(w)
                   \/ DequeUnlock(w) \/ DoTask(w) \/ FreeTask(w)

Next ==
  \/ \E t \in Tasks : Request(t)
  \/ ExitRequest
  \/ EnqueLock
  \/ MainStep
  \/ \E w \in Workers : DequeLock(w) \/ WorkerStep(w) \/ SpuriousWakeup(w)
  \/ Terminated

\* The scheduler runs every thread that can run, and a thread that asks for
\* the mutex again and again while others release it gets it.  Requests, the
\* exit request and spurious wakeups may never come.
Fairness ==
  /\ WF_vars(MainStep)
  /\ SF_vars(EnqueLock)
  /\ \A w \in Workers : WF_vars(WorkerStep(w)) /\ SF_vars(DequeLock(w))

Spec == Init /\ [][Next]_vars
FairSpec == Spec /\ Fairness

-------------------------------------------------------------------------------
(* Correctness *)

\* The positions of submitted that no worker has taken.
Pending == (Len(taken) + 1)..Len(submitted)

TypeOK ==
  /\ pFront \in Tasks \cup {NULL} /\ pRear \in Tasks \cup {NULL}
  /\ pNext \in [Tasks -> Tasks \cup {NULL}]
  /\ queSize \in Nat
  /\ flag \in {0, 1}
  /\ mutex \in Threads \cup {NULL}
  /\ pc \in [Threads -> WorkerLabels \cup MainLabels]
  /\ pc[Main] \in MainLabels /\ \A w \in Workers : pc[w] \in WorkerLabels
  /\ ptask \in [Threads -> Tasks \cup {NULL}]
  /\ heap \in [Tasks -> {"unused", "live", "freed"}]
  /\ submitted \in Seq(Tasks) /\ taken \in Seq(Tasks)
  /\ done \subseteq Tasks

\* Tasks leave the queue in the order in which the reactor put them in, whatever
\* workers wake up and in whatever order they get the mutex (taskEnque, taskDeque).
FifoOrder ==
  /\ Len(taken) <= Len(submitted)
  /\ \A i \in 1..Len(taken) : taken[i] = submitted[i]

\* The counter that taskEnque and taskDeque branch on and the pointers they
\* follow agree at every instant, the ones where the mutex is free or held
\* included: the chain from pFront to pRear is exactly the tasks not yet taken.
QueueShape ==
  /\ queSize = Len(submitted) - Len(taken)
  /\ queSize = 0 => pFront = NULL /\ pRear = NULL
  /\ queSize > 0 => /\ pFront = submitted[Len(taken) + 1]
                    /\ pRear = submitted[Len(submitted)]
  /\ \A i \in Pending : i < Len(submitted) => pNext[submitted[i]] = submitted[i + 1]

\* No two workers ever hold the same task, and the one that holds it finds it
\* allocated and not executed yet: free(ptask) in one thread never pulls a task
\* from under another, and no task is executed twice (threadFunc, taskDeque).
ExclusiveTask ==
  \A w \in Workers : ptask[w] # NULL =>
    /\ heap[ptask[w]] = "live"
    /\ ptask[w] \in done <=> pc[w] = "free"
    /\ \A v \in Workers \ {w} : ptask[v] # ptask[w]

\* A worker that got past its wait loop finds a task or the exit flag, although
\* others may have taken the task it was woken for (the second if(que->flag) of
\* taskDeque does not look at the queue again).
WokenForReason ==
  \A w \in Workers : pc[w] = "take" => flag = 0 \/ queSize > 0

\* The flag is cleared, without the mutex, only on an empty queue that stays
\* empty, so taskDeque's "flag is 0" branch never leaves a task behind: the
\* check in threadpoolStop and the write in broadcastALL are two steps.
ClosedOnEmpty == flag = 0 => queSize = 0

\* The process exits only after every task it accepted was executed.
DrainBeforeExit ==
  pc[Main] = "exited" => \A i \in 1..Len(submitted) : submitted[i] \in done

\* A task never waits in the queue while every worker sleeps, but for the time
\* taskEnque takes from its unlock to its signal.
NoLostWakeup ==
  queSize > 0 /\ pc[Main] \notin {"unlock", "signal"} =>
    \E w \in Workers : pc[w] \notin {"wait", "blocked", "exited"}

\* Every request that reached the reactor is executed in the end, provided
\* doTask returns, through spurious wakeups and a shutdown that overtakes it.
EveryTaskServed == \A t \in Tasks : heap[t] = "live" ~> t \in done

(* The inductive invariant: what each thread's position says of the mutex, of *)
(* its task, of the two ends of the queue and of the stop.                   *)

\* The mutex is held exactly in the critical sections.
MutexInv ==
  /\ mutex = Main <=> pc[Main] \in {"link", "unlock"}
  /\ \A w \in Workers : mutex = w <=> pc[w] \in {"check", "wait", "take", "unlock"}

\* The reactor's task is not in the queue before EnqueLink puts it there.
ProducerInv ==
  /\ ptask[Main] # NULL <=> pc[Main] \in {"enque", "link", "unlock", "signal"}
  /\ pc[Main] \in {"enque", "link"} =>
       /\ heap[ptask[Main]] = "live"
       /\ \A i \in 1..Len(submitted) : submitted[i] # ptask[Main]

\* Each task is submitted once; it is live as long as it is in the queue.
QueuedInv ==
  /\ \A i, j \in 1..Len(submitted) : submitted[i] = submitted[j] => i = j
  /\ \A i \in 1..Len(submitted) : heap[submitted[i]] # "unused"
  /\ \A i \in Pending : heap[submitted[i]] = "live" /\ submitted[i] \notin done

\* A worker's task is one it took; a task that was taken is held or
\* done, and only such a task is done.
OwnerInv ==
  /\ \A w \in Workers :
       /\ pc[w] \in {"run", "free"} => ptask[w] # NULL
       /\ ptask[w] # NULL => /\ pc[w] \in {"unlock", "run", "free"}
                             /\ \E i \in 1..Len(taken) : taken[i] = ptask[w]
  /\ \A i \in 1..Len(taken) :
       taken[i] \in done \/ \E w \in Workers : ptask[w] = taken[i]
  /\ \A t \in done : \E i \in 1..Len(taken) : taken[i] = t

\* Who has seen the exit flag, and what that says of the queue.
StopInv ==
  /\ flag = 0 <=> pc[Main] \in {"broadcast", "join", "exited"}
  /\ pc[Main] = "clear" => queSize = 0
  /\ \A w \in Workers :
       /\ pc[w] = "wait" => queSize = 0
       /\ pc[w] = "exited" \/ (pc[w] = "unlock" /\ ptask[w] = NULL) => flag = 0
  /\ pc[Main] = "exited" => \A w \in Workers : pc[w] = "exited"

\* All of the above together: inductive, and it implies every invariant here.
IInv ==
  /\ TypeOK /\ MutexInv /\ ProducerInv /\ QueuedInv /\ OwnerInv /\ StopInv
  /\ FifoOrder /\ QueueShape /\ ExclusiveTask /\ WokenForReason /\ ClosedOnEmpty
  /\ NoLostWakeup

\* TaskPool's view of this state.
Pool == INSTANCE TaskPool WITH
  queue    <- SubSeq(submitted, Len(taken) + 1, Len(submitted)),
  running  <- [w \in Workers |-> IF pc[w] \in {"unlock", "run"} THEN ptask[w] ELSE NULL],
  finished <- done,
  open     <- flag = 1,
  exited   <- pc[Main] = "exited"

\* The pointer list, the mutex and the condition variable implement TaskPool.
ImplementsPool == Pool!Spec

\* thread_pool.c:62, "notify all the sub threads to exit", and 64, "reclaim
\* the resources of all the sub threads": a stop that began comes to its end.
ShutdownCompletes == pc[Main] = "poll" ~> pc[Main] = "exited"

\* The one way in which the stop can fail: unless the broadcast meets a worker
\* between its test of the flag and its pthread_cond_wait, every worker sees the flag,
\* whether it sleeps, holds a task, or waits for the mutex, and is joined.
StopCompletes ==
  [](pc[Main] = "broadcast" => \A w \in Workers : pc[w] # "wait") => ShutdownCompletes

\* thread_pool.c:55-56, "after all the tasks have been executed, broadcast and
\* exit": nothing is being executed when the broadcast is sent.
BroadcastAfterDone ==
  pc[Main] = "broadcast" => \A i \in 1..Len(submitted) : submitted[i] \in done
===============================================================================
