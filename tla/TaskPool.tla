------------------------------- MODULE TaskPool -------------------------------
(***************************************************************************)
(* What the thread pool of CloudiskServer promises to its one client, the  *)
(* reactor thread, stated without a mutex, a condition variable or a       *)
(* pointer: tasks start in the order in which they were submitted, each    *)
(* is run by one worker, once, and the pool is closed and left only when   *)
(* nothing that was accepted is still to be run.                           *)
(* TaskQueue implements this specification.                                *)
(***************************************************************************)
EXTENDS Sequences

CONSTANTS Workers,   \* the threads of the pool
          Tasks,     \* the tasks that may be submitted
          NULL       \* "no task"

VARIABLES queue,     \* the submitted tasks that no worker has taken, oldest first
          running,   \* running[w]: the task worker w executes, or NULL
          finished,  \* the tasks whose execution has returned
          open,      \* TRUE until the pool is told to stop
          exited     \* TRUE once the pool has been joined and destroyed

vars == <<queue, running, finished, open, exited>>

Queued == { queue[i] : i \in DOMAIN queue }
Busy   == { w \in Workers : running[w] # NULL }

Init ==
  /\ queue = <<>>
  /\ running = [w \in Workers |-> NULL]
  /\ finished = {}
  /\ open = TRUE
  /\ exited = FALSE

\* A task is submitted once, and only while the pool is open.
Submit(t) ==
  /\ open
  /\ t \notin Queued \cup finished \cup { running[w] : w \in Workers }
  /\ queue' = Append(queue, t)
  /\ UNCHANGED <<running, finished, open, exited>>

\* An idle worker starts the oldest task.
Start(w) ==
  /\ open
  /\ queue # <<>>
  /\ running[w] = NULL
  /\ running' = [running EXCEPT ![w] = Head(queue)]
  /\ queue' = Tail(queue)
  /\ UNCHANGED <<finished, open, exited>>

Finish(w) ==
  /\ running[w] # NULL
  /\ finished' = finished \cup {running[w]}
  /\ running' = [running EXCEPT ![w] = NULL]
  /\ UNCHANGED <<queue, open, exited>>

\* The pool closes only when every accepted task has at least been started.
Close ==
  /\ open
  /\ queue = <<>>
  /\ open' = FALSE
  /\ UNCHANGED <<queue, running, finished, exited>>

\* ... and is destroyed only when every started task has returned.
Exit ==
  /\ ~open
  /\ ~exited
  /\ Busy = {}
  /\ exited' = TRUE
  /\ UNCHANGED <<queue, running, finished, open>>

Next ==
  \/ \E t \in Tasks : Submit(t)
  \/ \E w \in Workers : Start(w) \/ Finish(w)
  \/ Close
  \/ Exit

\* An accepted task is started, and a started task returns.  That the pool
\* exits once it is closed is not promised: see TaskQueue!ShutdownCompletes.
Fairness ==
  /\ WF_vars(\E w \in Workers : Start(w))
  /\ \A w \in Workers : WF_vars(Finish(w))

Spec == Init /\ [][Next]_vars /\ Fairness
===============================================================================
