------------------------------ MODULE PathResolver ------------------------------
(***************************************************************************)
(* server/path_handler.c in detail, as the workers that run cd, rm and     *)
(* rmdir use it: strtok, which splits the working directory onto a stack   *)
(* and the argument into a queue; the queue, a ring in a growing array;    *)
(* and the loop of path_handler that pairs the two.                        *)
(*                                                                         *)
(* Stack and queue are the worker's own, but the place strtok has reached  *)
(* is one static variable of the process.  A copy (strdup) of a path is    *)
(* known by its worker and by which of the two it is; a place in it is the *)
(* number of names before it, or one more than there are at a NUL that     *)
(* strtok has written.  A call of strtok is two steps: it loads the place, *)
(* and it returns a name and stores the new one.                           *)
(*                                                                         *)
(* A behaviour uses one queue freely (QueueNext) or runs get_whole_path in *)
(* some workers (ResolveNext).  Bounds: MaxItems names in a queue, MaxOps  *)
(* queue operations; Calls are the calls of get_whole_path that meet.      *)
(***************************************************************************)
EXTENDS Paths

CONSTANTS INITIAL_CAPACITY, NULL, Items, MaxItems, MaxOps, Workers,
          Calls    \* functions from Workers to [pwd |-> , arg |-> ] or NULL

ASSUME PathResolverAssumption ==
  INITIAL_CAPACITY \in Nat \ {0} /\ MaxItems \in Nat /\ MaxOps \in Nat /\ NULL # ".."

CopyIds == Workers \X {"pwd", "arg"}

VARIABLES
  save,   \* strtok's static pointer: [copy |-> , pos |-> ], or NULL before the first call
  live,   \* the copies that are not freed
  cut,    \* cut[c]: the names of copy c behind which strtok has written a NUL
  cur,    \* cur[w]: the place that w's call of strtok has loaded
  q,      \* q[w], the path_que: [data |-> , front |-> , rear |-> , size |-> , capacity |-> ]
  stack,  \* stack[w], the path_stack, bottom first
  items,  \* history: what is in q[w], oldest first
  pc,     \* pc[w]: "split", "in" and "next" (strtok), "free"; "climb", "join", "done"
  splits, \* splits[w]: "pwd" or "arg"
  call, result,
  overlapped, \* history: while w split, another worker did, too
  ops

strtok == <<save, cut, cur>>
resolverVars == <<strtok, live, q, stack, items, pc, splits, call, result, overlapped, ops>>

Array(n) == [i \in 0..(n - 1) |-> NULL]

init_queue == [data |-> Array(INITIAL_CAPACITY), front |-> 0, rear |-> -1, size |-> 0,
               capacity |-> INITIAL_CAPACITY]

\* Mutant of resize_queue: the array is copied as it lies.
resize_queue_flat(que) ==
  [que EXCEPT !.data = [i \in 0..(2 * que.capacity - 1) |->
                          IF i < que.size THEN que.data[i] ELSE NULL],
              !.front = 0, !.rear = que.size - 1, !.capacity = 2 * @]

\* Twice the room; the ring is unrolled to the start of the new array.
resize_queue(que) ==
  [que EXCEPT !.data = [i \in 0..(2 * que.capacity - 1) |->
                          IF i < que.size THEN que.data[(que.front + i) % que.capacity]
                          ELSE NULL],
              !.front = 0, !.rear = que.size - 1, !.capacity = 2 * @]

enqueue(que, item) ==
  LET r == IF que.size = que.capacity THEN resize_queue(que) ELSE que
      rear == (r.rear + 1) % r.capacity
  IN  [r EXCEPT !.rear = rear, !.data[rear] = item, !.size = @ + 1]

\* Mutant of dequeue: the front runs past the end of the array.
dequeue_nowrap(que) == [que EXCEPT !.front = @ + 1, !.size = @ - 1]

dequeue(que) == [que EXCEPT !.front = (@ + 1) % que.capacity, !.size = @ - 1]

peek_que(que) == IF que.size = 0 THEN NULL ELSE que.data[que.front]

\* pathFromQueue: the names from front to rear.
pathFromQueue(que) == [i \in 1..que.size |-> que.data[(que.front + i - 1) % que.capacity]]

-------------------------------------------------------------------------------
Nothing ==
  /\ save = NULL /\ live = {} /\ cut = [c \in CopyIds |-> {}]
  /\ cur = [w \in Workers |-> NULL]
  /\ q = [w \in Workers |-> init_queue] /\ items = [w \in Workers |-> <<>>]
  /\ stack = [w \in Workers |-> <<>>] /\ splits = [w \in Workers |-> "pwd"]
  /\ result = [w \in Workers |-> NULL]
  /\ overlapped = [w \in Workers |-> FALSE] /\ ops = 0

QueueInit ==
  /\ Nothing /\ call = [w \in Workers |-> NULL]
  /\ \E one \in Workers : pc = [w \in Workers |-> IF w = one THEN "queue" ELSE "done"]

Enqueue(w) ==
  /\ pc[w] = "queue" /\ Len(items[w]) < MaxItems /\ ops < MaxOps
  /\ \E item \in Items :
       /\ q' = [q EXCEPT ![w] = enqueue(@, item)]
       /\ items' = [items EXCEPT ![w] = Append(@, item)]
  /\ ops' = ops + 1
  /\ UNCHANGED <<strtok, live, stack, pc, splits, call, result, overlapped>>

Dequeue(w) ==
  /\ pc[w] = "queue" /\ q[w].size > 0 /\ ops < MaxOps
  /\ q' = [q EXCEPT ![w] = dequeue(@)] /\ items' = [items EXCEPT ![w] = Tail(@)]
  /\ ops' = ops + 1
  /\ UNCHANGED <<strtok, live, stack, pc, splits, call, result, overlapped>>

QueueNext == \E w \in Workers : Enqueue(w) \/ Dequeue(w)

-------------------------------------------------------------------------------
(* pushPath and enqueuePath *)

ResolveInit ==
  /\ Nothing /\ call \in Calls
  /\ pc = [w \in Workers |-> IF call[w] = NULL THEN "done" ELSE "split"]

At(w, label) == pc[w] = label
Goto(w, label) == pc' = [pc EXCEPT ![w] = label]
Splitting(w) == pc[w] \in {"in", "next"}
Copy(w) == <<w, splits[w]>>
others(w) == { v \in Workers \ {w} : Splitting(v) }

\* What strtok finds between the slashes of a copy.
Names(c) == pushPath(IF c[2] = "pwd" THEN call[c[1]].pwd ELSE call[c[1]].arg.names)

\* An absolute argument is not combined with the working directory.
Absolute(w) ==
  /\ At(w, "split") /\ call[w].arg.absolute
  /\ result' = [result EXCEPT ![w] = call[w].arg.names]
  /\ Goto(w, "done")
  /\ UNCHANGED <<strtok, live, q, stack, items, splits, call, overlapped, ops>>

\* Mutant of First: the argument is split by strtok(NULL, ...).
FirstGoesOn(c) == IF c[2] = "arg" THEN save ELSE [copy |-> c, pos |-> 0]

\* strtok(pathCopy, "/") begins at the copy.
First(c) == [copy |-> c, pos |-> 0]

\* strdup and the first call, for the working directory and then for the argument.
Begin(w) ==
  /\ At(w, "split") /\ ~call[w].arg.absolute
  /\ live' = live \cup {Copy(w)}
  /\ cur' = [cur EXCEPT ![w] = First(Copy(w))]
  /\ overlapped' = [v \in Workers |-> \/ overlapped[v] \/ v \in others(w)
                                      \/ v = w /\ others(w) # {}]
  /\ Goto(w, "in")
  /\ UNCHANGED <<save, cut, q, stack, items, splits, call, result, ops>>

\* strtok(NULL, "/") begins where the last call, whosever it was, has ended.
NextCall(w) ==
  /\ At(w, "next")
  /\ cur' = [cur EXCEPT ![w] = save]
  /\ Goto(w, "in")
  /\ UNCHANGED <<save, cut, live, q, stack, items, splits, call, result, overlapped, ops>>

\* The place behind the i-th name of copy c: at a NUL that is there already, the end.
Token(c, i) == [copy |-> c, pos |-> IF i \in cut[c] THEN Len(Names(c)) + 1 ELSE i]

\* push_stack, or enqueue.
Store(w, name) ==
  \/ /\ splits[w] = "pwd"
     /\ stack' = [stack EXCEPT ![w] = Append(@, name)]
     /\ UNCHANGED <<q, items>>
  \/ /\ splits[w] = "arg"
     /\ q' = [q EXCEPT ![w] = enqueue(@, name)]
     /\ items' = [items EXCEPT ![w] = Append(@, name)]
     /\ UNCHANGED stack

\* The call returns a name and writes a NUL behind it.
Return(w) ==
  /\ At(w, "in") /\ cur[w].copy \in live
  /\ LET c == cur[w].copy
         i == cur[w].pos + 1
     IN /\ i <= Len(Names(c))
        /\ save' = Token(c, i)
        /\ cut' = [cut EXCEPT ![c] = @ \cup (IF i < Len(Names(c)) THEN {i} ELSE {})]
        /\ Store(w, Names(c)[i])
  /\ Goto(w, "next")
  /\ UNCHANGED <<live, cur, splits, call, result, overlapped, ops>>

\* Mutant of AtNoToken: the loop does not test the token.
AtNoTokenAgain == "next"

\* The loop ends at the first call that returns NULL.
AtNoToken == "free"

\* The call finds no more names: NULL.
ReturnNull(w) ==
  /\ At(w, "in") /\ cur[w].copy \in live
  /\ cur[w].pos >= Len(Names(cur[w].copy))
  /\ save' = cur[w]
  /\ Goto(w, AtNoToken)
  /\ UNCHANGED <<cut, live, cur, q, stack, items, splits, call, result, overlapped, ops>>

\* The place is in a copy that has been freed: anything may come of it.
ReturnFreed(w) ==
  /\ At(w, "in") /\ cur[w].copy \notin live
  /\ Goto(w, "undefined")
  /\ UNCHANGED <<strtok, live, q, stack, items, splits, call, result, overlapped, ops>>

\* Mutant of FreeCopy: the copy is freed inside the loop.
FreeCopyInLoop(w) ==
  /\ At(w, "free") \/ At(w, "next")
  /\ live' = live \ {Copy(w)}
  /\ splits' = [splits EXCEPT ![w] = IF At(w, "free") THEN "arg" ELSE @]
  /\ Goto(w, IF At(w, "next") THEN "next" ELSE IF splits[w] = "pwd" THEN "split" ELSE "climb")
  /\ UNCHANGED <<strtok, q, stack, items, call, result, overlapped, ops>>

\* free(pathCopy).
FreeCopy(w) ==
  /\ At(w, "free")
  /\ live' = live \ {Copy(w)}
  /\ splits' = [splits EXCEPT ![w] = "arg"]
  /\ Goto(w, IF splits[w] = "pwd" THEN "split" ELSE "climb")
  /\ UNCHANGED <<strtok, q, stack, items, call, result, overlapped, ops>>

-------------------------------------------------------------------------------
(* path_handler *)

\* Mutant of Climb: one ".." is all that is looked at.
ClimbOnce(w) ==
  /\ At(w, "climb") /\ peek_que(q[w]) = ".." /\ stack[w] # <<>>
  /\ q' = [q EXCEPT ![w] = dequeue(@)] /\ items' = [items EXCEPT ![w] = Tail(@)]
  /\ stack' = [stack EXCEPT ![w] = Front(@)]
  /\ Goto(w, "join")
  /\ UNCHANGED <<strtok, live, splits, call, result, overlapped, ops>>

\* A ".." at the front takes a name off the stack.
Climb(w) ==
  /\ At(w, "climb") /\ peek_que(q[w]) = ".." /\ stack[w] # <<>>
  /\ q' = [q EXCEPT ![w] = dequeue(@)] /\ items' = [items EXCEPT ![w] = Tail(@)]
  /\ stack' = [stack EXCEPT ![w] = Front(@)]
  /\ UNCHANGED <<strtok, live, pc, splits, call, result, overlapped, ops>>

\* The stack is empty: NULL.
ClimbTooFar(w) ==
  /\ At(w, "climb") /\ peek_que(q[w]) = ".." /\ stack[w] = <<>>
  /\ q' = [q EXCEPT ![w] = dequeue(@)] /\ items' = [items EXCEPT ![w] = Tail(@)]
  /\ Goto(w, "done")
  /\ UNCHANGED <<strtok, live, stack, splits, call, result, overlapped, ops>>

ClimbEnd(w) ==
  /\ At(w, "climb") /\ peek_que(q[w]) # ".."
  /\ Goto(w, "join")
  /\ UNCHANGED <<strtok, live, q, stack, items, splits, call, result, overlapped, ops>>

\* sprintf "%s/%s": the stack's path and the queue's.
JoinPaths(w) ==
  /\ At(w, "join")
  /\ result' = [result EXCEPT ![w] =
                  stack[w] \o (IF q[w].size = 0 THEN <<"">> ELSE pathFromQueue(q[w]))]
  /\ Goto(w, "done")
  /\ UNCHANGED <<strtok, live, q, stack, items, splits, call, overlapped, ops>>

ResolveStep(w) ==
  \/ Absolute(w) \/ Begin(w) \/ NextCall(w) \/ Return(w) \/ ReturnNull(w)
  \/ ReturnFreed(w) \/ FreeCopy(w)
  \/ Climb(w) \/ ClimbTooFar(w) \/ ClimbEnd(w) \/ JoinPaths(w)

ResolveNext == \E w \in Workers : ResolveStep(w)

Done == (\A w \in Workers : pc[w] \in {"done", "undefined", "queue"}) /\ UNCHANGED resolverVars

-------------------------------------------------------------------------------
ResolverInit == QueueInit \/ ResolveInit
ResolverNext == QueueNext \/ ResolveNext \/ Done

\* Workers run on; nobody has to use a queue.
ResolverSpec ==
  /\ ResolverInit /\ [][ResolverNext]_resolverVars
  /\ \A w \in Workers : WF_resolverVars(ResolveStep(w))

-------------------------------------------------------------------------------
(* Correctness *)

ResolverTypeOK ==
  /\ save \in [copy : CopyIds, pos : Nat] \cup {NULL} /\ live \subseteq CopyIds
  /\ \A w \in Workers :
       /\ pc[w] \in {"queue", "split", "in", "next", "free", "climb", "join", "done",
                     "undefined"}
       /\ splits[w] \in {"pwd", "arg"}
       /\ pc[w] \in {"in", "next", "free"} => Copy(w) \in live

\* The ring holds what was put in and not taken out, in order, through every
\* wrap-around and every growth, also when strtok mixes the names of two workers.
RingIsFifo == \A w \in Workers : pathFromQueue(q[w]) = items[w]

\* The ring's own bookkeeping: rear is size - 1 places after front.
RingShape ==
  \A w \in Workers : LET que == q[w] IN
    /\ que.size \in 0..que.capacity
    /\ que.front \in 0..(que.capacity - 1)
    /\ DOMAIN que.data = 0..(que.capacity - 1)
    /\ que.size > 0 => que.rear = (que.front + que.size - 1) % que.capacity

\* Together: what the queue's operations keep, whoever's names come in.
RingInv == RingShape /\ RingIsFifo

\* A worker whose splitting meets no other's computes what Paths says, although
\* others have moved strtok's place before and have left it in a copy that is freed.
ResolvesPath ==
  \A w \in Workers : At(w, "done") /\ call[w] # NULL /\ ~overlapped[w] =>
    result[w] = get_whole_path(call[w].arg, call[w].pwd, NULL)

\* ... and it reads no freed memory.
ReadsLiveAlone == \A w \in Workers : At(w, "undefined") => overlapped[w]

\* Together: a split that meets no other is safe and right, whatever came before it.
ResolvesAlone == ResolverTypeOK /\ ResolvesPath /\ ReadsLiveAlone

\* However the workers move the place for each other, every split ends.
SplitEnds == \A w \in Workers : Splitting(w) ~> ~Splitting(w)

\* path_handler.c:49 "split the path into directories and push them": the names are
\* those of the worker's own path, also while another worker splits.
SplitsOwn ==
  \A w \in Workers : At(w, "done") /\ call[w] # NULL =>
    result[w] = get_whole_path(call[w].arg, call[w].pwd, NULL)
===============================================================================
