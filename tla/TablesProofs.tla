----------------------------- MODULE TablesProofs -----------------------------
(***************************************************************************)
(* Proofs about the two tables: the rows of virtualFile (DirTree) and the  *)
(* hash table of the configuration (ConfigTable), which have nothing in    *)
(* common but this module.                                                 *)
(*                                                                         *)
(* DirTree: for any number of sessions, any arguments and any names.       *)
(* TreeInv is inductive; while the sessions' commands come one after       *)
(* another, CoverInv is, too: whatever row has lost its parent is still    *)
(* ahead of the rmdir that took it away, or was in one of the directories  *)
(* that refused statements have left behind.                               *)
(*                                                                         *)
(* ConfigTable: for any size of the table, any keys and any hash function. *)
(* ConfigInv is inductive: a key that has a value is found by going on     *)
(* from its own slot through slots that are all in use.                    *)
(***************************************************************************)
EXTENDS DirTree, ConfigTable, SequenceTheorems, FiniteSetTheorems, WellFoundedInduction, TLAPS

USE DirTreeAssumption

-------------------------------------------------------------------------------
(* Sequences of anything *)

IsSeq(q) == q \in Seq({ q[i] : i \in DOMAIN q })

LEMMA SeqIsSeq ==
  ASSUME NEW S, NEW q \in Seq(S)
  PROVE  IsSeq(q)
<1>. DEFINE T == { q[i] : i \in DOMAIN q }
<1>1. Len(q) \in Nat /\ DOMAIN q = 1..Len(q)
  BY LenProperties
<1>2. \A i \in 1..Len(q) : q[i] \in T
  BY <1>1
<1>. HIDE DEF T
<1>3. SubSeq(q, 1, Len(q)) \in Seq(T)
  BY <1>1, <1>2, SubSeqProperties
<1>4. q \in Seq(T)
  BY <1>3, SubSeqFull
<1>. QED BY <1>4 DEF IsSeq, T

\* What Append, Front and Last make of a sequence.
LEMMA StackOps ==
  ASSUME NEW q, IsSeq(q), NEW x
  PROVE  /\ IsSeq(<<>>) /\ DOMAIN q = 1..Len(q) /\ Len(q) \in Nat
         /\ IsSeq(Append(q, x)) /\ Append(q, x) # <<>>
         /\ Len(Append(q, x)) = Len(q) + 1 /\ Append(q, x)[Len(q) + 1] = x
         /\ \A i \in 1..Len(q) : Append(q, x)[i] = q[i]
         /\ q # <<>> =>
              /\ IsSeq(Front(q)) /\ Len(Front(q)) = Len(q) - 1
              /\ \A i \in 1..(Len(q) - 1) : Front(q)[i] = q[i]
              /\ Last(q) = q[Len(q)] /\ Len(q) \in 1..Len(q)
<1>. DEFINE S == { q[i] : i \in DOMAIN q }
            T == S \cup {x}
<1>1. q \in Seq(S) /\ q \in Seq(T)
  BY SeqMonotonic DEF IsSeq
<1>. HIDE DEF S, T
<1>2. x \in T
  BY DEF T
<1>3. Append(q, x) \in Seq(T) /\ Len(Append(q, x)) = Len(q) + 1
      /\ \A i \in 1..Len(q) : Append(q, x)[i] = q[i]
      /\ Append(q, x)[Len(q) + 1] = x /\ Append(q, x) # <<>>
  BY <1>1, <1>2, AppendProperties
<1>4. IsSeq(<<>>)
  BY EmptySeq, SeqIsSeq
<1>6. DOMAIN q = 1..Len(q) /\ Len(q) \in Nat
  BY <1>1, LenProperties
<1>5. ASSUME q # <<>>
      PROVE  /\ Front(q) \in Seq(S) /\ Len(Front(q)) = Len(q) - 1 /\ Len(q) \in 1..Len(q)
             /\ \A i \in 1..(Len(q) - 1) : Front(q)[i] = q[i]
             /\ Last(q) = q[Len(q)]
  <2>1. Len(q) \in 1..Len(q)
    BY <1>1, <1>5, <1>6
  <2>2. \A i \in 1..(Len(q) - 1) : q[i] \in S
    BY <1>1, <1>6, ElementOfSeq
  <2>3. /\ SubSeq(q, 1, Len(q) - 1) \in Seq(S) /\ Len(SubSeq(q, 1, Len(q) - 1)) = Len(q) - 1
        /\ \A i \in 1..(Len(q) - 1) : SubSeq(q, 1, Len(q) - 1)[i] = q[i]
    BY <1>6, <2>1, <2>2, SubSeqProperties
  <2>. QED BY <2>1, <2>3 DEF Front, Last
<1>7. IsSeq(Append(q, x)) /\ (q # <<>> => IsSeq(Front(q)))
  BY <1>3, <1>5, SeqIsSeq
<1>8. q # <<>> => /\ IsSeq(Front(q)) /\ Len(Front(q)) = Len(q) - 1
                  /\ \A i \in 1..(Len(q) - 1) : Front(q)[i] = q[i]
                  /\ Last(q) = q[Len(q)] /\ Len(q) \in 1..Len(q)
  BY <1>5, <1>7
<1>9. Len(Append(q, x)) = Len(q) + 1 /\ Append(q, x)[Len(q) + 1] = x /\ Append(q, x) # <<>>
      /\ \A i \in 1..Len(q) : Append(q, x)[i] = q[i]
  BY <1>3
<1>. QED BY ONLY <1>4, <1>6, <1>7, <1>8, <1>9, Zenon

-------------------------------------------------------------------------------
(* Every interleaving: whose the rows are *)

\* The root is never deleted, the home is in it, everything else is the user's, and
\* neither an id nor a path comes twice.
Root == Row(1, 0, Admin, "Directory", <<"file">>)
RowsOK ==
  /\ Root \in virtualFile /\ nextId > 2
  /\ \A r \in virtualFile : /\ r.fileId = 1 \/ r.userId = User
                            /\ r.fileId = 2 => r.parentId = 1
  /\ \A r, q \in virtualFile : r.fileId = q.fileId \/ r.path = q.path => r = q

OwnDirectory(id) == \A d \in ById(id) : d.type = "Directory" /\ d.userId = User

Removing == {"rdFind", "rdDelete", "rdList", "rdLoop", "rmFind", "rmDelete"}

\* The locals of a command: the directory that cd, mkdir and puts have read is the
\* user's, and stays it.
IsTask(t) == t = [at |-> t.at, names |-> t.names, path |-> t.path, id |-> t.id,
                  owner |-> t.owner, stack |-> t.stack]
TaskOK(s) ==
  /\ IsTask(task[s]) /\ IsSeq(task[s].stack)
  /\ task[s].at \in Labels /\ task[s].id \in 0..(nextId - 1)
  /\ \A i \in DOMAIN task[s].stack : \A r \in task[s].stack[i] : RowOK(r)
  /\ task[s].at = "cdUpdate" => task[s].id # 0
  /\ task[s].at \in {"cdUpdate", "mkPath", "mkInsert", "putInsert"} => OwnDirectory(task[s].id)
  /\ task[s].at = "putInsert" => task[s].owner = User
  /\ task[s].at \notin Removing => task[s].stack = <<>>
  /\ task[s].at = "rdLoop" => task[s].stack # <<>>
TasksOK == task = [s \in Sessions |-> task[s]] /\ \A s \in Sessions : TaskOK(s)

TreeInv == TypeOK /\ OwnCwd /\ SameOwner /\ RowsOK /\ TasksOK

LEMMA InitTree == Init => TreeInv
<1> SUFFICES ASSUME Init PROVE TreeInv
  OBVIOUS
<1>. USE DEF Init, Row, RowOK, ById
<1>1. crashed \in BOOLEAN /\ overlapped \in BOOLEAN
  BY Zenon
<1>2. RowsOK
  BY DEF RowsOK, Root, Home
<1>3. TasksOK
  <2>1. IsSeq(<<>>)
    BY EmptySeq, SeqIsSeq
  <2>. QED BY <2>1 DEF TasksOK, TaskOK, IsTask, Idle, Labels
<1>4. TypeOK
  BY <1>1 DEF TypeOK, Idle, Labels
<1>5. OwnCwd /\ SameOwner
  BY DEF OwnCwd, SameOwner
<1>. QED BY <1>2, <1>3, <1>4, <1>5 DEF TreeInv

LEMMA IdleTask ==
  /\ IsTask(Idle) /\ IsSeq(Idle.stack) /\ Idle.stack = <<>> /\ DOMAIN Idle.stack = {}
  /\ Idle.at = "idle" /\ Idle.id = 0
<1>1. IsSeq(<<>>)
  BY EmptySeq, SeqIsSeq
<1>2. Idle.stack = <<>> /\ Idle.at = "idle" /\ Idle.id = 0
  BY DEF Idle
<1>3. IsTask(Idle)
  BY DEF IsTask, Idle
<1>. QED BY <1>1, <1>2, <1>3

\* What an assignment to some of the locals makes of them.
Locals(at, names, path, id, owner, stack) ==
  [at |-> at, names |-> names, path |-> path, id |-> id, owner |-> owner, stack |-> stack]

LEMMA EditOne ==
  ASSUME NEW t, IsTask(t), NEW x
  PROVE  /\ [t EXCEPT !.at = x] = Locals(x, t.names, t.path, t.id, t.owner, t.stack)
         /\ [t EXCEPT !.stack = x] = Locals(t.at, t.names, t.path, t.id, t.owner, x)
BY DEF IsTask, Locals

LEMMA EditPath ==
  ASSUME NEW t, IsTask(t), NEW at, NEW path
  PROVE  [t EXCEPT !.at = at, !.path = path]
            = Locals(at, t.names, path, t.id, t.owner, t.stack)
<1>. DEFINE u == Locals(at, t.names, t.path, t.id, t.owner, t.stack)
<1>1. [t EXCEPT !.at = at] = u
  BY EditOne
<1>2. [u EXCEPT !.path = path] = Locals(at, t.names, path, t.id, t.owner, t.stack)
  BY DEF Locals
<1>. HIDE DEF u
<1>. QED BY <1>1, <1>2, Zenon

LEMMA EditId ==
  ASSUME NEW t, IsTask(t), NEW at, NEW id
  PROVE  [t EXCEPT !.at = at, !.id = id]
            = Locals(at, t.names, t.path, id, t.owner, t.stack)
<1>. DEFINE u == Locals(at, t.names, t.path, t.id, t.owner, t.stack)
<1>1. [t EXCEPT !.at = at] = u
  BY EditOne
<1>2. [u EXCEPT !.id = id] = Locals(at, t.names, t.path, id, t.owner, t.stack)
  BY DEF Locals
<1>. HIDE DEF u
<1>. QED BY <1>1, <1>2, Zenon

LEMMA EditStack ==
  ASSUME NEW t, IsTask(t), NEW at, NEW stack
  PROVE  [t EXCEPT !.at = at, !.stack = stack]
            = Locals(at, t.names, t.path, t.id, t.owner, stack)
<1>. DEFINE u == Locals(at, t.names, t.path, t.id, t.owner, t.stack)
<1>1. [t EXCEPT !.at = at] = u
  BY EditOne
<1>2. [u EXCEPT !.stack = stack] = Locals(at, t.names, t.path, t.id, t.owner, stack)
  BY DEF Locals
<1>. HIDE DEF u
<1>. QED BY <1>1, <1>2, Zenon

\* A step on the locals of one session.
LEMMA TaskStep ==
  ASSUME TreeInv, NEW s \in Sessions, NEW t, IsTask(t),
         task' = [task EXCEPT ![s] = t], TaskOK(s)', OwnCwd', cwd' \in 1..(nextId - 1),
         crashed' \in BOOLEAN, overlapped' \in BOOLEAN, issued' \in Nat, crashes' \in Nat, refused' \in Nat,
         UNCHANGED <<virtualFile, nextId>>
  PROVE  TreeInv'
<1>1. TasksOK'
  <2>1. task' = [u \in Sessions |-> task'[u]] /\ \A u \in Sessions : u # s => task'[u] = task[u]
    BY DEF TreeInv, TasksOK
  <2>2. ASSUME NEW u \in Sessions, u # s PROVE TaskOK(u)'
    BY <2>1, <2>2 DEF TreeInv, TasksOK, TaskOK, RowOK, OwnDirectory, ById
  <2>. QED BY <2>1, <2>2 DEF TasksOK
<1>2. TypeOK'
  BY <1>1 DEF TreeInv, TypeOK, TasksOK, TaskOK, RowOK
<1>3. SameOwner' /\ RowsOK'
  BY DEF TreeInv, SameOwner, RowsOK
<1>. QED BY <1>1, <1>2, <1>3 DEF TreeInv

\* A row more, in a directory of the user.
LEMMA InsertStep ==
  ASSUME TreeInv, NEW s \in Sessions, NEW type \in {"Directory", "File"},
         Insert(task[s].id, User, type, task[s].path), OwnDirectory(task[s].id),
         task' = [task EXCEPT ![s] = Idle], overlapped' \in BOOLEAN,
         UNCHANGED <<cwd, crashed, refused, issued, crashes>>
  PROVE  TreeInv'
<1>. USE DEF TreeInv
<1>0. PICK new : new = Row(nextId, task[s].id, User, type, task[s].path)
  OBVIOUS
<1>1. nextId \in Nat /\ task[s].id \in 0..(nextId - 1) /\ cwd \in 1..(nextId - 1)
  BY DEF TypeOK
<1>2. IsTask(Idle) /\ IsSeq(Idle.stack) /\ Idle.stack = <<>> /\ DOMAIN Idle.stack = {}
      /\ Idle.at = "idle" /\ Idle.id = 0
  BY IdleTask
<1>3. task' = [u \in Sessions |-> IF u = s THEN Idle ELSE task[u]]
  BY DEF TasksOK
<1>4. CASE UNCHANGED <<virtualFile, nextId>>
  <2>1. TaskOK(s)'
    BY <1>1, <1>2, <1>3, <1>4 DEF TaskOK, Labels, Removing
  <2>2. OwnCwd'
    BY <1>4 DEF OwnCwd, ById
  <2>. QED BY <1>1, <1>2, <1>4, <2>1, <2>2, TaskStep DEF TypeOK
<1>5. CASE /\ virtualFile' = virtualFile \cup {new} /\ nextId' = nextId + 1
           /\ \A r \in virtualFile : r.path # task[s].path
  <2>1. /\ new.fileId = nextId /\ new.parentId = task[s].id /\ new.userId = User
        /\ new.type = type /\ new.path = task[s].path
    BY <1>0 DEF Row
  <2>2. \A r : RowOK(r) => RowOK(r)' /\ r.fileId # nextId /\ r.parentId # nextId
    BY <1>1, <1>5 DEF RowOK
  <2>3. RowOK(new)'
    BY <1>1, <1>5, <2>1 DEF RowOK
  <2>4. \A id \in 0..(nextId - 1) : ById(id)' = ById(id)
    BY <1>1, <1>5, <2>1 DEF ById
  <2>5. TasksOK'
    <3>1. ASSUME NEW u \in Sessions PROVE TaskOK(u)'
      <4>1. CASE u = s
        BY <1>1, <1>2, <1>3, <1>5, <4>1 DEF TaskOK, Labels, Removing
      <4>2. CASE u # s
        <5>1. TaskOK(u) /\ task'[u] = task[u] /\ task[u].id \in 0..(nextId' - 1)
          BY <1>1, <1>3, <1>5, <4>2 DEF TasksOK, TaskOK
        <5>2. OwnDirectory(task[u].id) => OwnDirectory(task[u].id)'
          BY <2>4, <5>1 DEF OwnDirectory, TaskOK
        <5>. QED BY <2>2, <5>1, <5>2 DEF TaskOK
      <4>. QED BY <4>1, <4>2
    <3>. QED BY <1>3, <3>1 DEF TasksOK
  <2>6. TypeOK'
    <3>1. \A r \in virtualFile' : RowOK(r)'
      BY <1>5, <2>2, <2>3 DEF TypeOK
    <3>2. nextId' \in Nat /\ cwd' \in 1..(nextId' - 1)
      BY <1>1, <1>5
    <3>. QED BY <2>5, <3>1, <3>2 DEF TypeOK, TasksOK, TaskOK
  <2>7. OwnCwd'
    <3>1. ById(cwd)' = ById(cwd)
      BY <1>1, <2>4 DEF ById
    <3>. QED BY <3>1 DEF OwnCwd
  <2>8. SameOwner'
    <3>1. \A d \in virtualFile : d.fileId = task[s].id => d.type = "Directory" /\ d.userId = User
      BY DEF OwnDirectory, ById
    <3>2. \A r \in virtualFile' : r.parentId # nextId
      BY <1>1, <1>5, <2>1, <2>2 DEF TypeOK
    <3>. QED BY <1>5, <2>1, <3>1, <3>2 DEF SameOwner
  <2>9. RowsOK'
    BY <1>5, <2>1, <2>2 DEF RowsOK, TypeOK
  <2>. QED BY <2>5, <2>6, <2>7, <2>8, <2>9
<1>. QED BY <1>0, <1>4, <1>5 DEF Insert

\* Rows of the user are deleted.
LEMMA DeleteStep ==
  ASSUME TreeInv, NEW s \in Sessions, NEW t, IsTask(t), NEW type,
         virtualFile' = virtualFile \ ByPath(type, task[s].path),
         task' = [task EXCEPT ![s] = t], TaskOK(s)', overlapped' \in BOOLEAN,
         UNCHANGED <<nextId, cwd, crashed, refused, issued, crashes>>
  PROVE  TreeInv'
<1>. USE DEF TreeInv
<1>1. Root \in virtualFile'
  BY DEF RowsOK, Root, Row, ByPath
<1>2. virtualFile' \subseteq virtualFile
  OBVIOUS
<1>3. \A id : ById(id)' \subseteq ById(id)
  BY <1>2 DEF ById
<1>4. TasksOK'
  <2>1. task' = [u \in Sessions |-> task'[u]] /\ \A u \in Sessions : u # s => task'[u] = task[u]
    BY DEF TasksOK
  <2>2. ASSUME NEW u \in Sessions, u # s PROVE TaskOK(u)'
    BY <1>3, <2>1, <2>2 DEF TasksOK, TaskOK, RowOK, OwnDirectory
  <2>. QED BY <2>1, <2>2 DEF TasksOK
<1>5. TypeOK'
  BY <1>2, <1>4 DEF TypeOK, TasksOK, TaskOK, RowOK
<1>6. OwnCwd' /\ SameOwner' /\ RowsOK'
  BY <1>1, <1>2, <1>3 DEF OwnCwd, ById, SameOwner, RowsOK
<1>. QED BY <1>4, <1>5, <1>6

-------------------------------------------------------------------------------
(* The steps of a session *)

\* A step that changes no more than the counters.
LEMMA CountStep ==
  ASSUME TreeInv, UNCHANGED <<virtualFile, nextId, cwd, task>>, crashed' \in BOOLEAN,
         overlapped' \in BOOLEAN, issued' \in Nat, crashes' \in Nat, refused' \in Nat
  PROVE  TreeInv'
<1>1. TasksOK'
  BY DEF TreeInv, TasksOK, TaskOK, RowOK, OwnDirectory, ById
<1>2. TypeOK'
  BY DEF TreeInv, TypeOK, RowOK
<1>3. OwnCwd' /\ SameOwner' /\ RowsOK'
  BY DEF TreeInv, OwnCwd, SameOwner, RowsOK, ById
<1>. QED BY <1>1, <1>2, <1>3 DEF TreeInv

\* What a SELECT finds is one row of the table.
LEMMA RowFound ==
  ASSUME TreeInv, NEW Rows, Rows \subseteq virtualFile, Rows # {}
  PROVE  /\ TheRow(Rows) \in Rows /\ RowOK(TheRow(Rows))
         /\ TheRow(Rows).fileId \in 1..(nextId - 1) /\ TheRow(Rows).fileId \in 0..(nextId - 1)
         /\ TheRow(Rows).fileId # 0
         /\ ById(TheRow(Rows).fileId) = {TheRow(Rows)}
<1>1. TheRow(Rows) \in Rows
  BY DEF TheRow
<1>2. RowOK(TheRow(Rows)) /\ nextId \in Nat
  BY <1>1 DEF TreeInv, TypeOK
<1>3. ById(TheRow(Rows).fileId) = {TheRow(Rows)}
  BY <1>1 DEF ById, TreeInv, RowsOK
<1>. HIDE DEF TheRow
<1>. QED BY <1>1, <1>2, <1>3 DEF RowOK

\* A session goes on, or is done, with nothing but its locals changed.
LEMMA GoesOn ==
  ASSUME TreeInv, NEW s \in Sessions, NEW t, IsTask(t), task' = [task EXCEPT ![s] = t],
         IsSeq(t.stack), t.at \in Labels, t.id \in 0..(nextId - 1),
         \A i \in DOMAIN t.stack : \A r \in t.stack[i] : RowOK(r),
         t.at = "cdUpdate" => t.id # 0,
         t.at \in {"cdUpdate", "mkPath", "mkInsert", "putInsert"} => OwnDirectory(t.id),
         t.at = "putInsert" => t.owner = User,
         t.at \notin Removing => t.stack = <<>>,
         t.at = "rdLoop" => t.stack # <<>>,
         crashed' \in BOOLEAN, overlapped' \in BOOLEAN, issued' \in Nat, crashes' \in Nat, refused' \in Nat,
         cwd' = cwd, UNCHANGED <<virtualFile, nextId>>
  PROVE  TreeInv'
<1>1. task'[s] = t
  BY DEF TreeInv, TasksOK
<1>2. TaskOK(s)'
  BY <1>1 DEF TaskOK, RowOK, OwnDirectory, ById
<1>3. OwnCwd' /\ cwd' \in 1..(nextId - 1)
  BY DEF TreeInv, OwnCwd, ById, TypeOK
<1>. QED BY <1>2, <1>3, TaskStep

LEMMA CdTree == ASSUME TreeInv, NEW s \in Sessions, Cd(s), overlapped' \in BOOLEAN PROVE TreeInv'
<1>. USE DEF TreeInv
<1>1. ASSUME NEW arg \in Args, CdPath(s, arg) PROVE TreeInv'
  <2>1. PICK path : \/ task' = task
                    \/ task' = [task EXCEPT ![s] = [Idle EXCEPT !.at = "cdFind", !.path = path]]
    BY <1>1 DEF CdPath
  <2>2. PICK t : t = [Idle EXCEPT !.at = "cdFind", !.path = path]
    OBVIOUS
  <2>3. IsTask(t) /\ t.at = "cdFind" /\ t.id = 0 /\ t.stack = <<>> /\ IsSeq(<<>>)
    BY <2>2, IdleTask DEF Idle, IsTask
  <2>4. /\ crashed' \in BOOLEAN /\ issued' \in Nat /\ crashes' \in Nat /\ refused' \in Nat
        /\ UNCHANGED <<virtualFile, nextId, cwd>>
    BY <1>1 DEF CdPath, Start, TypeOK
  <2>5. DOMAIN t.stack = {} /\ t.id \in 0..(nextId - 1)
    BY <2>3 DEF TypeOK
  <2>. QED BY <2>1, <2>2, <2>3, <2>4, <2>5, CountStep, GoesOn DEF Labels, Removing
<1>2. CASE CdFind(s)
  <2>. DEFINE Rows == ByPath("Directory", task[s].path)
              id == TheRow(Rows).fileId
  <2>1. /\ task[s].at = "cdFind" /\ UNCHANGED <<virtualFile, nextId, cwd, crashed, refused, issued, crashes>>
        /\ \/ task' = [task EXCEPT ![s] = Idle]
           \/ Rows # {} /\ task' = [task EXCEPT ![s] = [task[s] EXCEPT !.at = "cdUpdate", !.id = id]]
    BY <1>2 DEF CdFind, At, Finish, TasksOK
  <2>2. CASE task' = [task EXCEPT ![s] = Idle]
    <3>1. Idle.id \in 0..(nextId - 1) /\ crashed \in BOOLEAN /\ issued \in Nat /\ crashes \in Nat /\ refused \in Nat
      BY IdleTask DEF TypeOK
    <3>. QED BY <2>1, <2>2, <3>1, IdleTask, GoesOn DEF Labels, Removing
  <2>3. CASE Rows # {} /\ task' = [task EXCEPT ![s] = [task[s] EXCEPT !.at = "cdUpdate", !.id = id]]
    <3>1. Rows \subseteq virtualFile
      BY DEF ByPath
    <3>2. id \in 0..(nextId - 1) /\ id # 0 /\ ById(id) = {TheRow(Rows)} /\ TheRow(Rows) \in Rows
      BY <2>3, <3>1, RowFound
    <3>3. OwnDirectory(id)
      BY <3>2 DEF OwnDirectory, ByPath
    <3>4. PICK t : t = [task[s] EXCEPT !.at = "cdUpdate", !.id = id]
      OBVIOUS
    <3>7. IsTask(task[s]) /\ task[s].stack = <<>>
      BY <2>1 DEF TasksOK, TaskOK, Removing
    <3>5. IsTask(t) /\ t.at = "cdUpdate" /\ t.id = id /\ t.stack = <<>>
      <4>1. t = Locals("cdUpdate", task[s].names, task[s].path, id, task[s].owner, task[s].stack)
        BY <3>4, <3>7, EditId
      <4>. QED BY <3>7, <4>1 DEF Locals, IsTask
    <3>6. IsSeq(t.stack) /\ DOMAIN t.stack = {}
      BY <3>5, IdleTask
    <3>. HIDE DEF id
    <3>. QED BY <2>1, <2>3, <3>2, <3>3, <3>4, <3>5, <3>6, GoesOn DEF Labels, Removing, TypeOK
  <2>. QED BY <2>1, <2>2, <2>3
<1>3. CASE CdUpdate(s)
  <2>1. /\ task[s].at = "cdUpdate" /\ cwd' = task[s].id /\ task' = [task EXCEPT ![s] = Idle]
        /\ UNCHANGED <<virtualFile, nextId, crashed, refused, issued, crashes>>
    BY <1>3 DEF CdUpdate, At, Finish
  <2>2. OwnCwd' /\ cwd' \in 1..(nextId - 1)
    <3>1. OwnDirectory(task[s].id) /\ task[s].id \in 0..(nextId - 1) /\ task[s].id # 0
      BY <2>1 DEF TasksOK, TaskOK
    <3>. QED BY <2>1, <3>1 DEF OwnCwd, OwnDirectory, ById, TypeOK
  <2>3. task'[s] = Idle
    BY <2>1 DEF TasksOK
  <2>4. TaskOK(s)'
    BY <2>1, <2>3, IdleTask DEF TaskOK, Labels, Removing, TypeOK
  <2>. QED BY <2>1, <2>2, <2>4, IdleTask, TaskStep DEF TypeOK
<1>. QED BY <1>1, <1>2, <1>3 DEF Cd

LEMMA MkdirTree ==
  ASSUME TreeInv, NEW s \in Sessions, Mkdir(s), overlapped' \in BOOLEAN PROVE TreeInv'
<1>. USE DEF TreeInv
<1>1. ASSUME NEW arg \in Args, MkdirParent(s, arg) PROVE TreeInv'
  <2>1. PICK t : /\ t = [Idle EXCEPT !.at = "mkPath", !.names = Spelled(arg), !.id = cwd]
                 /\ task' = [task EXCEPT ![s] = t]
    BY <1>1 DEF MkdirParent
  <2>2. /\ IsTask(t) /\ t.at = "mkPath" /\ t.id = cwd /\ t.stack = <<>> /\ IsSeq(t.stack)
        /\ DOMAIN t.stack = {}
    BY <2>1, IdleTask DEF Idle, IsTask
  <2>3. OwnDirectory(cwd) /\ cwd \in 0..(nextId - 1)
    BY DEF OwnCwd, OwnDirectory, TypeOK
  <2>4. issued' \in Nat /\ UNCHANGED <<virtualFile, nextId, cwd, crashed, refused, crashes>>
    BY <1>1 DEF MkdirParent, Start, TypeOK
  <2>. QED BY <2>1, <2>2, <2>3, <2>4, GoesOn DEF Labels, Removing, TypeOK
<1>2. CASE MkdirPath(s)
  <2>1. PICK path : /\ task[s].at = "mkPath"
                    /\ UNCHANGED <<virtualFile, nextId, cwd, refused, issued, crashes>>
                    /\ \/ task' = task /\ crashed' = TRUE
                       \/ /\ task' = [task EXCEPT ![s] = [task[s] EXCEPT !.at = "mkInsert",
                                                                         !.path = path]]
                          /\ crashed' = crashed
    BY <1>2 DEF MkdirPath, At, TasksOK
  <2>2. PICK t : t = [task[s] EXCEPT !.at = "mkInsert", !.path = path]
    OBVIOUS
  <2>6. IsTask(task[s]) /\ task[s].stack = <<>>
    BY <2>1 DEF TasksOK, TaskOK, Removing
  <2>3. IsTask(t) /\ t.at = "mkInsert" /\ t.id = task[s].id /\ t.stack = <<>>
    <3>1. t = Locals("mkInsert", task[s].names, path, task[s].id, task[s].owner, task[s].stack)
      BY <2>2, <2>6, EditPath
    <3>. QED BY <2>6, <3>1 DEF Locals, IsTask
  <2>4. IsSeq(t.stack) /\ DOMAIN t.stack = {}
    BY <2>3, IdleTask
  <2>5. OwnDirectory(t.id) /\ t.id \in 0..(nextId - 1)
    BY <2>1, <2>3 DEF TasksOK, TaskOK
  <2>. QED BY <2>1, <2>2, <2>3, <2>4, <2>5, GoesOn, CountStep DEF Labels, Removing, TypeOK
<1>3. CASE MkdirInsert(s)
  <2>1. OwnDirectory(task[s].id)
    BY <1>3 DEF MkdirInsert, At, TasksOK, TaskOK
  <2>. QED BY <1>3, <2>1, InsertStep DEF MkdirInsert, Finish
<1>. QED BY <1>1, <1>2, <1>3 DEF Mkdir

LEMMA PutTree == ASSUME TreeInv, NEW s \in Sessions, Put(s), overlapped' \in BOOLEAN PROVE TreeInv'
<1>. USE DEF TreeInv
<1>1. ASSUME NEW n \in Names, PutSelect(s, n) PROVE TreeInv'
  <2>. DEFINE d == TheRow(ById(cwd))
  <2>1. issued' \in Nat /\ UNCHANGED <<virtualFile, nextId, cwd, crashed, refused, crashes>>
    BY <1>1 DEF PutSelect, Start, TypeOK
  <2>2. CASE ById(cwd) = {}
    BY <1>1, <2>1, <2>2, CountStep DEF PutSelect, TypeOK
  <2>3. CASE ById(cwd) # {}
    <3>1. PICK t : /\ t = [Idle EXCEPT !.at = "putInsert", !.id = d.fileId, !.owner = d.userId,
                                       !.path = Append(d.path, n)]
                   /\ task' = [task EXCEPT ![s] = t]
      BY <1>1, <2>3 DEF PutSelect
    <3>2. /\ IsTask(t) /\ t.at = "putInsert" /\ t.id = d.fileId /\ t.owner = d.userId
          /\ t.stack = <<>> /\ IsSeq(t.stack) /\ DOMAIN t.stack = {}
      BY <3>1, IdleTask DEF Idle, IsTask
    <3>3. ById(cwd) \subseteq virtualFile
      BY DEF ById
    <3>4. d \in ById(cwd) /\ d.fileId \in 0..(nextId - 1) /\ ById(d.fileId) = {d}
      BY <2>3, <3>3, RowFound
    <3>5. d.userId = User /\ OwnDirectory(d.fileId)
      BY <3>4 DEF OwnCwd, OwnDirectory
    <3>. HIDE DEF d
    <3>. QED BY <2>1, <3>1, <3>2, <3>4, <3>5, GoesOn DEF Labels, Removing, TypeOK
  <2>. QED BY <2>2, <2>3
<1>2. CASE PutInsert(s)
  <2>1. OwnDirectory(task[s].id) /\ task[s].owner = User
    BY <1>2 DEF PutInsert, At, TasksOK, TaskOK
  <2>. QED BY <1>2, <2>1, InsertStep DEF PutInsert, Finish
<1>. QED BY <1>1, <1>2 DEF Put

\* What the subroutines of rmdir return to, and what they do to the locals.
LEMMA ReturnOK ==
  ASSUME TreeInv, NEW s \in Sessions, Return(s)
  PROVE  \E t : /\ task' = [task EXCEPT ![s] = t] /\ IsTask(t) /\ IsSeq(t.stack)
                /\ t.id \in 0..(nextId - 1) /\ t.stack = task[s].stack
                /\ t.at = IF t.stack = <<>> THEN "idle" ELSE "rdLoop"
<1>1. IsTask(task[s]) /\ IsSeq(task[s].stack) /\ task[s].id \in 0..(nextId - 1) /\ nextId \in Nat
      /\ cwd \in 1..(nextId - 1) /\ task = [u \in Sessions |-> task[u]]
  BY DEF TreeInv, TypeOK, TasksOK, TaskOK
<1>2. CASE task[s].stack = <<>>
  <2>1. Idle.id \in 0..(nextId - 1)
    BY <1>1, IdleTask
  <2>. QED BY <1>2, <2>1, IdleTask DEF Return, Finish
<1>3. CASE task[s].stack # <<>>
  <2>1. PICK t : t = [task[s] EXCEPT !.at = "rdLoop"]
    OBVIOUS
  <2>2. task' = [task EXCEPT ![s] = t]
    BY <1>1, <1>3, <2>1 DEF Return, Goto
  <2>3. t = Locals("rdLoop", task[s].names, task[s].path, task[s].id, task[s].owner, task[s].stack)
    BY <1>1, <2>1, EditOne, Zenon
  <2>4. IsTask(t) /\ t.at = "rdLoop" /\ t.id = task[s].id /\ t.stack = task[s].stack
    BY <2>3 DEF Locals, IsTask
  <2>. QED BY <1>1, <1>3, <2>2, <2>4
<1>. QED BY <1>2, <1>3

\* The rows the stack still holds.
StackRows(t) == \A i \in DOMAIN t.stack : \A r \in t.stack[i] : RowOK(r)

LEMMA ThreeEdits ==
  ASSUME NEW f, NEW s \in DOMAIN f, NEW k, NEW p, NEW l
  PROVE  [f EXCEPT ![s].stack = k, ![s].path = p, ![s].at = l]
           = [f EXCEPT ![s] = [f[s] EXCEPT !.stack = k, !.path = p, !.at = l]]
<1>1. PICK g : g = [f EXCEPT ![s].stack = k]
  OBVIOUS
<1>2. g[s] = [f[s] EXCEPT !.stack = k] /\ DOMAIN g = DOMAIN f
  BY <1>1
<1>3. PICK h : h = [g EXCEPT ![s].path = p]
  OBVIOUS
<1>4. h[s] = [f[s] EXCEPT !.stack = k, !.path = p] /\ DOMAIN h = DOMAIN f
  BY <1>2, <1>3
<1>5. [h EXCEPT ![s].at = l][s] = [f[s] EXCEPT !.stack = k, !.path = p, !.at = l]
  BY <1>4
<1>6. [h EXCEPT ![s].at = l] = [f EXCEPT ![s] = [f[s] EXCEPT !.stack = k, !.path = p, !.at = l]]
  BY <1>1, <1>3, <1>4, <1>5
<1>. QED BY <1>1, <1>3, <1>6, Zenon

LEMMA RmdirTree ==
  ASSUME TreeInv, NEW s \in Sessions, Rmdir(s), overlapped' \in BOOLEAN PROVE TreeInv'
<1>. USE DEF TreeInv
<1>0. IsTask(task[s]) /\ IsSeq(task[s].stack) /\ task[s].id \in 0..(nextId - 1)
      /\ StackRows(task[s]) /\ task = [u \in Sessions |-> task[u]]
      /\ crashed \in BOOLEAN /\ issued \in Nat /\ crashes \in Nat /\ refused \in Nat
  BY DEF TypeOK, TasksOK, TaskOK, StackRows
<1>1. ASSUME NEW arg \in Args, RmdirPath(s, arg) PROVE TreeInv'
  <2>1. PICK path : \/ task' = task
                    \/ task' = [task EXCEPT ![s] = [Idle EXCEPT !.at = "rdFind", !.path = path]]
    BY <1>1 DEF RmdirPath
  <2>2. PICK t : t = [Idle EXCEPT !.at = "rdFind", !.path = path]
    OBVIOUS
  <2>3. IsTask(t) /\ t.at = "rdFind" /\ t.id = 0 /\ t.stack = <<>> /\ IsSeq(<<>>)
    BY <2>2, IdleTask DEF Idle, IsTask
  <2>4. /\ crashed' \in BOOLEAN /\ issued' \in Nat /\ crashes' \in Nat /\ refused' \in Nat
        /\ UNCHANGED <<virtualFile, nextId, cwd>>
    BY <1>1 DEF RmdirPath, Start, TypeOK
  <2>5. DOMAIN t.stack = {} /\ t.id \in 0..(nextId - 1)
    BY <2>3 DEF TypeOK
  <2>. QED BY <2>1, <2>2, <2>3, <2>4, <2>5, CountStep, GoesOn DEF Labels, Removing
\* Only the statement and the stack change.
<1>a. ASSUME NEW t, task' = [task EXCEPT ![s] = t], IsTask(t), IsSeq(t.stack),
             t.id \in 0..(nextId - 1), StackRows(t), t.at \in Removing \cup {"idle"},
             t.at = "rdLoop" => t.stack # <<>>, t.at = "idle" => t.stack = <<>>,
             UNCHANGED <<virtualFile, nextId, cwd, crashed, refused, issued, crashes>>
      PROVE  TreeInv'
  BY <1>a, <1>0, GoesOn DEF Labels, Removing, StackRows
\* ... or the user's rows of a path are deleted as well.
<1>b. ASSUME NEW type, NEW t, task' = [task EXCEPT ![s] = t], IsTask(t), IsSeq(t.stack),
             t.id \in 0..(nextId - 1), StackRows(t), t.at \in Removing \cup {"idle"},
             t.at = "rdLoop" => t.stack # <<>>, t.at = "idle" => t.stack = <<>>,
             virtualFile' = virtualFile \ ByPath(type, task[s].path),
             UNCHANGED <<nextId, cwd, crashed, refused, issued, crashes>>
      PROVE  TreeInv'
  <2>1. task'[s] = t
    BY <1>0, <1>b
  <2>2. TaskOK(s)'
    BY <1>b, <2>1 DEF TaskOK, Labels, Removing, StackRows, RowOK
  <2>. QED BY <1>b, <2>2, DeleteStep
<1>2. CASE RmdirFind(s)
  <2>. DEFINE Rows == ByPath("Directory", task[s].path)
              id == TheRow(Rows).fileId
  <2>1. /\ task[s].at = "rdFind" /\ UNCHANGED <<virtualFile, nextId, cwd, crashed, refused, issued, crashes>>
        /\ \/ Return(s)
           \/ Rows # {} /\ task' = [task EXCEPT ![s] = [task[s] EXCEPT !.at = "rdDelete", !.id = id]]
    BY <1>0, <1>2 DEF RmdirFind, At
  <2>2. CASE Return(s)
    <3>1. task[s].at \in Removing
      BY <2>1 DEF Removing
    <3>. QED BY <1>a, <1>0, <2>1, <2>2, <3>1, ReturnOK DEF StackRows, Removing
  <2>3. CASE Rows # {} /\ task' = [task EXCEPT ![s] = [task[s] EXCEPT !.at = "rdDelete", !.id = id]]
    <3>1. Rows \subseteq virtualFile
      BY DEF ByPath
    <3>2. id \in 0..(nextId - 1)
      BY <2>3, <3>1, RowFound
    <3>. HIDE DEF id
    <3>3. PICK t : t = [task[s] EXCEPT !.at = "rdDelete", !.id = id]
      OBVIOUS
    <3>4. t = Locals("rdDelete", task[s].names, task[s].path, id, task[s].owner, task[s].stack)
      BY <1>0, <3>3, EditId
    <3>5. IsTask(t) /\ t.at = "rdDelete" /\ t.id = id /\ t.stack = task[s].stack
      BY <3>4 DEF Locals, IsTask
    <3>. QED BY <1>a, <1>0, <2>1, <2>3, <3>2, <3>3, <3>5 DEF StackRows, Removing
  <2>. QED BY <2>1, <2>2, <2>3
<1>3. CASE RmdirDelete(s)
  <2>1. PICK t : t = [task[s] EXCEPT !.at = "rdList"]
    OBVIOUS
  <2>2. t = Locals("rdList", task[s].names, task[s].path, task[s].id, task[s].owner, task[s].stack)
    BY <1>0, <2>1, EditOne, Zenon
  <2>3. IsTask(t) /\ t.at = "rdList" /\ t.id = task[s].id /\ t.stack = task[s].stack
    BY <2>2 DEF Locals, IsTask
  <2>4. /\ task' = [task EXCEPT ![s] = t]
        /\ virtualFile' = virtualFile \ ByPath("Directory", task[s].path)
        /\ UNCHANGED <<nextId, cwd, crashed, refused, issued, crashes>>
    BY <1>0, <1>3, <2>1 DEF RmdirDelete, Goto
  <2>. QED BY <1>b, <1>0, <2>3, <2>4 DEF StackRows, Removing
<1>4. CASE RmdirList(s)
  <2>. DEFINE rows == Children(task[s].id)
              q == task[s].stack
  <2>0. PICK k : k = Append(q, rows)
    OBVIOUS
  <2>1. PICK t : t = [task[s] EXCEPT !.at = "rdLoop", !.stack = k]
    OBVIOUS
  <2>2. t = Locals("rdLoop", task[s].names, task[s].path, task[s].id, task[s].owner, k)
    BY <1>0, <2>1, EditStack
  <2>3. IsTask(t) /\ t.at = "rdLoop" /\ t.id = task[s].id /\ t.stack = Append(q, rows)
    BY <2>0, <2>2 DEF Locals, IsTask
  <2>4. task' = [task EXCEPT ![s] = t] /\ UNCHANGED <<virtualFile, nextId, cwd, crashed, refused, issued, crashes>>
    BY <1>0, <1>4, <2>0, <2>1 DEF RmdirList
  <2>5. \A r \in rows : RowOK(r)
    BY DEF Children, TypeOK
  <2>6. StackRows(t) /\ IsSeq(t.stack) /\ t.stack # <<>>
    <3>. HIDE DEF rows, q
    <3>1. /\ DOMAIN q = 1..Len(q) /\ Len(q) \in Nat /\ IsSeq(Append(q, rows)) /\ Append(q, rows) # <<>>
          /\ Len(Append(q, rows)) = Len(q) + 1 /\ Append(q, rows)[Len(q) + 1] = rows
          /\ \A i \in 1..Len(q) : Append(q, rows)[i] = q[i]
      BY <1>0, StackOps DEF q
    <3>2. DOMAIN Append(q, rows) = 1..(Len(q) + 1)
      BY <3>1, StackOps
    <3>3. \A i \in 1..Len(q) : \A r \in q[i] : RowOK(r)
      BY <1>0, <3>1 DEF q, StackRows
    <3>4. ASSUME NEW i \in 1..(Len(q) + 1) PROVE \A r \in Append(q, rows)[i] : RowOK(r)
      BY <2>5, <3>1, <3>3
    <3>. QED BY <2>3, <3>1, <3>2, <3>4 DEF StackRows
  <2>. QED BY <1>a, <1>0, <2>3, <2>4, <2>6 DEF Removing
<1>5. CASE RmdirLoop(s)
  <2>. DEFINE q == task[s].stack
              rows == Last(q)
  <2>1. /\ task[s].at = "rdLoop" /\ q # <<>>
        /\ UNCHANGED <<virtualFile, nextId, cwd, crashed, refused, issued, crashes>>
    BY <1>5 DEF RmdirLoop, At, TasksOK, TaskOK
  <2>. HIDE DEF q
  <2>2. /\ DOMAIN q = 1..Len(q) /\ Len(q) \in Nat /\ IsSeq(Front(q)) /\ Len(Front(q)) = Len(q) - 1
        /\ \A i \in 1..(Len(q) - 1) : Front(q)[i] = q[i]
        /\ Last(q) = q[Len(q)] /\ Len(q) \in 1..Len(q)
    BY <1>0, <2>1, StackOps DEF q
  <2>3. \A i \in 1..Len(q) : \A r \in q[i] : RowOK(r)
    BY <1>0, <2>2 DEF q, StackRows
  <2>4. DOMAIN Front(q) = 1..(Len(q) - 1)
    BY <2>2, StackOps
  <2>5. CASE task' = [task EXCEPT ![s] = Idle]
    <3>1. StackRows(Idle) /\ Idle.id \in 0..(nextId - 1)
      BY IdleTask DEF StackRows, TypeOK
    <3>. QED BY <1>a, <2>1, <2>5, <3>1, IdleTask
  <2>6. CASE Len(q) # 1 /\ task' = [task EXCEPT ![s] = [task[s] EXCEPT !.stack = Front(q)]]
    <3>1. PICK t : t = [task[s] EXCEPT !.stack = Front(q)]
      OBVIOUS
    <3>2. t = Locals(task[s].at, task[s].names, task[s].path, task[s].id, task[s].owner, Front(q))
      BY <1>0, <3>1, EditOne, Zenon
    <3>3. IsTask(t) /\ t.at = "rdLoop" /\ t.id = task[s].id /\ t.stack = Front(q)
      BY <2>1, <3>2 DEF Locals, IsTask
    <3>4. StackRows(t)
      BY <2>2, <2>3, <2>4, <3>3 DEF StackRows
    <3>5. t.stack # <<>>
      BY <2>2, <2>6, <3>3, EmptySeq
    <3>. QED BY <1>a, <1>0, <2>1, <2>2, <2>6, <3>1, <3>3, <3>4, <3>5 DEF Removing
  <2>7. ASSUME NEW r \in rows, NEW label \in {"rmFind", "rdFind"},
               task' = [task EXCEPT ![s].stack = Append(Front(q), rows \ {r}), ![s].path = r.path,
                                    ![s].at = label]
        PROVE TreeInv'
    <3>0. PICK k : k = Append(Front(q), rows \ {r})
      OBVIOUS
    <3>7. PICK p : p = r.path
      OBVIOUS
    <3>1. PICK t : t = [task[s] EXCEPT !.stack = k, !.path = p, !.at = label]
      OBVIOUS
    <3>2. t = Locals(label, task[s].names, p, task[s].id, task[s].owner, k)
      <4>. DEFINE u == Locals(task[s].at, task[s].names, task[s].path, task[s].id, task[s].owner, k)
                  v == Locals(task[s].at, task[s].names, p, task[s].id, task[s].owner, k)
      <4>1. [task[s] EXCEPT !.stack = k] = u
        BY <1>0, EditOne
      <4>2. [u EXCEPT !.path = p] = v
        BY DEF Locals
      <4>3. [v EXCEPT !.at = label] = Locals(label, task[s].names, p, task[s].id, task[s].owner, k)
        BY DEF Locals
      <4>. HIDE DEF u, v
      <4>. QED BY <3>1, <4>1, <4>2, <4>3, Zenon
    <3>3. IsTask(t) /\ t.at = label /\ t.id = task[s].id /\ t.stack = k
      BY <3>2 DEF Locals, IsTask
    <3>4. \A x \in rows : RowOK(x)
      BY <2>2, <2>3
    <3>5. StackRows(t) /\ IsSeq(k)
      <4>1. /\ IsSeq(k) /\ Len(k) = Len(q) /\ k[Len(q)] = rows \ {r}
            /\ \A i \in 1..(Len(q) - 1) : k[i] = q[i]
        <5>1. PICK f : f = Front(q)
          OBVIOUS
        <5>2. PICK x : x = rows \ {r}
          OBVIOUS
        <5>3. IsSeq(Append(f, x)) /\ Len(Append(f, x)) = Len(f) + 1
              /\ Append(f, x)[Len(f) + 1] = x /\ \A i \in 1..Len(f) : Append(f, x)[i] = f[i]
          BY <2>2, <5>1, StackOps
        <5>7. Len(f) = Len(q) - 1
          BY <2>2, <5>1, Zenon
        <5>4. Len(f) + 1 = Len(q)
          BY <2>2, <5>7
        <5>6. \A i \in 1..(Len(q) - 1) : f[i] = q[i]
          BY <2>2, <5>1, Zenon
        <5>5. k = Append(f, x)
          BY <3>0, <5>1, <5>2
        <5>. HIDE DEF rows
        <5>. QED BY <5>2, <5>3, <5>4, <5>5, <5>6, <5>7
      <4>2. DOMAIN k = 1..Len(q)
        BY <4>1, StackOps
      <4>. HIDE DEF rows
      <4>3. ASSUME NEW i \in 1..Len(q) PROVE \A x \in k[i] : RowOK(x)
        BY <2>2, <2>3, <3>4, <4>1
      <4>. QED BY <3>3, <4>1, <4>2, <4>3 DEF StackRows
    <3>6. task' = [task EXCEPT ![s] = t]
      <4>1. s \in DOMAIN task
        BY <1>0
      <4>2. task' = [task EXCEPT ![s].stack = k, ![s].path = p, ![s].at = label]
        BY <2>7, <3>0, <3>7, Zenon
      <4>. QED BY <3>1, <4>1, <4>2, ThreeEdits, Zenon
    <3>8. t.at \in Removing /\ t.at # "rdLoop" /\ t.at # "idle"
      BY <2>7, <3>3 DEF Removing
    <3>9. t.id \in 0..(nextId - 1) /\ IsSeq(t.stack)
      BY <1>0, <3>3, <3>5
    <3>. QED BY <1>a, <2>1, <3>3, <3>5, <3>6, <3>8, <3>9
  <2>8. CASE \E r \in rows :
               task' = [task EXCEPT ![s].stack = Append(Front(q), rows \ {r}), ![s].path = r.path,
                                    ![s].at = IF r.type = "File" THEN "rmFind" ELSE "rdFind"]
    <3>1. PICK r \in rows :
               task' = [task EXCEPT ![s].stack = Append(Front(q), rows \ {r}), ![s].path = r.path,
                                    ![s].at = IF r.type = "File" THEN "rmFind" ELSE "rdFind"]
      BY <2>8
    <3>2. PICK label : label = IF r.type = "File" THEN "rmFind" ELSE "rdFind"
      OBVIOUS
    <3>3. label \in {"rmFind", "rdFind"}
      BY <3>2
    <3>4. task' = [task EXCEPT ![s].stack = Append(Front(q), rows \ {r}), ![s].path = r.path,
                               ![s].at = label]
      BY <3>1, <3>2, Zenon
    <3>. HIDE DEF rows
    <3>. QED BY <2>7, <3>3, <3>4
  <2>. QED BY <1>5, <2>5, <2>6, <2>8 DEF RmdirLoop, q
<1>6. CASE RmFind(s)
  <2>1. /\ task[s].at = "rmFind" /\ UNCHANGED <<virtualFile, nextId, cwd, crashed, refused, issued, crashes>>
        /\ Return(s) \/ task' = [task EXCEPT ![s] = [task[s] EXCEPT !.at = "rmDelete"]]
    BY <1>0, <1>6 DEF RmFind, At, Goto
  <2>2. CASE Return(s)
    <3>1. task[s].at \in Removing
      BY <2>1 DEF Removing
    <3>. QED BY <1>a, <1>0, <2>1, <2>2, <3>1, ReturnOK DEF StackRows, Removing
  <2>3. CASE task' = [task EXCEPT ![s] = [task[s] EXCEPT !.at = "rmDelete"]]
    <3>1. PICK t : t = [task[s] EXCEPT !.at = "rmDelete"]
      OBVIOUS
    <3>2. t = Locals("rmDelete", task[s].names, task[s].path, task[s].id, task[s].owner, task[s].stack)
      BY <1>0, <3>1, EditOne, Zenon
    <3>3. IsTask(t) /\ t.at = "rmDelete" /\ t.id = task[s].id /\ t.stack = task[s].stack
      BY <3>2 DEF Locals, IsTask
    <3>. QED BY <1>a, <1>0, <2>1, <2>3, <3>1, <3>3 DEF StackRows, Removing
  <2>. QED BY <2>1, <2>2, <2>3
<1>7. CASE RmDelete(s)
  <2>1. task[s].at \in Removing /\ Return(s)
        /\ virtualFile' = virtualFile \ ByPath("File", task[s].path)
        /\ UNCHANGED <<nextId, cwd, crashed, refused, issued, crashes>>
    BY <1>7 DEF RmDelete, At, Removing
  <2>. QED BY <1>b, <1>0, <2>1, ReturnOK DEF StackRows, Removing
<1>. QED BY <1>1, <1>2, <1>3, <1>4, <1>5, <1>6, <1>7 DEF Rmdir

LEMMA RestartTree == ASSUME TreeInv, Restart, overlapped' \in BOOLEAN PROVE TreeInv'
<1>. USE DEF TreeInv
<1>1. /\ task' = [s \in Sessions |-> Idle] /\ crashes' \in Nat
      /\ UNCHANGED <<virtualFile, nextId, cwd, crashed, refused, issued>>
  BY DEF Restart, TypeOK
<1>2. TasksOK'
  <2>1. Idle.id \in 0..(nextId - 1)
    BY IdleTask DEF TypeOK
  <2>. QED BY <1>1, <2>1, IdleTask DEF TasksOK, TaskOK, Labels, Removing
<1>3. TypeOK'
  BY <1>1, <1>2 DEF TypeOK, TasksOK, TaskOK, RowOK
<1>4. OwnCwd' /\ SameOwner' /\ RowsOK'
  BY <1>1 DEF OwnCwd, SameOwner, RowsOK, ById
<1>. QED BY <1>2, <1>3, <1>4

\* A refused statement: the command ends, or rmdir goes on with what is on its stack.
LEMMA RefusedTree ==
  ASSUME TreeInv, NEW s \in Sessions, CommandRefused(s) \/ StatementRefused(s),
         overlapped' \in BOOLEAN
  PROVE  TreeInv'
<1>. USE DEF TreeInv
<1>0. refused \in Nat /\ issued \in Nat /\ crashes \in Nat
  BY DEF TypeOK
<1>1. refused' \in Nat /\ issued' \in Nat /\ crashes' \in Nat /\ UNCHANGED <<virtualFile, nextId, cwd>>
  <2>1. CASE CommandRefused(s)
    BY <1>0, <2>1 DEF CommandRefused, Refuse, Start
  <2>2. CASE StatementRefused(s)
    BY <1>0, <2>2 DEF StatementRefused, Refuse
  <2>. QED BY <2>1, <2>2
<1>2. CASE CommandRefused(s)
  <2>1. crashed' \in BOOLEAN /\ task' = task
    BY <1>2 DEF CommandRefused, TypeOK
  <2>. QED BY <1>1, <2>1, CountStep
<1>3. CASE StatementRefused(s)
  <2>1. Return(s) /\ crashed' \in BOOLEAN
    BY <1>3 DEF StatementRefused, TypeOK
  <2>2. task[s].at \in Removing \/ task[s].stack = <<>>
    BY <1>3 DEF StatementRefused, Removing, TasksOK, TaskOK
  <2>3. PICK t : /\ task' = [task EXCEPT ![s] = t] /\ IsTask(t) /\ IsSeq(t.stack)
                 /\ t.id \in 0..(nextId - 1) /\ t.stack = task[s].stack
                 /\ t.at = IF t.stack = <<>> THEN "idle" ELSE "rdLoop"
    BY <2>1, <2>2, ReturnOK
  <2>4. \A i \in DOMAIN t.stack : \A r \in t.stack[i] : RowOK(r)
    BY <2>3 DEF TasksOK, TaskOK
  <2>. QED BY <1>1, <2>1, <2>3, <2>4, GoesOn DEF Labels, Removing
<1>. QED BY <1>2, <1>3

LEMMA NextTree == TreeInv /\ [Next]_vars => TreeInv'
<1> SUFFICES ASSUME TreeInv, [Next]_vars PROVE TreeInv'
  OBVIOUS
<1>1. CASE UNCHANGED vars
  BY <1>1, CountStep DEF vars, TreeInv, TypeOK
<1>2. ASSUME NEW s \in Sessions, Cd(s) \/ Mkdir(s) \/ Put(s) \/ Rmdir(s), Observe PROVE TreeInv'
  <2>1. overlapped' \in BOOLEAN
    BY <1>2 DEF Observe
  <2>. QED BY <1>2, <2>1, CdTree, MkdirTree, PutTree, RmdirTree
<1>3. ASSUME NEW s \in Sessions, CommandRefused(s) \/ StatementRefused(s), Observe PROVE TreeInv'
  <2>1. overlapped' \in BOOLEAN
    BY <1>3 DEF Observe
  <2>. QED BY <1>3, <2>1, RefusedTree
<1>4. CASE Restart /\ Observe
  <2>1. overlapped' \in BOOLEAN
    BY <1>4 DEF Observe
  <2>. QED BY <1>4, <2>1, RestartTree
<1>. QED BY <1>1, <1>2, <1>3, <1>4 DEF Next, Done

\* No interleaving of any number of sessions, and no restart in the middle of a
\* command, leads out of the user's own rows: the working directory is a directory
\* of his, and what puts, mkdir and rmdir act on is in one of his directories.
THEOREM RowsAreOwn == Spec => []OwnRows
<1>1. TreeInv => OwnRows
  BY DEF TreeInv, OwnRows
<1>. QED BY <1>1, InitTree, NextTree, PTL DEF Spec

-------------------------------------------------------------------------------
(* One command after another: what has lost its parent *)

\* Row r is still ahead of the rmdir that session s runs.
Ahead(s, r) ==
  \/ task[s].at = "rdList" /\ r.parentId = task[s].id
  \/ \E i \in DOMAIN task[s].stack : r \in task[s].stack[i]
  \/ task[s].at \in {"rdFind", "rdDelete"} /\ r.type = "Directory" /\ r.path = task[s].path
  \/ task[s].at \in {"rmFind", "rmDelete"} /\ r.type = "File" /\ r.path = task[s].path

\* Row r has its parent, or was in one of the directories L, whose contents refused
\* statements have left behind.
Kept(r, L) == Reachable(r) \/ r.parentId \in L

Covered(L) == \A r \in virtualFile : Kept(r, L) \/ \E s \in Sessions : Ahead(s, r)

\* What a command has read is still so when nobody came in between.
Fresh(s) ==
  /\ task[s].at = "mkPath" => task[s].id = cwd
  /\ task[s].at \in {"mkInsert", "putInsert"} => ById(task[s].id) # {}
  /\ task[s].at = "rdDelete" => \A d \in ByPath("Directory", task[s].path) : d.fileId = task[s].id

CoverIn(L) ==
  ~overlapped =>
    /\ \A s, u \in Busy : s = u
    /\ \A s \in Sessions : Fresh(s)
    /\ Covered(L)

\* There is one such directory at most for each refused statement.
CoverInv == \E L : IsFiniteSet(L) /\ Cardinality(L) <= refused /\ CoverIn(L)

\* A row that has lost its parent is the user's.
LEMMA OrphanIsUsers ==
  ASSUME TreeInv, NEW L, NEW r \in virtualFile, ~Kept(r, L)
  PROVE  r.userId = User
BY DEF TreeInv, RowsOK, Root, Row, Reachable, Kept

\* While nobody comes in between, the other sessions are idle, and what has lost its
\* parent is ahead of this one.
LEMMA Alone ==
  ASSUME TreeInv, NEW L, CoverIn(L), NEW s \in Sessions, NEW t, task' = [task EXCEPT ![s] = t],
         Observe, ~overlapped', task[s].at # "idle" \/ t.at # "idle"
  PROVE  /\ task'[s] = t /\ Fresh(s)
         /\ \A u \in Sessions : u # s => task'[u].at = "idle" /\ task'[u].stack = <<>>
         /\ \A u, v \in Busy' : u = v
         /\ \A r \in virtualFile : Kept(r, L) \/ Ahead(s, r)
         /\ task[s].at \notin Removing => \A r \in virtualFile : Kept(r, L)
<1>1. task'[s] = t /\ \A u \in Sessions : u # s => task'[u] = task[u]
  BY DEF TreeInv, TasksOK
<1>2. ~overlapped /\ \A u, v \in Busy' : u = v
  BY DEF Observe
<1>3. ASSUME NEW u \in Sessions, u # s PROVE task[u].at = "idle" /\ task[u].stack = <<>>
  <2>1. task[u].at = "idle"
    BY <1>1, <1>2, <1>3 DEF CoverIn, Busy
  <2>. QED BY <2>1 DEF TreeInv, TasksOK, TaskOK, Removing
<1>4. ASSUME NEW u \in Sessions, task[u].at \notin Removing, NEW r PROVE ~Ahead(u, r)
  <2>1. task[u].stack = <<>>
    BY <1>4 DEF TreeInv, TasksOK, TaskOK
  <2>2. DOMAIN task[u].stack = {}
    BY <2>1
  <2>. QED BY <1>4, <2>2 DEF Ahead, Removing
<1>5. \A r \in virtualFile : Kept(r, L) \/ Ahead(s, r)
  BY <1>2, <1>3, <1>4 DEF CoverIn, Covered, Removing
<1>6. Fresh(s)
  BY <1>2 DEF CoverIn
<1>. QED BY <1>1, <1>2, <1>3, <1>4, <1>5, <1>6

LEMMA CoverStep ==
  ASSUME TreeInv, NEW L, CoverIn(L), NEW s \in Sessions, NEW t, task' = [task EXCEPT ![s] = t],
         Observe, task[s].at # "idle" \/ t.at # "idle",
         ~overlapped' => Fresh(s)' /\ \A r \in virtualFile' : Kept(r, L)' \/ Ahead(s, r)'
  PROVE  CoverIn(L)'
<1> SUFFICES ASSUME ~overlapped'
             PROVE  /\ \A u, v \in Busy' : u = v
                    /\ \A u \in Sessions : Fresh(u)'
                    /\ Covered(L)'
  BY DEF CoverIn
<1>1. /\ \A u \in Sessions : u # s => task'[u].at = "idle"
      /\ \A u, v \in Busy' : u = v
  BY Alone
<1>2. \A u \in Sessions : u # s => Fresh(u)'
  BY <1>1 DEF Fresh
<1>. QED BY <1>1, <1>2 DEF Covered

\* Nothing changes but a counter: the path was NULL, or there is no working directory.
LEMMA SameCover ==
  ASSUME NEW L, CoverIn(L), Observe, UNCHANGED <<virtualFile, cwd, task>>
  PROVE  CoverIn(L)'
BY DEF CoverIn, Observe, Covered, Ahead, Kept, Reachable, ById, ByPath, Fresh, Busy

\* A step of a command that does not remove anything.
LEMMA PlainStep ==
  ASSUME TreeInv, NEW L, CoverIn(L), NEW s \in Sessions, NEW t, task' = [task EXCEPT ![s] = t],
         Observe, task[s].at # "idle" \/ t.at # "idle", task[s].at \notin Removing,
         virtualFile' = virtualFile, ~overlapped' => Fresh(s)'
  PROVE  CoverIn(L)'
<1>1. ASSUME ~overlapped' PROVE \A r \in virtualFile' : Kept(r, L)'
  BY <1>1, Alone DEF Kept, Reachable, ById
<1>. QED BY <1>1, CoverStep

LEMMA CdCover ==
  ASSUME TreeInv, NEW L, CoverIn(L), NEW s \in Sessions, Cd(s), Observe PROVE CoverIn(L)'
<1>1. ASSUME NEW arg \in Args, CdPath(s, arg) PROVE CoverIn(L)'
  <2>1. PICK path : \/ task' = task
                    \/ task' = [task EXCEPT ![s] = [Idle EXCEPT !.at = "cdFind", !.path = path]]
    BY <1>1 DEF CdPath
  <2>2. PICK t : t = [Idle EXCEPT !.at = "cdFind", !.path = path]
    OBVIOUS
  <2>3. t.at = "cdFind" /\ task[s].at = "idle" /\ UNCHANGED <<virtualFile, cwd>>
    BY <1>1, <2>2 DEF Idle, CdPath, Start, At
  <2>4. CASE task' = [task EXCEPT ![s] = t]
    <3>1. task'[s] = t
      BY <2>4 DEF TreeInv, TasksOK
    <3>2. Fresh(s)'
      BY <2>3, <3>1 DEF Fresh
    <3>. QED BY <2>3, <2>4, <3>2, PlainStep DEF Removing
  <2>. QED BY <2>1, <2>2, <2>3, <2>4, SameCover
<1>2. CASE CdFind(s)
  <2>1. PICK t : /\ task[s].at = "cdFind" /\ virtualFile' = virtualFile
                 /\ task' = [task EXCEPT ![s] = t] /\ t.at \in {"idle", "cdUpdate"}
    <3>1. PICK id : task[s].at = "cdFind" /\ virtualFile' = virtualFile
                    /\ \/ task' = [task EXCEPT ![s] = Idle]
                       \/ task' = [task EXCEPT ![s] = [task[s] EXCEPT !.at = "cdUpdate", !.id = id]]
      BY <1>2 DEF CdFind, At, Finish, TreeInv, TasksOK
    <3>2. IsTask(task[s])
      BY DEF TreeInv, TasksOK, TaskOK
    <3>3. PICK t : t = [task[s] EXCEPT !.at = "cdUpdate", !.id = id]
      OBVIOUS
    <3>4. t = Locals("cdUpdate", task[s].names, task[s].path, id, task[s].owner, task[s].stack)
      BY <3>2, <3>3, EditId
    <3>5. t.at = "cdUpdate"
      BY <3>4 DEF Locals
    <3>. QED BY <3>1, <3>3, <3>5, IdleTask
  <2>2. Fresh(s)'
    BY <2>1 DEF Fresh, TreeInv, TasksOK
  <2>. QED BY <2>1, <2>2, PlainStep DEF Removing
<1>3. CASE CdUpdate(s)
  <2>1. task[s].at = "cdUpdate" /\ virtualFile' = virtualFile /\ task' = [task EXCEPT ![s] = Idle]
    BY <1>3 DEF CdUpdate, At, Finish
  <2>2. Fresh(s)'
    BY <2>1, IdleTask DEF Fresh, TreeInv, TasksOK
  <2>. QED BY <2>1, <2>2, PlainStep DEF Removing
<1>. QED BY <1>1, <1>2, <1>3 DEF Cd

\* A row more, in a directory that is there.
LEMMA InsertCover ==
  ASSUME TreeInv, NEW L, CoverIn(L), NEW s \in Sessions, NEW owner, NEW type, Observe,
         task[s].at \in {"mkInsert", "putInsert"},
         Insert(task[s].id, owner, type, task[s].path), task' = [task EXCEPT ![s] = Idle]
  PROVE  CoverIn(L)'
<1>1. Fresh(s)'
  BY IdleTask DEF Fresh, TreeInv, TasksOK
<1>2. ASSUME ~overlapped' PROVE \A r \in virtualFile' : Kept(r, L)'
  <2>1. ById(task[s].id) # {} /\ \A r \in virtualFile : Kept(r, L)
    BY <1>2, Alone, IdleTask DEF Fresh, Removing
  <2>2. PICK new : new = Row(nextId, task[s].id, owner, type, task[s].path)
    OBVIOUS
  <2>3. new.parentId = task[s].id
    BY <2>2 DEF Row
  <2>4. virtualFile' = virtualFile \/ virtualFile' = virtualFile \cup {new}
    BY <2>2 DEF Insert
  <2>. QED BY <2>1, <2>3, <2>4 DEF Kept, Reachable, ById
<1>. QED BY <1>1, <1>2, CoverStep

LEMMA MkdirCover ==
  ASSUME TreeInv, NEW L, CoverIn(L), NEW s \in Sessions, Mkdir(s), Observe PROVE CoverIn(L)'
<1>1. ASSUME NEW arg \in Args, MkdirParent(s, arg) PROVE CoverIn(L)'
  <2>1. PICK t : /\ t = [Idle EXCEPT !.at = "mkPath", !.names = Spelled(arg), !.id = cwd]
                 /\ task' = [task EXCEPT ![s] = t]
    BY <1>1 DEF MkdirParent
  <2>2. t.at = "mkPath" /\ t.id = cwd /\ task[s].at = "idle" /\ UNCHANGED <<virtualFile, cwd>>
    BY <1>1, <2>1 DEF MkdirParent, Start, At, Idle
  <2>3. task'[s] = t
    BY <2>1 DEF TreeInv, TasksOK
  <2>4. Fresh(s)'
    BY <2>2, <2>3 DEF Fresh
  <2>. QED BY <2>1, <2>2, <2>4, PlainStep DEF Removing
<1>2. CASE MkdirPath(s)
  <2>1. PICK path : /\ task[s].at = "mkPath" /\ UNCHANGED <<virtualFile, cwd>>
                    /\ \/ task' = task
                       \/ /\ task' = [task EXCEPT ![s] = [task[s] EXCEPT !.at = "mkInsert",
                                                                         !.path = path]]
                          /\ ById(cwd) # {}
    BY <1>2 DEF MkdirPath, At, TreeInv, TasksOK
  <2>2. PICK t : t = [task[s] EXCEPT !.at = "mkInsert", !.path = path]
    OBVIOUS
  <2>3. IsTask(task[s])
    BY DEF TreeInv, TasksOK, TaskOK
  <2>4. t = Locals("mkInsert", task[s].names, path, task[s].id, task[s].owner, task[s].stack)
    BY <2>2, <2>3, EditPath
  <2>5. t.at = "mkInsert" /\ t.id = task[s].id
    BY <2>4 DEF Locals
  <2>6. CASE task' = [task EXCEPT ![s] = t] /\ ById(cwd) # {}
    <3>1. task'[s] = t
      BY <2>6 DEF TreeInv, TasksOK
    <3>2. ASSUME ~overlapped' PROVE Fresh(s)'
      <4>1. task[s].id = cwd
        BY <2>1, <2>5, <2>6, <3>2, Alone DEF Fresh
      <4>2. ById(task[s].id)' # {}
        BY <2>1, <2>5, <2>6, <3>1, <4>1 DEF ById
      <4>. QED BY <2>5, <3>1, <4>2 DEF Fresh
    <3>. QED BY <2>1, <2>5, <2>6, <3>2, PlainStep DEF Removing
  <2>. QED BY <2>1, <2>2, <2>6, SameCover
<1>3. CASE MkdirInsert(s)
  <2>1. task[s].at \in {"mkInsert", "putInsert"} /\ task' = [task EXCEPT ![s] = Idle]
        /\ Insert(task[s].id, User, "Directory", task[s].path)
    BY <1>3 DEF MkdirInsert, At, Finish
  <2>. QED BY <2>1, InsertCover
<1>. QED BY <1>1, <1>2, <1>3 DEF Mkdir

LEMMA PutCover ==
  ASSUME TreeInv, NEW L, CoverIn(L), NEW s \in Sessions, Put(s), Observe PROVE CoverIn(L)'
<1>1. ASSUME NEW n \in Names, PutSelect(s, n) PROVE CoverIn(L)'
  <2>. DEFINE d == TheRow(ById(cwd))
  <2>1. task[s].at = "idle" /\ UNCHANGED <<virtualFile, cwd>>
    BY <1>1 DEF PutSelect, Start, At
  <2>2. CASE ById(cwd) = {}
    BY <1>1, <2>1, <2>2, SameCover DEF PutSelect
  <2>3. CASE ById(cwd) # {}
    <3>1. PICK t : /\ t = [Idle EXCEPT !.at = "putInsert", !.id = d.fileId, !.owner = d.userId,
                                       !.path = Append(d.path, n)]
                   /\ task' = [task EXCEPT ![s] = t]
      BY <1>1, <2>3 DEF PutSelect
    <3>2. t.at = "putInsert" /\ t.id = d.fileId
      BY <3>1 DEF Idle
    <3>3. ById(cwd) \subseteq virtualFile
      BY DEF ById
    <3>4. ById(d.fileId) # {}
      BY <2>3, <3>3, RowFound
    <3>. HIDE DEF d
    <3>5. task'[s] = t
      BY <3>1 DEF TreeInv, TasksOK
    <3>6. ById(task[s].id)' # {}
      BY <2>1, <3>2, <3>4, <3>5 DEF ById
    <3>7. Fresh(s)'
      BY <3>2, <3>5, <3>6 DEF Fresh
    <3>. QED BY <2>1, <3>1, <3>2, <3>7, PlainStep DEF Removing
  <2>. QED BY <2>2, <2>3
<1>2. CASE PutInsert(s)
  <2>1. task[s].at \in {"mkInsert", "putInsert"} /\ task' = [task EXCEPT ![s] = Idle]
        /\ Insert(task[s].id, task[s].owner, "File", task[s].path)
    BY <1>2 DEF PutInsert, At, Finish
  <2>. QED BY <2>1, InsertCover
<1>. QED BY <1>1, <1>2 DEF Put

\* The next SELECT for a row that is gone finds nothing, and what has lost its parent
\* is on the stack.
LEMMA ReturnCover ==
  ASSUME TreeInv, NEW L, CoverIn(L), NEW s \in Sessions, Return(s), task[s].at \in Removing, Observe,
         \A r \in virtualFile' : Kept(r, L)' \/ \E i \in DOMAIN task[s].stack : r \in task[s].stack[i]
  PROVE  CoverIn(L)'
<1>1. PICK t : /\ task' = [task EXCEPT ![s] = t] /\ t.stack = task[s].stack
               /\ t.at \in {"idle", "rdLoop"}
  BY ReturnOK
<1>2. task'[s] = t
  BY <1>1 DEF TreeInv, TasksOK
<1>3. Fresh(s)'
  BY <1>1, <1>2 DEF Fresh
<1>4. \A r \in virtualFile' : Kept(r, L)' \/ Ahead(s, r)'
  BY <1>1, <1>2 DEF Ahead
<1>5. task[s].at # "idle"
  BY DEF Removing
<1>. QED BY <1>1, <1>3, <1>4, <1>5, CoverStep

\* A file is nobody's parent.
LEMMA FileHasNone ==
  ASSUME TreeInv, NEW s \in Sessions, NEW p \in ByPath("File", task[s].path),
         NEW r \in virtualFile, r.parentId = p.fileId
  PROVE  FALSE
<1>1. p \in virtualFile /\ p.type = "File" /\ p.userId = User
  BY DEF ByPath
<1>2. CASE r.fileId # 2
  BY <1>1, <1>2 DEF TreeInv, SameOwner
<1>3. CASE r.fileId = 2
  <2>1. p.fileId = 1
    BY <1>3 DEF TreeInv, RowsOK
  <2>2. p = Root
    BY <1>1, <2>1 DEF TreeInv, RowsOK, Root, Row
  <2>. QED BY <1>1, <2>2 DEF Root, Row
<1>. QED BY <1>2, <1>3

LEMMA RmdirCover ==
  ASSUME TreeInv, NEW L, CoverIn(L), NEW s \in Sessions, Rmdir(s), Observe PROVE CoverIn(L)'
<1>0. IsTask(task[s]) /\ IsSeq(task[s].stack) /\ task = [u \in Sessions |-> task[u]]
  BY DEF TreeInv, TasksOK, TaskOK
<1>1. ASSUME NEW arg \in Args, RmdirPath(s, arg) PROVE CoverIn(L)'
  <2>1. PICK path : \/ task' = task
                    \/ task' = [task EXCEPT ![s] = [Idle EXCEPT !.at = "rdFind", !.path = path]]
    BY <1>1 DEF RmdirPath
  <2>2. PICK t : t = [Idle EXCEPT !.at = "rdFind", !.path = path]
    OBVIOUS
  <2>3. t.at = "rdFind" /\ task[s].at = "idle" /\ UNCHANGED <<virtualFile, cwd>>
    BY <1>1, <2>2 DEF Idle, RmdirPath, Start, At
  <2>4. CASE task' = [task EXCEPT ![s] = t]
    <3>1. Fresh(s)'
      BY <1>0, <2>3, <2>4 DEF Fresh
    <3>. QED BY <2>3, <2>4, <3>1, PlainStep DEF Removing
  <2>. QED BY <2>1, <2>2, <2>3, <2>4, SameCover
<1>2. CASE RmdirFind(s)
  <2>. DEFINE Rows == ByPath("Directory", task[s].path)
              id == TheRow(Rows).fileId
  <2>1. /\ task[s].at = "rdFind" /\ virtualFile' = virtualFile
        /\ \/ Rows = {} /\ Return(s)
           \/ Rows # {} /\ task' = [task EXCEPT ![s] = [task[s] EXCEPT !.at = "rdDelete", !.id = id]]
    BY <1>0, <1>2 DEF RmdirFind, At
  <2>2. CASE Rows = {} /\ Return(s)
    <3>1. task[s].at \in Removing
      BY <2>1 DEF Removing
    <3>2. PICK t : task' = [task EXCEPT ![s] = t]
      BY <2>2, <3>1, ReturnOK
    <3>3. ASSUME ~overlapped', NEW r \in virtualFile, ~Kept(r, L)
          PROVE  \E i \in DOMAIN task[s].stack : r \in task[s].stack[i]
      <4>1. r.userId = User /\ Ahead(s, r)
        BY <2>1, <3>2, <3>3, OrphanIsUsers, Alone
      <4>. QED BY <2>1, <2>2, <4>1 DEF Ahead, ByPath
    <3>4. ASSUME overlapped' PROVE CoverIn(L)'
      BY <3>4 DEF CoverIn
    <3>. QED BY <2>1, <2>2, <3>1, <3>3, <3>4, ReturnCover DEF Kept, Reachable, ById
  <2>3. CASE Rows # {} /\ task' = [task EXCEPT ![s] = [task[s] EXCEPT !.at = "rdDelete", !.id = id]]
    <3>1. Rows \subseteq virtualFile
      BY DEF ByPath
    <3>2. TheRow(Rows) \in Rows
      BY <2>3, <3>1, RowFound
    <3>3. \A d \in Rows : d.fileId = id
      BY <3>1, <3>2 DEF TreeInv, RowsOK, ByPath
    <3>4. PICK t : t = [task[s] EXCEPT !.at = "rdDelete", !.id = id]
      OBVIOUS
    <3>. HIDE DEF id
    <3>5. t = Locals("rdDelete", task[s].names, task[s].path, id, task[s].owner, task[s].stack)
      BY <1>0, <3>4, EditId
    <3>6. t.at = "rdDelete" /\ t.id = id /\ t.stack = task[s].stack /\ t.path = task[s].path
      BY <3>5 DEF Locals
    <3>7. task'[s] = t /\ task' = [task EXCEPT ![s] = t]
      BY <1>0, <2>3, <3>4
    <3>8. Fresh(s)'
      BY <2>1, <3>3, <3>6, <3>7 DEF Fresh, ByPath
    <3>9. ASSUME ~overlapped', NEW r \in virtualFile' PROVE Kept(r, L)' \/ Ahead(s, r)'
      <4>1. Kept(r, L) \/ Ahead(s, r)
        BY <2>1, <3>7, <3>9, Alone
      <4>. QED BY <2>1, <3>6, <3>7, <4>1 DEF Kept, Reachable, ById, Ahead
    <3>. QED BY <2>1, <3>7, <3>8, <3>9, CoverStep
  <2>. QED BY <2>1, <2>2, <2>3
<1>3. CASE RmdirDelete(s)
  <2>1. PICK t : t = [task[s] EXCEPT !.at = "rdList"]
    OBVIOUS
  <2>2. t = Locals("rdList", task[s].names, task[s].path, task[s].id, task[s].owner, task[s].stack)
    BY <1>0, <2>1, EditOne, Zenon
  <2>3. t.at = "rdList" /\ t.id = task[s].id /\ t.stack = task[s].stack
    BY <2>2 DEF Locals
  <2>4. /\ task[s].at = "rdDelete" /\ task' = [task EXCEPT ![s] = t] /\ task'[s] = t
        /\ virtualFile' = virtualFile \ ByPath("Directory", task[s].path)
    BY <1>0, <1>3, <2>1 DEF RmdirDelete, At, Goto
  <2>5. Fresh(s)'
    BY <2>3, <2>4 DEF Fresh
  <2>6. ASSUME ~overlapped', NEW r \in virtualFile' PROVE Kept(r, L)' \/ Ahead(s, r)'
    <3>1. r \in virtualFile /\ r \notin ByPath("Directory", task[s].path)
      BY <2>4
    <3>2. /\ Kept(r, L) \/ Ahead(s, r)
          /\ \A d \in ByPath("Directory", task[s].path) : d.fileId = task[s].id
      BY <2>4, <2>6, <3>1, Alone DEF Fresh
    <3>3. CASE Kept(r, L)
      BY <2>3, <2>4, <3>2, <3>3 DEF Kept, Reachable, ById, Ahead
    <3>4. CASE ~Kept(r, L)
      <4>1. r.userId = User /\ Ahead(s, r)
        BY <3>1, <3>2, <3>4, OrphanIsUsers
      <4>2. \E i \in DOMAIN task[s].stack : r \in task[s].stack[i]
        BY <2>4, <3>1, <4>1 DEF Ahead, ByPath
      <4>. QED BY <2>3, <2>4, <4>2 DEF Ahead
    <3>. QED BY <3>3, <3>4
  <2>. QED BY <2>4, <2>5, <2>6, CoverStep
<1>4. CASE RmdirList(s)
  <2>. DEFINE rows == Children(task[s].id)
              q == task[s].stack
  <2>0. PICK k : k = Append(q, rows)
    OBVIOUS
  <2>1. PICK t : t = [task[s] EXCEPT !.at = "rdLoop", !.stack = k]
    OBVIOUS
  <2>2. t = Locals("rdLoop", task[s].names, task[s].path, task[s].id, task[s].owner, k)
    BY <1>0, <2>1, EditStack
  <2>3. t.at = "rdLoop" /\ t.stack = k
    BY <2>2 DEF Locals
  <2>4. /\ task[s].at = "rdList" /\ task' = [task EXCEPT ![s] = t] /\ task'[s] = t
        /\ virtualFile' = virtualFile
    BY <1>0, <1>4, <2>0, <2>1 DEF RmdirList, At
  <2>5. /\ DOMAIN q = 1..Len(q) /\ Len(q) \in Nat /\ DOMAIN k = 1..(Len(q) + 1)
        /\ k[Len(q) + 1] = rows /\ \A i \in 1..Len(q) : k[i] = q[i]
    <3>1. PICK x : x = rows
      OBVIOUS
    <3>. HIDE DEF rows, q
    <3>2. IsSeq(q)
      BY <1>0 DEF q
    <3>3. /\ DOMAIN q = 1..Len(q) /\ Len(q) \in Nat /\ IsSeq(Append(q, x))
          /\ Len(Append(q, x)) = Len(q) + 1
          /\ Append(q, x)[Len(q) + 1] = x /\ \A i \in 1..Len(q) : Append(q, x)[i] = q[i]
      BY <3>2, StackOps
    <3>4. IsSeq(k) /\ Len(k) = Len(q) + 1 /\ k[Len(q) + 1] = rows /\ \A i \in 1..Len(q) : k[i] = q[i]
      BY <2>0, <3>1, <3>3
    <3>5. DOMAIN k = 1..Len(k)
      BY <3>4, StackOps
    <3>. QED BY <3>3, <3>4, <3>5
  <2>6. Fresh(s)'
    BY <2>3, <2>4 DEF Fresh
  <2>7. ASSUME ~overlapped', NEW r \in virtualFile' PROVE Kept(r, L)' \/ Ahead(s, r)'
    <3>1. r \in virtualFile /\ (Kept(r, L) \/ Ahead(s, r))
      BY <2>4, <2>7, Alone
    <3>2. CASE Kept(r, L)
      BY <2>4, <3>2 DEF Kept, Reachable, ById
    <3>3. CASE r.parentId = task[s].id
      BY <2>3, <2>4, <2>5, <3>1, <3>3 DEF Ahead, Children
    <3>4. ASSUME NEW i \in DOMAIN q, r \in q[i] PROVE Ahead(s, r)'
      <4>1. i \in DOMAIN k /\ r \in k[i]
        BY <2>5, <3>4
      <4>. QED BY <2>3, <2>4, <4>1 DEF Ahead
    <3>. QED BY <2>4, <3>1, <3>2, <3>3, <3>4 DEF Ahead
  <2>. QED BY <2>4, <2>6, <2>7, CoverStep
<1>5. CASE RmdirLoop(s)
  <2>. DEFINE q == task[s].stack
              rows == Last(q)
  <2>1. /\ task[s].at = "rdLoop" /\ q # <<>> /\ virtualFile' = virtualFile
    BY <1>5 DEF RmdirLoop, At, TreeInv, TasksOK, TaskOK
  <2>a. StackRows(task[s])
    BY DEF TreeInv, TasksOK, TaskOK, StackRows
  <2>. HIDE DEF q
  <2>2. /\ DOMAIN q = 1..Len(q) /\ Len(q) \in Nat /\ IsSeq(Front(q)) /\ Len(Front(q)) = Len(q) - 1
        /\ \A i \in 1..(Len(q) - 1) : Front(q)[i] = q[i]
        /\ rows = q[Len(q)] /\ Len(q) \in 1..Len(q)
    BY <1>0, <2>1, StackOps DEF q
  <2>3. DOMAIN Front(q) = 1..(Len(q) - 1)
    BY <2>2, StackOps
  <2>. HIDE DEF rows
  <2>4. \A x \in rows : x.type \in {"Directory", "File"}
    BY <2>a, <2>2 DEF q, StackRows, RowOK
  \* What is ahead is on the stack, before the last result or in it.
  <2>5. ASSUME NEW t, task' = [task EXCEPT ![s] = t], ~overlapped', NEW r \in virtualFile, ~Kept(r, L)
        PROVE  r \in rows \/ \E i \in 1..(Len(q) - 1) : r \in q[i]
    <3>1. Ahead(s, r)
      BY <2>1, <2>5, Alone
    <3>2. PICK i \in 1..Len(q) : r \in q[i]
      BY <2>1, <2>2, <3>1 DEF Ahead, q
    <3>. QED BY <2>2, <3>2
  <2>6. CASE rows = {} /\ Len(q) = 1 /\ task' = [task EXCEPT ![s] = Idle]
    <3>1. Fresh(s)'
      BY <1>0, <2>6, IdleTask DEF Fresh
    <3>2. ASSUME ~overlapped' PROVE \A r \in virtualFile' : Kept(r, L)'
      <4>1. ASSUME NEW r \in virtualFile, ~Kept(r, L) PROVE FALSE
        <5>1. \E i \in 1..(Len(q) - 1) : r \in q[i]
          BY <2>5, <2>6, <3>2, <4>1
        <5>. QED BY <2>6, <5>1
      <4>. QED BY <2>1, <4>1 DEF Kept, Reachable, ById
    <3>. QED BY <2>1, <2>6, <3>1, <3>2, CoverStep
  <2>7. CASE rows = {} /\ task' = [task EXCEPT ![s] = [task[s] EXCEPT !.stack = Front(q)]]
    <3>1. PICK t : t = [task[s] EXCEPT !.stack = Front(q)]
      OBVIOUS
    <3>2. t = Locals(task[s].at, task[s].names, task[s].path, task[s].id, task[s].owner, Front(q))
      BY <1>0, <3>1, EditOne, Zenon
    <3>3. t.at = "rdLoop" /\ t.stack = Front(q)
      BY <2>1, <3>2 DEF Locals
    <3>4. task'[s] = t /\ task' = [task EXCEPT ![s] = t]
      BY <1>0, <2>7, <3>1
    <3>5. Fresh(s)'
      BY <3>3, <3>4 DEF Fresh
    <3>6. ASSUME ~overlapped', NEW r \in virtualFile' PROVE Kept(r, L)' \/ Ahead(s, r)'
      <4>1. r \in virtualFile /\ Kept(r, L)' <=> r \in virtualFile /\ Kept(r, L)
        BY <2>1, <3>6 DEF Kept, Reachable, ById
      <4>2. CASE ~Kept(r, L)
        <5>1. PICK i \in 1..(Len(q) - 1) : r \in q[i]
          BY <2>1, <2>5, <2>7, <3>4, <3>6, <4>2
        <5>2. i \in DOMAIN t.stack /\ r \in t.stack[i]
          BY <2>2, <2>3, <3>3, <5>1
        <5>. QED BY <3>4, <5>2 DEF Ahead
      <4>. QED BY <2>1, <3>6, <4>1, <4>2
    <3>. QED BY <2>1, <3>4, <3>5, <3>6, CoverStep
  <2>8. ASSUME NEW x \in rows, NEW label, label = IF x.type = "File" THEN "rmFind" ELSE "rdFind",
               task' = [task EXCEPT ![s] = [task[s] EXCEPT !.stack = Append(Front(q), rows \ {x}),
                                                           !.path = x.path, !.at = label]]
        PROVE  CoverIn(L)'
    <3>0. PICK k : k = Append(Front(q), rows \ {x})
      OBVIOUS
    <3>7. PICK p : p = x.path
      OBVIOUS
    <3>1. PICK t : t = [task[s] EXCEPT !.stack = k, !.path = p, !.at = label]
      OBVIOUS
    <3>2. t = Locals(label, task[s].names, p, task[s].id, task[s].owner, k)
      <4>. DEFINE u == Locals(task[s].at, task[s].names, task[s].path, task[s].id, task[s].owner, k)
                  v == Locals(task[s].at, task[s].names, p, task[s].id, task[s].owner, k)
      <4>1. [task[s] EXCEPT !.stack = k] = u
        BY <1>0, EditOne
      <4>2. [u EXCEPT !.path = p] = v
        BY DEF Locals
      <4>3. [v EXCEPT !.at = label] = Locals(label, task[s].names, p, task[s].id, task[s].owner, k)
        BY DEF Locals
      <4>. HIDE DEF u, v
      <4>. QED BY <3>1, <4>1, <4>2, <4>3, Zenon
    <3>3. t.at = label /\ t.path = x.path /\ t.stack = k
      BY <3>2, <3>7 DEF Locals
    <3>4. task' = [task EXCEPT ![s] = t] /\ task'[s] = t
      BY <1>0, <2>8, <3>0, <3>1, <3>7
    <3>5. DOMAIN k = 1..Len(q) /\ k[Len(q)] = rows \ {x} /\ \A i \in 1..(Len(q) - 1) : k[i] = q[i]
      <4>1. PICK f : f = Front(q)
        OBVIOUS
      <4>2. PICK y : y = rows \ {x}
        OBVIOUS
      <4>3. IsSeq(Append(f, y)) /\ Len(Append(f, y)) = Len(f) + 1
            /\ Append(f, y)[Len(f) + 1] = y /\ \A i \in 1..Len(f) : Append(f, y)[i] = f[i]
        BY <2>2, <4>1, StackOps
      <4>4. Len(f) = Len(q) - 1
        BY <2>2, <4>1, Zenon
      <4>5. Len(f) + 1 = Len(q)
        BY <2>2, <4>4
      <4>6. \A i \in 1..(Len(q) - 1) : f[i] = q[i]
        BY <2>2, <4>1, Zenon
      <4>7. k = Append(f, y)
        BY <3>0, <4>1, <4>2
      <4>8. IsSeq(k) /\ Len(k) = Len(q) /\ k[Len(q)] = rows \ {x}
            /\ \A i \in 1..(Len(q) - 1) : k[i] = q[i]
        BY <4>2, <4>3, <4>4, <4>5, <4>6, <4>7
      <4>9. DOMAIN k = 1..Len(k)
        BY <4>8, StackOps
      <4>. QED BY <4>8, <4>9
    <3>6. Fresh(s)'
      BY <2>8, <3>3, <3>4 DEF Fresh
    <3>8. ASSUME ~overlapped', NEW r \in virtualFile' PROVE Kept(r, L)' \/ Ahead(s, r)'
      <4>1. r \in virtualFile /\ (Kept(r, L)' <=> Kept(r, L))
        BY <2>1, <3>8 DEF Kept, Reachable, ById
      <4>2. CASE r = x
        <5>1. /\ r.type = "File" => label = "rmFind"
              /\ r.type = "Directory" => label = "rdFind"
          BY <2>8, <4>2
        <5>2. r.type \in {"Directory", "File"} /\ r.path = t.path
          BY <2>4, <2>8, <3>3, <4>2
        <5>. QED BY <3>3, <3>4, <5>1, <5>2 DEF Ahead
      <4>3. ASSUME NEW i \in 1..Len(q), r \in k[i] PROVE Ahead(s, r)'
        BY <3>3, <3>4, <3>5, <4>3 DEF Ahead
      <4>4. CASE ~Kept(r, L) /\ r # x
        <5>1. r \in rows \/ \E i \in 1..(Len(q) - 1) : r \in q[i]
          BY <2>5, <3>4, <3>8, <4>1, <4>4
        <5>2. \E i \in 1..Len(q) : r \in k[i]
          BY <2>2, <3>5, <4>4, <5>1
        <5>. QED BY <4>3, <5>2
      <4>. QED BY <4>1, <4>2, <4>4
    <3>. QED BY <2>1, <3>4, <3>6, <3>8, CoverStep
  <2>9. \/ rows = {} /\ Len(q) = 1 /\ task' = [task EXCEPT ![s] = Idle]
        \/ rows = {} /\ task' = [task EXCEPT ![s] = [task[s] EXCEPT !.stack = Front(q)]]
        \/ \E x \in rows :
             task' = [task EXCEPT ![s] = [task[s] EXCEPT
                        !.stack = Append(Front(q), rows \ {x}), !.path = x.path,
                        !.at = IF x.type = "File" THEN "rmFind" ELSE "rdFind"]]
    BY <1>0, <1>5 DEF RmdirLoop, q, rows
  <2>. QED BY <2>6, <2>7, <2>8, <2>9
<1>6. CASE RmFind(s)
  <2>. DEFINE Rows == ByPath("File", task[s].path)
  <2>1. /\ task[s].at = "rmFind" /\ virtualFile' = virtualFile
        /\ \/ Rows = {} /\ Return(s)
           \/ task' = [task EXCEPT ![s] = [task[s] EXCEPT !.at = "rmDelete"]]
    BY <1>0, <1>6 DEF RmFind, At, Goto
  <2>2. CASE Rows = {} /\ Return(s)
    <3>1. task[s].at \in Removing
      BY <2>1 DEF Removing
    <3>2. PICK t : task' = [task EXCEPT ![s] = t]
      BY <2>2, <3>1, ReturnOK
    <3>3. ASSUME ~overlapped', NEW r \in virtualFile, ~Kept(r, L)
          PROVE  \E i \in DOMAIN task[s].stack : r \in task[s].stack[i]
      <4>1. r.userId = User /\ Ahead(s, r)
        BY <2>1, <3>2, <3>3, OrphanIsUsers, Alone
      <4>. QED BY <2>1, <2>2, <4>1 DEF Ahead, ByPath
    <3>4. ASSUME overlapped' PROVE CoverIn(L)'
      BY <3>4 DEF CoverIn
    <3>. QED BY <2>1, <2>2, <3>1, <3>3, <3>4, ReturnCover DEF Kept, Reachable, ById
  <2>3. CASE task' = [task EXCEPT ![s] = [task[s] EXCEPT !.at = "rmDelete"]]
    <3>1. PICK t : t = [task[s] EXCEPT !.at = "rmDelete"]
      OBVIOUS
    <3>2. t = Locals("rmDelete", task[s].names, task[s].path, task[s].id, task[s].owner, task[s].stack)
      BY <1>0, <3>1, EditOne, Zenon
    <3>3. t.at = "rmDelete" /\ t.stack = task[s].stack /\ t.path = task[s].path
      BY <3>2 DEF Locals
    <3>4. task'[s] = t /\ task' = [task EXCEPT ![s] = t]
      BY <1>0, <2>3, <3>1
    <3>5. Fresh(s)'
      BY <3>3, <3>4 DEF Fresh
    <3>6. ASSUME ~overlapped', NEW r \in virtualFile' PROVE Kept(r, L)' \/ Ahead(s, r)'
      <4>1. Kept(r, L) \/ Ahead(s, r)
        BY <2>1, <3>4, <3>6, Alone
      <4>. QED BY <2>1, <3>3, <3>4, <4>1 DEF Kept, Reachable, ById, Ahead
    <3>. QED BY <2>1, <3>4, <3>5, <3>6, CoverStep
  <2>. QED BY <2>1, <2>2, <2>3
<1>7. CASE RmDelete(s)
  <2>1. /\ task[s].at = "rmDelete" /\ Return(s) /\ task[s].at \in Removing
        /\ virtualFile' = virtualFile \ ByPath("File", task[s].path)
    BY <1>7 DEF RmDelete, At, Removing
  <2>2. PICK t : task' = [task EXCEPT ![s] = t]
    BY <2>1, ReturnOK
  <2>3. ASSUME ~overlapped', NEW r \in virtualFile'
        PROVE  Kept(r, L)' \/ \E i \in DOMAIN task[s].stack : r \in task[s].stack[i]
    <3>1. r \in virtualFile /\ r \notin ByPath("File", task[s].path)
      BY <2>1
    <3>2. CASE Kept(r, L)
      <4>1. \A p \in ById(r.parentId) : p \in virtualFile'
        BY <2>1, <3>1, FileHasNone DEF ById
      <4>. QED BY <3>2, <4>1 DEF Kept, Reachable, ById
    <3>3. CASE ~Kept(r, L)
      <4>1. r.userId = User /\ Ahead(s, r)
        BY <2>1, <2>2, <2>3, <3>1, <3>3, OrphanIsUsers, Alone
      <4>. QED BY <2>1, <3>1, <4>1 DEF Ahead, ByPath
    <3>. QED BY <3>2, <3>3
  <2>4. ASSUME overlapped' PROVE CoverIn(L)'
    BY <2>4 DEF CoverIn
  <2>. QED BY <2>1, <2>3, <2>4, ReturnCover DEF Kept, Reachable, ById
<1>. QED BY <1>1, <1>2, <1>3, <1>4, <1>5, <1>6, <1>7 DEF Rmdir

LEMMA RestartCover == ASSUME TreeInv, NEW L, CoverIn(L), Restart, Observe PROVE CoverIn(L)'
<1> SUFFICES ASSUME ~overlapped'
             PROVE  /\ \A u, v \in Busy' : u = v
                    /\ \A u \in Sessions : Fresh(u)'
                    /\ Covered(L)'
  BY DEF CoverIn
<1>1. /\ task' = [s \in Sessions |-> Idle] /\ virtualFile' = virtualFile
      /\ ~overlapped /\ Busy = {}
  BY DEF Restart, Observe, TreeInv, TypeOK
<1>2. \A u \in Sessions : task'[u].at = "idle"
  BY <1>1, IdleTask
<1>3. ASSUME NEW s \in Sessions, NEW r PROVE ~Ahead(s, r)
  <2>1. task[s].at = "idle"
    BY <1>1 DEF Busy
  <2>2. DOMAIN task[s].stack = {}
    BY <2>1 DEF TreeInv, TasksOK, TaskOK, Removing
  <2>. QED BY <2>1, <2>2 DEF Ahead
<1>4. \A r \in virtualFile : Kept(r, L)
  BY <1>1, <1>3 DEF CoverIn, Covered
<1>5. Covered(L)'
  BY <1>1, <1>4 DEF Covered, Kept, Reachable, ById
<1>6. Busy' = {} /\ \A u \in Sessions : Fresh(u)'
  BY <1>2 DEF Busy, Fresh
<1>. QED BY <1>5, <1>6

\* More may be excused.
LEMMA MoreKept ==
  ASSUME NEW L, NEW M, L \subseteq M, CoverIn(L)
  PROVE  CoverIn(M)
BY DEF CoverIn, Covered, Kept

\* A refused statement leaves the contents of one directory behind: of the one that is
\* listed, or of the one in which the row is that is not removed.
LEMMA RefusedCover ==
  ASSUME TreeInv, NEW L, CoverIn(L), NEW s \in Sessions, Observe,
         CommandRefused(s) \/ StatementRefused(s)
  PROVE  \E x : CoverIn(L \cup {x})'
<1>. DEFINE P == { r \in virtualFile : r.path = task[s].path }
<1>1. PICK x : IF task[s].at = "rdList" THEN x = task[s].id
               ELSE \A r \in P : x = r.parentId
  <2>1. \A r, q \in P : r = q
    BY DEF TreeInv, RowsOK
  <2>2. CASE P = {} \/ task[s].at = "rdList"
    BY <2>2
  <2>3. CASE P # {}
    <3>1. PICK q \in P : TRUE
      BY <2>3
    <3>2. \A r \in P : q.parentId = r.parentId
      BY <2>1, <3>1
    <3>. HIDE DEF P
    <3>. QED BY <3>2
  <2>. QED BY <2>2, <2>3
<1>2. PICK M : M = L \cup {x}
  OBVIOUS
<1>3. CoverIn(M)
  BY <1>2, MoreKept
<1>4. CASE CommandRefused(s)
  <2>1. UNCHANGED <<virtualFile, cwd, task>>
    BY <1>4 DEF CommandRefused
  <2>. QED BY <1>2, <1>3, <2>1, SameCover
<1>5. CASE StatementRefused(s)
  <2>1. /\ Return(s) /\ virtualFile' = virtualFile
        /\ task[s].at \in {"cdFind", "cdUpdate", "putInsert", "rdFind", "rdDelete", "rdList",
                           "rmFind", "rmDelete"}
    BY <1>5 DEF StatementRefused
  <2>2. PICK t : task' = [task EXCEPT ![s] = t] /\ t.stack = task[s].stack
                 /\ t.at = IF t.stack = <<>> THEN "idle" ELSE "rdLoop"
    BY <2>1, ReturnOK
  <2>3. CASE task[s].at \notin Removing
    <3>1. task'[s] = t /\ t.at \in {"idle", "rdLoop"}
      BY <2>2 DEF TreeInv, TasksOK
    <3>2. Fresh(s)'
      BY <3>1 DEF Fresh
    <3>. QED BY <1>2, <1>3, <2>1, <2>2, <2>3, <3>2, PlainStep
  <2>4. CASE task[s].at \in Removing /\ ~overlapped'
    <3>1. ASSUME NEW r \in virtualFile'
          PROVE  Kept(r, M)' \/ \E i \in DOMAIN task[s].stack : r \in task[s].stack[i]
      <4>1. r \in virtualFile /\ (Kept(r, L) \/ Ahead(s, r))
        BY <2>1, <2>2, <2>4, <3>1, Alone
      <4>2. Kept(r, L) => Kept(r, M)'
        BY <1>2, <2>1 DEF Kept, Reachable, ById
      <4>3. CASE r.parentId = x
        BY <1>2, <4>3 DEF Kept
      <4>4. CASE Ahead(s, r)
        <5>1. CASE task[s].at = "rdList"
          BY <1>1, <4>3, <4>4, <5>1 DEF Ahead
        <5>2. CASE task[s].at # "rdList" /\ r.path = task[s].path
          BY <1>1, <4>1, <4>3, <5>2
        <5>. QED BY <4>4, <5>1, <5>2 DEF Ahead
      <4>. QED BY <4>1, <4>2, <4>4
    <3>. QED BY <1>2, <1>3, <2>1, <2>4, <3>1, ReturnCover
  <2>5. CASE overlapped'
    BY <2>5 DEF CoverIn
  <2>. QED BY <2>3, <2>4, <2>5
<1>. QED BY <1>4, <1>5

\* Everything else refuses nothing.
LEMMA NoneRefused ==
  ASSUME NEW s \in Sessions, Cd(s) \/ Mkdir(s) \/ Put(s) \/ Rmdir(s)
  PROVE  refused' = refused
<1>1. CASE Cd(s)
  BY <1>1 DEF Cd, CdPath, CdFind, CdUpdate
<1>2. CASE Mkdir(s)
  BY <1>2 DEF Mkdir, MkdirParent, MkdirPath, MkdirInsert
<1>3. CASE Put(s)
  BY <1>3 DEF Put, PutSelect, PutInsert
<1>4. CASE Rmdir(s)
  BY <1>4 DEF Rmdir, RmdirPath, RmdirFind, RmdirDelete, RmdirList, RmdirLoop, RmFind, RmDelete
<1>. QED BY <1>1, <1>2, <1>3, <1>4

LEMMA NextCover == TreeInv /\ CoverInv /\ [Next]_vars => CoverInv'
<1> SUFFICES ASSUME TreeInv, CoverInv, [Next]_vars PROVE CoverInv'
  OBVIOUS
<1>0. PICK L : IsFiniteSet(L) /\ Cardinality(L) <= refused /\ CoverIn(L)
  BY DEF CoverInv
<1>1. CASE UNCHANGED vars
  <2>1. CoverIn(L)' /\ refused' = refused
    BY <1>0, <1>1 DEF vars, CoverIn, Covered, Ahead, Kept, Reachable, ById, ByPath, Fresh, Busy
  <2>. QED BY <1>0, <2>1 DEF CoverInv
<1>2. ASSUME NEW s \in Sessions, Cd(s) \/ Mkdir(s) \/ Put(s) \/ Rmdir(s), Observe PROVE CoverInv'
  <2>1. CoverIn(L)' /\ refused' = refused
    BY <1>0, <1>2, CdCover, MkdirCover, PutCover, RmdirCover, NoneRefused
  <2>. QED BY <1>0, <2>1 DEF CoverInv
<1>3. ASSUME NEW s \in Sessions, CommandRefused(s) \/ StatementRefused(s), Observe PROVE CoverInv'
  <2>1. PICK x : CoverIn(L \cup {x})'
    BY <1>0, <1>3, RefusedCover
  <2>2. /\ IsFiniteSet(L \cup {x}) /\ Cardinality(L) \in Nat
        /\ Cardinality(L \cup {x}) = Cardinality(L) \/ Cardinality(L \cup {x}) = Cardinality(L) + 1
    BY <1>0, FS_AddElement, FS_CardinalityType
  <2>3. refused' = refused + 1 /\ refused \in Nat
    BY <1>3 DEF CommandRefused, StatementRefused, Refuse, TreeInv, TypeOK
  <2>4. Cardinality(L \cup {x}) <= refused'
    BY <1>0, <2>2, <2>3
  <2>. QED BY <2>1, <2>2, <2>4 DEF CoverInv
<1>4. CASE Restart /\ Observe
  <2>1. CoverIn(L)' /\ refused' = refused
    BY <1>0, <1>4, RestartCover DEF Restart
  <2>. QED BY <1>0, <2>1 DEF CoverInv
<1>. QED BY <1>1, <1>2, <1>3, <1>4 DEF Next, Done

LEMMA InitCover == Init => CoverInv
<1> SUFFICES ASSUME Init PROVE CoverInv
  OBVIOUS
<1>1. \A s \in Sessions : task[s].at = "idle"
  BY DEF Init, Idle
<1>2. \A r \in virtualFile : Reachable(r)
  <2>1. Row(1, 0, Admin, "Directory", <<"file">>).fileId = 1
        /\ Row(1, 0, Admin, "Directory", <<"file">>).parentId = 0
        /\ Row(2, 1, User, "Directory", Home).parentId = 1
    BY DEF Row
  <2>. QED BY <2>1 DEF Init, Reachable, ById
<1>3. CoverIn({})
  BY <1>1, <1>2 DEF CoverIn, Covered, Kept, Fresh, Busy
<1>4. IsFiniteSet({}) /\ Cardinality({}) = 0 /\ refused = 0
  BY FS_EmptySet DEF Init
<1>. QED BY <1>3, <1>4 DEF CoverInv

\* As long as the commands of all sessions come one after another, and no restart cuts
\* one off, rmdir leaves rows behind for one directory at most per statement that the
\* client library has refused, and none when it has refused none: it takes everything
\* below the directory, in whatever order the database hands the rows out.
THEOREM NoRowIsLost == Spec => []NoOrphans
<1>1. TreeInv /\ CoverInv => NoOrphans
  <2> SUFFICES ASSUME TreeInv, CoverInv, ~overlapped, Busy = {}
               PROVE  Cardinality(LeftBehind) <= refused
    BY DEF NoOrphans
  <2>0. PICK L : IsFiniteSet(L) /\ Cardinality(L) <= refused /\ CoverIn(L)
    BY DEF CoverInv
  <2>1. ASSUME NEW s \in Sessions, NEW r PROVE ~Ahead(s, r)
    <3>1. task[s].at = "idle"
      BY DEF Busy
    <3>2. DOMAIN task[s].stack = {}
      BY <3>1 DEF TreeInv, TasksOK, TaskOK, Removing
    <3>. QED BY <3>1, <3>2 DEF Ahead
  <2>2. \A r \in virtualFile : Kept(r, L)
    BY <2>0, <2>1 DEF CoverIn, Covered
  <2>3. LeftBehind \subseteq L
    BY <2>2 DEF LeftBehind, Kept
  <2>4. /\ Cardinality(LeftBehind) <= Cardinality(L) /\ Cardinality(LeftBehind) \in Nat
        /\ Cardinality(L) \in Nat
    BY <2>0, <2>3, FS_Subset, FS_CardinalityType
  <2>5. refused \in Nat
    BY DEF TreeInv, TypeOK
  <2>. QED BY <2>0, <2>4, <2>5
<1>2. TreeInv /\ CoverInv /\ [Next]_vars => (TreeInv /\ CoverInv)'
  BY NextTree, NextCover
<1>. QED BY <1>1, <1>2, InitTree, InitCover, PTL DEF Spec

-------------------------------------------------------------------------------
(* The configuration: ConfigInv is inductive. *)

USE ConfigTableAssumption

Positions == 0..(MAX_SIZE - 1)
Used == { i \in Positions : table[i].value # EMPTY }

\* The slots from k's own to the d-th behind it, all of them in use.
UsedBefore(k, d) == \A e \in 0..(d - 1) : table[Slot(k, e)].value # EMPTY

TableTypeOK ==
  /\ table \in [Positions -> [key : Keys \cup {NoKey}, value : Values \cup {EMPTY}]]
  /\ \A i \in Positions : table[i].value = EMPTY <=> table[i].key = NoKey
  /\ config \in [Keys -> Values \cup {EMPTY}]
  /\ index \in Positions /\ pc \in {"ready", "insert", "erase"}
  /\ pc # "ready" => key \in Keys
  /\ pc = "insert" => value \in Values

\* size counts the slots in use, and one is always free.
Counted ==
  /\ size = Cardinality(Used) /\ size <= MAX_SIZE - 1
  /\ pc = "insert" => size <= MAX_SIZE - 2

\* While no key was repeated: a slot has its key's value, and a key that has a value
\* is found by going on from its own slot.
Holds == \A i \in Positions : table[i].value # EMPTY => table[i].value = config[table[i].key]
Found ==
  \A k \in Keys : config[k] # EMPTY =>
    \E d \in Positions : table[Slot(k, d)].key = k /\ UsedBefore(k, d)
Probing ==
  pc = "insert" =>
    /\ config[key] = EMPTY
    /\ \E d \in Positions : index = Slot(key, d) /\ UsedBefore(key, d)

ConfigInv ==
  /\ TableTypeOK /\ Counted
  /\ distinct => Holds /\ Found /\ Probing /\ pc # "erase"

\* Going on by one, in the ring of n places.
LEMMA NextOf ==
  ASSUME NEW n \in Nat \ {0}, NEW x \in 0..(2 * n - 2)
  PROVE  ((x % n) + 1) % n = (x + 1) % n
<1>1. CASE x < n - 1
  <2>1. x % n = x /\ (x + 1) % n = x + 1
    BY <1>1
  <2>. QED BY <2>1
<1>2. CASE x = n - 1
  <2>1. x % n = x /\ (x + 1) % n = 0
    BY <1>2
  <2>. QED BY <2>1
<1>3. CASE x >= n
  <2>1. x % n = x - n
    BY <1>3
  <2>2. (x + 1) % n = x + 1 - n
    BY <1>3
  <2>3. (x - n + 1) % n = x - n + 1
    BY <1>3
  <2>. QED BY <2>1, <2>2, <2>3
<1>. QED BY <1>1, <1>2, <1>3

LEMMA SlotOf ==
  ASSUME NEW k \in Keys
  PROVE  /\ \A d \in Nat : Slot(k, d) \in Positions
         /\ Slot(k, 0) = hash[k]
         /\ \A d \in Positions : Next1(Slot(k, d)) = Slot(k, d + 1)
         /\ \A i \in Positions : \E d \in Positions : Slot(k, d) = i
<1>. DEFINE n == MAX_SIZE
            h == hash[k]
<1>1. n \in Nat \ {0} /\ h \in 0..(n - 1)
  OBVIOUS
<1>. HIDE DEF h, n
<1>2. \A x \in 0..(n - 1) : x % n = x
  BY <1>1
<1>3. \A x \in n..(2 * n - 1) : x % n = x - n
  BY <1>1
<1>4. \A x \in Nat : x % n \in 0..(n - 1)
  BY <1>1
<1>5. \A d \in Nat : (h + d) % n \in 0..(n - 1)
  BY <1>1, <1>4
<1>6. (h + 0) % n = h
  BY <1>1, <1>2
<1>7. ASSUME NEW d \in 0..(n - 1) PROVE (((h + d) % n) + 1) % n = (h + (d + 1)) % n
  <2>1. PICK x : x = h + d
    OBVIOUS
  <2>2. x \in 0..(2 * n - 2) /\ h + (d + 1) = x + 1
    BY <1>1, <2>1
  <2>3. ((x % n) + 1) % n = (x + 1) % n
    BY <1>1, <2>2, NextOf
  <2>. QED BY <2>1, <2>2, <2>3, Zenon
<1>8. ASSUME NEW i \in 0..(n - 1) PROVE \E d \in 0..(n - 1) : (h + d) % n = i
  <2>1. CASE i >= h
    <3>1. i - h \in 0..(n - 1) /\ h + (i - h) = i
      BY <1>1, <2>1
    <3>. QED BY <1>2, <3>1
  <2>2. CASE i < h
    <3>1. i - h + n \in 0..(n - 1) /\ h + (i - h + n) = i + n /\ i + n \in n..(2 * n - 1)
      BY <1>1, <2>2
    <3>2. (i + n) % n = i
      BY <1>1, <1>3, <3>1
    <3>. QED BY <3>1, <3>2
  <2>. QED BY <1>1, <2>1, <2>2
<1>. QED BY <1>5, <1>6, <1>7, <1>8 DEF Slot, Next1, Positions, n, h

LEMMA UsedFinite == IsFiniteSet(Used) /\ Cardinality(Positions) = MAX_SIZE /\ IsFiniteSet(Positions)
<1>1. IsFiniteSet(Positions) /\ Cardinality(Positions) = MAX_SIZE
  <2>1. MAX_SIZE \in Nat \ {0}
    OBVIOUS
  <2>. QED BY <2>1, FS_Interval DEF Positions
<1>. QED BY <1>1, FS_Subset DEF Used

\* The probing meets a free slot.
LEMMA FreeAhead ==
  ASSUME ConfigInv, NEW k \in Keys
  PROVE  \E d \in Positions : table[Slot(k, d)].value = EMPTY
<1>1. PICK i \in Positions : table[i].value = EMPTY
  <2>1. ASSUME \A i \in Positions : table[i].value # EMPTY PROVE FALSE
    <3>1. Used = Positions
      BY <2>1 DEF Used
    <3>2. size = MAX_SIZE
      BY <3>1, UsedFinite DEF ConfigInv, Counted
    <3>. QED BY <3>2 DEF ConfigInv, Counted
  <2>. QED BY <2>1
<1>. QED BY <1>1, SlotOf

LEMMA InitConfig == TableInit => ConfigInv
<1> SUFFICES ASSUME TableInit PROVE ConfigInv
  OBVIOUS
<1>. USE DEF TableInit, Free, Positions
<1>1. TableTypeOK
  BY DEF TableTypeOK
<1>2. Counted
  <2>1. Used = {}
    BY DEF Used
  <2>2. Cardinality(Used) = 0
    BY <2>1, FS_EmptySet
  <2>. QED BY <2>2 DEF Counted
<1>3. Holds /\ Found /\ Probing /\ pc # "erase"
  BY DEF Holds, Found, Probing
<1>. QED BY <1>1, <1>2, <1>3 DEF ConfigInv

LEMMA NextConfig == ConfigInv /\ [TableNext]_tableVars => ConfigInv'
<1> SUFFICES ASSUME ConfigInv, [TableNext]_tableVars PROVE ConfigInv'
  OBVIOUS
<1>. USE DEF ConfigInv
<1>0. MAX_SIZE \in Nat \ {0} /\ EMPTY \notin Values /\ NoKey \notin Keys
  OBVIOUS
<1>1. ASSUME NEW k \in Keys, NEW v \in Values, InsertBegin(k, v) PROVE ConfigInv'
  <2>1. /\ pc = "ready" /\ pc' = "insert" /\ key' = k /\ value' = v /\ index' = hash[k]
        /\ UNCHANGED <<table, size, config>> /\ size < MAX_SIZE - 1
        /\ distinct' = (distinct /\ config[k] = EMPTY)
    BY <1>1 DEF InsertBegin, Begin
  <2>2. TableTypeOK'
    BY <2>1 DEF TableTypeOK, Positions
  <2>3. Counted'
    BY <1>0, <2>1, UsedFinite, FS_CardinalityType DEF Counted, Used
  <2>4. ASSUME distinct' PROVE Holds' /\ Found' /\ Probing' /\ pc' # "erase"
    <3>1. distinct /\ config[k] = EMPTY
      BY <2>1, <2>4
    <3>2. UsedBefore(k, 0)' /\ 0 \in Positions
      BY <1>0 DEF UsedBefore, Positions
    <3>3. index' = Slot(k, 0)
      BY <2>1, SlotOf
    <3>4. Probing'
      BY <2>1, <3>1, <3>2, <3>3 DEF Probing, Slot
    <3>5. Holds' /\ Found'
      BY <2>1, <3>1 DEF Holds, Found, UsedBefore
    <3>. QED BY <2>1, <3>4, <3>5
  <2>. QED BY <2>2, <2>3, <2>4
<1>2. CASE InsertProbe
  <2>1. /\ pc = "insert" /\ table[index].value # EMPTY /\ index' = Next1(index)
        /\ UNCHANGED <<table, size, pc, key, value, config, distinct>>
    BY <1>2 DEF InsertProbe
  <2>2. index' \in Positions
    BY <1>0, <2>1 DEF Next1, Positions, TableTypeOK
  <2>3. TableTypeOK'
    BY <2>1, <2>2 DEF TableTypeOK
  <2>4. Counted'
    BY <2>1 DEF Counted, Used
  <2>5. ASSUME distinct' PROVE Holds' /\ Found' /\ Probing' /\ pc' # "erase"
    <3>1. distinct /\ key \in Keys /\ config[key] = EMPTY
      BY <2>1, <2>5 DEF Probing, TableTypeOK
    <3>2. PICK d \in Positions : index = Slot(key, d) /\ UsedBefore(key, d)
      BY <2>1, <3>1 DEF Probing
    <3>3. index' = Slot(key, d + 1)
      BY <2>1, <3>1, <3>2, SlotOf
    <3>4. UsedBefore(key, d + 1)
      BY <1>0, <2>1, <3>2 DEF UsedBefore, Positions
    <3>5. d + 1 \in Positions
      <4>1. PICK f \in Positions : table[Slot(key, f)].value = EMPTY
        BY <3>1, FreeAhead
      <4>2. f \notin 0..d
        BY <1>0, <3>4, <4>1 DEF UsedBefore, Positions
      <4>. QED BY <1>0, <4>2 DEF Positions
    <3>6. Probing'
      BY <2>1, <3>1, <3>3, <3>4, <3>5 DEF Probing, Slot, UsedBefore
    <3>. QED BY <2>1, <2>5, <3>6 DEF Holds, Found, UsedBefore
  <2>. QED BY <2>3, <2>4, <2>5
<1>3. CASE InsertUpdate
  <2>. DEFINE i == Next1(index)
  <2>1. /\ pc = "insert" /\ table[i].key = key /\ table' = [table EXCEPT ![i].value = value]
        /\ config' = [config EXCEPT ![key] = value] /\ pc' = "ready" /\ index' = 0
        /\ UNCHANGED <<size, distinct>>
    BY <1>3 DEF InsertUpdate, End
  <2>2. i \in Positions /\ 0 \in Positions
    BY <1>0 DEF Next1, Positions, TableTypeOK
  <2>. HIDE DEF i
  <2>3. key \in Keys /\ value \in Values /\ table[i].value # EMPTY
    BY <1>0, <2>1, <2>2 DEF TableTypeOK
  <2>4. table' = [j \in Positions |-> IF j = i THEN [key |-> key, value |-> value] ELSE table[j]]
    <3>1. table[i] = [key |-> table[i].key, value |-> table[i].value]
      BY <2>2 DEF TableTypeOK
    <3>2. [table[i] EXCEPT !.value = value] = [key |-> key, value |-> value]
      BY <2>1, <3>1
    <3>3. table' = [table EXCEPT ![i] = [table[i] EXCEPT !.value = value]]
      BY <2>1
    <3>. QED BY <2>2, <3>2, <3>3 DEF TableTypeOK
  <2>5. TableTypeOK'
    BY <1>0, <2>1, <2>2, <2>3, <2>4 DEF TableTypeOK
  <2>6. Used' = Used
    BY <1>0, <2>2, <2>3, <2>4 DEF Used
  <2>7. Counted'
    BY <2>1, <2>6 DEF Counted
  <2>8. ~distinct
    BY <2>1, <2>2, <2>3 DEF Holds, Probing
  <2>. QED BY <2>1, <2>5, <2>7, <2>8
<1>4. CASE InsertNew
  <2>1. /\ pc = "insert" /\ table[index].value = EMPTY
        /\ table' = [table EXCEPT ![index] = [key |-> key, value |-> value]]
        /\ size' = size + 1 /\ config' = [config EXCEPT ![key] = value]
        /\ pc' = "ready" /\ index' = 0 /\ distinct' = distinct
    BY <1>4 DEF InsertNew, End
  <2>2. key \in Keys /\ value \in Values /\ value # EMPTY /\ index \in Positions /\ 0 \in Positions
    BY <1>0, <2>1 DEF TableTypeOK, Positions
  <2>3. table' = [j \in Positions |-> IF j = index THEN [key |-> key, value |-> value] ELSE table[j]]
    BY <2>1, <2>2 DEF TableTypeOK
  <2>4. TableTypeOK'
    BY <1>0, <2>1, <2>2, <2>3 DEF TableTypeOK
  <2>5. Counted'
    <3>1. Used' = Used \cup {index} /\ index \notin Used
      BY <2>1, <2>2, <2>3 DEF Used
    <3>2. Cardinality(Used') = Cardinality(Used) + 1
      BY <3>1, UsedFinite, FS_AddElement
    <3>. QED BY <1>0, <2>1, <3>2, UsedFinite, FS_CardinalityType DEF Counted
  <2>6. ASSUME distinct PROVE Holds' /\ Found' /\ Probing' /\ pc' # "erase"
    <3>1. config[key] = EMPTY
      BY <2>1, <2>6 DEF Probing
    <3>2. config' = [k \in Keys |-> IF k = key THEN value ELSE config[k]]
      BY <2>1 DEF TableTypeOK
    <3>3. Holds'
      <4>1. ASSUME NEW j \in Positions, j # index, table[j].value # EMPTY
            PROVE  table[j].key # key /\ table[j].key \in Keys
        BY <2>6, <3>1, <4>1 DEF Holds, TableTypeOK
      <4>. QED BY <2>2, <2>3, <2>6, <3>2, <4>1 DEF Holds
    <3>4. \A k \in Keys, d \in Nat : Slot(k, d)' = Slot(k, d) /\ Slot(k, d) \in Positions
      BY SlotOf DEF Slot
    <3>5. \A k \in Keys, d \in Positions : UsedBefore(k, d) => UsedBefore(k, d)'
      <4>1. \A d \in Positions : \A e \in 0..(d - 1) : e \in Nat
        BY DEF Positions
      <4>. QED BY <2>2, <2>3, <3>4, <4>1 DEF UsedBefore
    <3>6. Found'
      <4>1. \A d \in Positions : d \in Nat
        BY DEF Positions
      <4>2. ASSUME NEW k \in Keys, k # key, config[k] # EMPTY
            PROVE  \E d \in Positions : table'[Slot(k, d)'].key = k /\ UsedBefore(k, d)'
        <5>1. PICK d \in Positions : table[Slot(k, d)].key = k /\ UsedBefore(k, d)
          BY <2>6, <4>2 DEF Found
        <5>2. Slot(k, d) # index
          BY <1>0, <2>1, <2>2, <5>1 DEF TableTypeOK
        <5>3. table'[Slot(k, d)'].key = k
          BY <2>3, <3>4, <4>1, <5>1, <5>2
        <5>. QED BY <3>5, <5>1, <5>3
      <4>5. PICK k0 \in Keys : k0 = key
        BY <2>2
      <4>3. \E d \in Positions : table'[Slot(k0, d)'].key = k0 /\ UsedBefore(k0, d)'
        <5>1. PICK d \in Positions : index = Slot(key, d) /\ UsedBefore(key, d)
          BY <2>1, <2>6 DEF Probing
        <5>2. UsedBefore(k0, d)' /\ Slot(k0, d)' = index
          BY <3>4, <3>5, <4>1, <4>5, <5>1
        <5>3. table'[index].key = k0
          BY <2>2, <2>3, <4>5
        <5>. QED BY <5>2, <5>3
      <4>4. \A k \in Keys : k # key => config'[k] = config[k]
        BY <3>2
      <4>. QED BY <4>2, <4>3, <4>4, <4>5 DEF Found
    <3>. QED BY <2>1, <3>3, <3>6 DEF Probing
  <2>. QED BY <2>1, <2>4, <2>5, <2>6
<1>5. ASSUME NEW k \in Keys, EraseBegin(k) PROVE ConfigInv'
  <2>1. /\ pc = "ready" /\ pc' = "erase" /\ key' = k /\ index' = hash[k]
        /\ UNCHANGED <<table, size, config>> /\ distinct' = FALSE
    BY <1>5 DEF EraseBegin, Begin
  <2>2. TableTypeOK'
    BY <2>1 DEF TableTypeOK, Positions
  <2>3. Counted'
    BY <2>1 DEF Counted, Used
  <2>. QED BY <2>1, <2>2, <2>3
<1>6. CASE EraseProbe
  <2>1. /\ pc = "erase" /\ index' = Next1(index)
        /\ UNCHANGED <<table, size, pc, key, value, config, distinct>>
    BY <1>6 DEF EraseProbe
  <2>2. index' \in Positions
    BY <1>0, <2>1 DEF Next1, Positions, TableTypeOK
  <2>3. TableTypeOK'
    BY <2>1, <2>2 DEF TableTypeOK
  <2>4. Counted'
    BY <2>1 DEF Counted, Used
  <2>. QED BY <2>1, <2>3, <2>4
<1>7. CASE EraseEnd
  <2>1. /\ pc = "erase" /\ config' = [config EXCEPT ![key] = EMPTY]
        /\ pc' = "ready" /\ index' = 0 /\ distinct' = distinct
    BY <1>7 DEF EraseEnd, End
  <2>2. key \in Keys /\ index \in Positions /\ 0 \in Positions
    BY <1>0, <2>1 DEF TableTypeOK, Positions
  <2>3. CASE UNCHANGED <<table, size>>
    <3>1. TableTypeOK'
      BY <2>1, <2>2, <2>3 DEF TableTypeOK
    <3>2. Counted'
      BY <2>1, <2>3 DEF Counted, Used
    <3>. QED BY <2>1, <3>1, <3>2
  <2>4. CASE /\ table[index].value # EMPTY
             /\ table' = [table EXCEPT ![index] = Free] /\ size' = size - 1
    <3>1. table' = [j \in Positions |-> IF j = index THEN Free ELSE table[j]]
      BY <2>4 DEF TableTypeOK
    <3>2. TableTypeOK'
      BY <1>0, <2>1, <2>2, <3>1 DEF TableTypeOK, Free
    <3>3. Used' = Used \ {index} /\ index \in Used
      BY <2>2, <2>4, <3>1 DEF Used, Free
    <3>4. Cardinality(Used') = Cardinality(Used) - 1
      BY <3>3, UsedFinite, FS_RemoveElement
    <3>5. Counted'
      BY <1>0, <2>1, <2>4, <3>4, UsedFinite, FS_CardinalityType DEF Counted
    <3>. QED BY <2>1, <3>2, <3>5
  <2>. QED BY <1>7, <2>3, <2>4 DEF EraseEnd
<1>8. CASE UNCHANGED tableVars
  BY <1>8 DEF tableVars, TableTypeOK, Counted, Used, Holds, Found, Probing, UsedBefore, Slot
<1>. QED BY <1>1, <1>2, <1>3, <1>4, <1>5, <1>6, <1>7, <1>8 DEF TableNext, TableDone

\* What find makes of the slots.
LEMMA FindAnswers ==
  ASSUME ConfigInv, distinct, NEW k \in Keys
  PROVE  find(k) = config[k]
<1>. DEFINE Stops(d) == table[Slot(k, d)].value = EMPTY \/ table[Slot(k, d)].key = k
            First(d) == Stops(d) /\ \A e \in 0..(d - 1) : ~Stops(e)
            S == { d \in Positions : Stops(d) }
            c == CHOOSE d \in Positions : First(d)
<1>1. S # {} /\ S \subseteq Nat
  BY FreeAhead DEF Positions
<1>2. PICK m \in S : \A x \in S : ~(x < m)
  <2>1. PICK m \in S : \A x \in S : <<x, m>> \notin OpToRel(<, Nat)
    BY <1>1, NatLessThanWellFounded, WFMin
  <2>. QED BY <1>1, <2>1 DEF OpToRel
<1>3. m \in Positions /\ First(m)
  BY <1>2 DEF Positions
<1>4. c \in Positions /\ First(c)
  BY <1>3
<1>5. find(k) = table[Slot(k, c)].value
  BY DEF find, Positions
<1>6. table[Slot(k, c)].value = config[k]
  <2>. HIDE DEF c
  <2>1. Slot(k, c) \in Positions /\ c \in Nat
    BY <1>4, SlotOf DEF Positions
  <2>2. CASE table[Slot(k, c)].value = EMPTY
    <3>1. ASSUME config[k] # EMPTY PROVE FALSE
      <4>1. PICK d \in Positions : table[Slot(k, d)].key = k /\ UsedBefore(k, d)
        BY <3>1 DEF ConfigInv, Found
      <4>2. d \notin 0..(c - 1)
        BY <1>4, <4>1
      <4>3. c \notin 0..(d - 1)
        BY <2>2, <4>1 DEF UsedBefore
      <4>4. c = d
        BY <1>4, <4>2, <4>3 DEF Positions
      <4>. QED BY <2>1, <2>2, <4>1, <4>4, ConfigTableAssumption DEF ConfigInv, TableTypeOK
    <3>. QED BY <2>2, <3>1
  <2>3. CASE table[Slot(k, c)].value # EMPTY
    <3>1. table[Slot(k, c)].key = k
      BY <1>4, <2>3
    <3>. QED BY <2>1, <2>3, <3>1 DEF ConfigInv, Holds
  <2>. QED BY <2>2, <2>3
<1>. QED BY <1>5, <1>6

\* Between operations, find answers with what a key was given last, whatever collides
\* with whatever, as long as no line of the file repeats a key; and size is the number
\* of slots in use, through every collision, update and erasure.
THEOREM TableIsRight == TableSpec => []TableInv
<1>1. ConfigInv => TableInv
  <2> SUFFICES ASSUME ConfigInv PROVE TableInv
    OBVIOUS
  <2>1. FindsDistinct
    BY FindAnswers DEF FindsDistinct, FindsLast
  <2>2. { i \in DOMAIN table : table[i].value # EMPTY } = Used
    BY DEF ConfigInv, TableTypeOK, Used
  <2>. QED BY <2>1, <2>2 DEF TableInv, SizeIsExact, ConfigInv, Counted
<1>. QED BY <1>1, InitConfig, NextConfig, PTL DEF TableSpec
===============================================================================
