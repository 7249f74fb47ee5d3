-------------------------------- MODULE DirTree --------------------------------
(***************************************************************************)
(* The directory tree of a user: the rows of virtualFile and the working   *)
(* directory in user.fileId, under cd, mkdir, rmdir and the row that puts  *)
(* adds (server/cd.c, mkdir.c, rmdir.c, dataTransfer.c, db_opration.c).    *)
(*                                                                         *)
(* Sessions are the connections one user has open; each runs one command   *)
(* at a time and they share the working directory.  A statement with the   *)
(* reading of its result is one step: there are no transactions.  On the   *)
(* shared connection the client library refuses a statement while another  *)
(* worker, of whatever user, has not fetched its result: CommandRefused    *)
(* and StatementRefused.  mkdir has a connection of its own.  (Two workers *)
(* that read each other's results are in DbConnections, see ReadsOwn.)     *)
(*                                                                         *)
(* The link counts that rm_command changes for a removed file are in       *)
(* FileStore.  Bounds: MaxTasks, MaxCrashes, MaxRefused; Args are the      *)
(* arguments the client types, Names the files it uploads.                 *)
(***************************************************************************)
EXTENDS Paths, FiniteSets

CONSTANTS Sessions, Args, Names, User, Admin, NULL, MaxTasks, MaxCrashes, MaxRefused

ASSUME DirTreeAssumption ==
  User # Admin /\ MaxTasks \in Nat /\ MaxCrashes \in Nat /\ MaxRefused \in Nat

VARIABLES
  virtualFile,  \* the rows: [fileId |-> , parentId |-> , userId |-> , type |-> , path |-> ]
  nextId,       \* the AUTO_INCREMENT value of fileId
  cwd,          \* user.fileId
  task,         \* by session: the locals of its command
  crashed,      \* the server process has died of a NULL path
  overlapped,   \* history: two sessions were busy at once, or a restart cut one off
  refused,      \* history: how many statements the client library has refused
  issued, crashes   \* counters, for the bounds

vars == <<virtualFile, nextId, cwd, task, crashed, overlapped, refused, issued, crashes>>

\* path is what the next statement looks for, stack the unread rows of the
\* open get_dir_contents results, innermost last.
Idle == [at |-> "idle", names |-> <<>>, path |-> <<>>, id |-> 0,
         owner |-> NULL, stack |-> <<>>]

Row(id, parent, owner, type, path) ==
  [fileId |-> id, parentId |-> parent, userId |-> owner, type |-> type, path |-> path]

\* The directory of all users and the user's home, as the dump has them.
Home == <<"file", "home">>

Init ==
  /\ virtualFile = { Row(1, 0, Admin, "Directory", <<"file">>),
                     Row(2, 1, User, "Directory", Home) }
  /\ nextId = 3
  /\ cwd = 2
  /\ task = [s \in Sessions |-> Idle]
  /\ crashed = FALSE /\ overlapped = FALSE
  /\ refused = 0 /\ issued = 0 /\ crashes = 0

ById(id) == { r \in virtualFile : r.fileId = id }
ByPath(type, path) ==
  { r \in virtualFile : r.type = type /\ r.userId = User /\ r.path = path }
TheRow(rows) == CHOOSE r \in rows : TRUE

\* get_user_pwd: an empty string when there is no such row any more.
pwd == IF ById(cwd) = {} THEN <<>> ELSE TheRow(ById(cwd)).path

At(s, label) == ~crashed /\ task[s].at = label
Goto(s, label) == task' = [task EXCEPT ![s].at = label]
Finish(s) == task' = [task EXCEPT ![s] = Idle]

\* An INSERT fails on a path that is taken.
Insert(parent, owner, type, path) ==
  IF \E r \in virtualFile : r.path = path
  THEN UNCHANGED <<virtualFile, nextId>>
  ELSE /\ virtualFile' = virtualFile \cup {Row(nextId, parent, owner, type, path)}
       /\ nextId' = nextId + 1

Start(s) == At(s, "idle") /\ issued < MaxTasks /\ issued' = issued + 1

-------------------------------------------------------------------------------
(* cd *)

\* The working directory is looked up and the argument resolved against it; a
\* NULL path is reported, and then used.
CdPath(s, arg) ==
  /\ Start(s)
  /\ LET whole == get_whole_path(arg, pwd, NULL) IN
       /\ crashed' = (whole = NULL)
       /\ task' = IF whole = NULL THEN task
                  ELSE [task EXCEPT ![s] = [Idle EXCEPT !.at = "cdFind",
                                                        !.path = WithoutSlash(whole)]]
  /\ UNCHANGED <<virtualFile, nextId, cwd, refused, crashes>>

\* Mutant of CdFind: the owner is not asked for.
CdFindAnyOwner(s) ==
  /\ At(s, "cdFind")
  /\ LET Rows == { r \in virtualFile : r.type = "Directory" /\ r.path = task[s].path } IN
       IF Rows = {} THEN Finish(s)
       ELSE task' = [task EXCEPT ![s].at = "cdUpdate", ![s].id = TheRow(Rows).fileId]
  /\ UNCHANGED <<virtualFile, nextId, cwd, crashed, refused, issued, crashes>>

\* upd_dir_in_u: the SELECT ...
CdFind(s) ==
  /\ At(s, "cdFind")
  /\ LET Rows == ByPath("Directory", task[s].path) IN
       IF Rows = {} THEN Finish(s)
       ELSE task' = [task EXCEPT ![s].at = "cdUpdate", ![s].id = TheRow(Rows).fileId]
  /\ UNCHANGED <<virtualFile, nextId, cwd, crashed, refused, issued, crashes>>

\* ... and the UPDATE.
CdUpdate(s) ==
  /\ At(s, "cdUpdate")
  /\ cwd' = task[s].id
  /\ Finish(s)
  /\ UNCHANGED <<virtualFile, nextId, crashed, refused, issued, crashes>>

-------------------------------------------------------------------------------
(* mkdir, on a connection of its own *)

\* fetch_dir_info: the working directory's id is to be the parent, whatever the
\* argument.  (The path it reads as well is overwritten.)
MkdirParent(s, arg) ==
  /\ Start(s)
  /\ task' = [task EXCEPT ![s] = [Idle EXCEPT !.at = "mkPath", !.names = Spelled(arg),
                                                !.id = cwd]]
  /\ UNCHANGED <<virtualFile, nextId, cwd, crashed, refused, crashes>>

\* parseAndHandlePath: the path of the working directory, or of its parent for
\* "../", with the argument behind it.  When there is no such row the path is
\* NULL, and is copied.
MkdirPath(s) ==
  /\ At(s, "mkPath")
  /\ LET names == task[s].names
         Base  == IF ClimbsOnce(names)
                  THEN UNION { ById(r.parentId) : r \in ById(cwd) }
                  ELSE ById(cwd)
     IN  IF Base = {}
         THEN crashed' = TRUE /\ UNCHANGED task
         ELSE /\ task' = [task EXCEPT ![s].at = "mkInsert",
                                      ![s].path = TheRow(Base).path \o SubPath(names)]
              /\ UNCHANGED crashed
  /\ UNCHANGED <<virtualFile, nextId, cwd, refused, issued, crashes>>

\* insertDirInfo.
MkdirInsert(s) ==
  /\ At(s, "mkInsert")
  /\ Insert(task[s].id, User, "Directory", task[s].path)
  /\ Finish(s)
  /\ UNCHANGED <<cwd, crashed, refused, issued, crashes>>

-------------------------------------------------------------------------------
(* The row of an uploaded file *)

\* get_fileMess: id, owner and path of the working directory.  Without such a row
\* the INSERT has a user 0 and fails.
PutSelect(s, n) ==
  /\ Start(s)
  /\ IF ById(cwd) = {} THEN UNCHANGED task
     ELSE LET d == TheRow(ById(cwd)) IN
          task' = [task EXCEPT ![s] = [Idle EXCEPT !.at = "putInsert", !.id = d.fileId,
                                         !.owner = d.userId, !.path = Append(d.path, n)]]
  /\ UNCHANGED <<virtualFile, nextId, cwd, crashed, refused, crashes>>

PutInsert(s) ==
  /\ At(s, "putInsert")
  /\ Insert(task[s].id, task[s].owner, "File", task[s].path)
  /\ Finish(s)
  /\ UNCHANGED <<cwd, crashed, refused, issued, crashes>>

-------------------------------------------------------------------------------
(* rmdir *)

RmdirPath(s, arg) ==
  /\ Start(s)
  /\ LET whole == get_whole_path(arg, pwd, NULL) IN
       /\ crashed' = (whole = NULL)
       /\ task' = IF whole = NULL THEN task
                  ELSE [task EXCEPT ![s] = [Idle EXCEPT !.at = "rdFind", !.path = whole]]
  /\ UNCHANGED <<virtualFile, nextId, cwd, refused, crashes>>

\* What rmdir_command and rm_command return to: the loop of the caller.
Return(s) ==
  IF task[s].stack = <<>> THEN Finish(s) ELSE Goto(s, "rdLoop")

\* Mutant of RmdirFind: a directory that is not there is not an error.
RmdirFindUnchecked(s) ==
  /\ At(s, "rdFind")
  /\ LET Rows == ByPath("Directory", task[s].path) IN
       task' = [task EXCEPT ![s].at = "rdDelete",
                            ![s].id = IF Rows = {} THEN -1 ELSE TheRow(Rows).fileId]
  /\ UNCHANGED <<virtualFile, nextId, cwd, crashed, refused, issued, crashes>>

\* del_dir_v: the SELECT; a directory that is not there is an error, which the
\* caller's loop does not look at ...
RmdirFind(s) ==
  /\ At(s, "rdFind")
  /\ LET Rows == ByPath("Directory", task[s].path) IN
       IF Rows = {} THEN Return(s)
       ELSE task' = [task EXCEPT ![s].at = "rdDelete", ![s].id = TheRow(Rows).fileId]
  /\ UNCHANGED <<virtualFile, nextId, cwd, crashed, refused, issued, crashes>>

\* ... and the DELETE: the directory goes first, its contents after it.
RmdirDelete(s) ==
  /\ At(s, "rdDelete")
  /\ virtualFile' = virtualFile \ ByPath("Directory", task[s].path)
  /\ Goto(s, "rdList")
  /\ UNCHANGED <<nextId, cwd, crashed, refused, issued, crashes>>

\* get_dir_contents: the rows of the directory, whoever owns them.
Children(id) == { r \in virtualFile : r.parentId = id }

\* Mutant of RmdirList: subdirectories are left out.
RmdirListFiles(s) ==
  /\ At(s, "rdList")
  /\ task' = [task EXCEPT ![s].at = "rdLoop",
                ![s].stack = Append(@, { r \in Children(task[s].id) : r.type = "File" })]
  /\ UNCHANGED <<virtualFile, nextId, cwd, crashed, refused, issued, crashes>>

RmdirList(s) ==
  /\ At(s, "rdList")
  /\ task' = [task EXCEPT ![s].at = "rdLoop", ![s].stack = Append(@, Children(task[s].id))]
  /\ UNCHANGED <<virtualFile, nextId, cwd, crashed, refused, issued, crashes>>

\* The next row of the innermost result, whose order no ORDER BY fixes: rm_command for
\* a file, rmdir_command for a directory; at its end the call returns.
RmdirLoop(s) ==
  /\ At(s, "rdLoop")
  /\ LET stack == task[s].stack
         rows  == Last(stack)
     IN  \/ /\ rows = {}
            /\ task' = IF Len(stack) = 1 THEN [task EXCEPT ![s] = Idle]
                       ELSE [task EXCEPT ![s].stack = Front(stack)]
         \/ \E r \in rows :
              task' = [task EXCEPT
                ![s].stack = Append(Front(stack), rows \ {r}),
                ![s].path = r.path,
                ![s].at = IF r.type = "File" THEN "rmFind" ELSE "rdFind"]
  /\ UNCHANGED <<virtualFile, nextId, cwd, crashed, refused, issued, crashes>>

\* del_file_in_v: the SELECT ...
RmFind(s) ==
  /\ At(s, "rmFind")
  /\ IF ByPath("File", task[s].path) = {} THEN Return(s) ELSE Goto(s, "rmDelete")
  /\ UNCHANGED <<virtualFile, nextId, cwd, crashed, refused, issued, crashes>>

\* ... and the DELETE.
RmDelete(s) ==
  /\ At(s, "rmDelete")
  /\ virtualFile' = virtualFile \ ByPath("File", task[s].path)
  /\ Return(s)
  /\ UNCHANGED <<nextId, cwd, crashed, refused, issued, crashes>>

-------------------------------------------------------------------------------
(* Refused statements *)

Refuse == refused < MaxRefused /\ refused' = refused + 1

\* The first statement of a command.  For cd and rmdir get_user_pwd returns NULL,
\* which is reported and then copied; puts goes on with a user 0, as PutSelect does.
CommandRefused(s) ==
  /\ Start(s) /\ Refuse
  /\ crashed' \in {crashed, TRUE}
  /\ UNCHANGED <<virtualFile, nextId, cwd, task, crashes>>

\* A later one: it is reported and the function returns.  The directory keeps its row,
\* or its contents keep theirs, and rmdir goes on behind them.
StatementRefused(s) ==
  /\ ~crashed /\ Refuse
  /\ task[s].at \in {"cdFind", "cdUpdate", "putInsert", "rdFind", "rdDelete", "rdList",
                     "rmFind", "rmDelete"}
  /\ Return(s)
  /\ UNCHANGED <<virtualFile, nextId, cwd, crashed, issued, crashes>>

-------------------------------------------------------------------------------
\* The server is killed between two statements and started again.
Restart ==
  /\ ~crashed /\ crashes < MaxCrashes
  /\ task' = [s \in Sessions |-> Idle]
  /\ crashes' = crashes + 1
  /\ UNCHANGED <<virtualFile, nextId, cwd, crashed, refused, issued>>

Done ==
  /\ crashed \/ (issued = MaxTasks /\ \A s \in Sessions : task[s].at = "idle")
  /\ UNCHANGED vars

Cd(s) == (\E arg \in Args : CdPath(s, arg)) \/ CdFind(s) \/ CdUpdate(s)
Mkdir(s) == (\E arg \in Args : MkdirParent(s, arg)) \/ MkdirPath(s) \/ MkdirInsert(s)
Put(s) == (\E n \in Names : PutSelect(s, n)) \/ PutInsert(s)
Rmdir(s) ==
  \/ \E arg \in Args : RmdirPath(s, arg)
  \/ RmdirFind(s) \/ RmdirDelete(s) \/ RmdirList(s) \/ RmdirLoop(s)
  \/ RmFind(s) \/ RmDelete(s)

Busy == { s \in Sessions : task[s].at # "idle" }

\* What the history variable makes of a step.
Observe ==
  overlapped' = \/ overlapped
                \/ \E s, t \in Busy' : s # t
                \/ crashes' # crashes /\ Busy # {}

Next ==
  \/ /\ \/ \E s \in Sessions :
             Cd(s) \/ Mkdir(s) \/ Put(s) \/ Rmdir(s) \/ CommandRefused(s) \/ StatementRefused(s)
        \/ Restart
     /\ Observe
  \/ Done

Spec == Init /\ [][Next]_vars

-------------------------------------------------------------------------------
(* Correctness *)

Labels == {"idle", "cdFind", "cdUpdate", "mkPath", "mkInsert", "putInsert",
           "rdFind", "rdDelete", "rdList", "rdLoop", "rmFind", "rmDelete"}

RowOK(r) ==
  /\ r.fileId \in 1..(nextId - 1) /\ r.parentId \in 0..(nextId - 1)
  /\ r.userId \in {User, Admin} /\ r.type \in {"Directory", "File"}

TypeOK ==
  /\ \A r \in virtualFile : RowOK(r)
  /\ nextId \in Nat /\ cwd \in 1..(nextId - 1)
  /\ \A s \in Sessions : /\ task[s].at \in Labels
                         /\ task[s].id \in 0..(nextId - 1)
                         /\ \A i \in DOMAIN task[s].stack :
                              \A r \in task[s].stack[i] : RowOK(r)
  /\ crashed \in BOOLEAN /\ overlapped \in BOOLEAN
  /\ refused \in Nat /\ issued \in Nat /\ crashes \in Nat

\* The working directory, while its row exists, is a directory of the user, even
\* when cd's UPDATE comes after somebody else's rmdir or cd: what puts and mkdir
\* take from it is never a file's, nor somebody else's.
OwnCwd == \A r \in ById(cwd) : r.type = "Directory" /\ r.userId = User

\* Every row belongs to the owner of the directory it is in: puts takes the owner
\* of the working directory, mkdir the user and the directory's id from different
\* statements, and rmdir, which deletes with the user's id, passes over nothing.
SameOwner ==
  \A r, d \in virtualFile :
    d.fileId = r.parentId /\ r.fileId # 2 => d.type = "Directory" /\ d.userId = r.userId

\* Together: no interleaving of two sessions leads out of the user's own rows.
OwnRows == TypeOK /\ OwnCwd /\ SameOwner

Reachable(r) == r.parentId = 0 \/ ById(r.parentId) # {}

\* When no command is running, no row is left whose parent is gone: rmdir takes
\* everything below, whatever "../" put there (rmdir.c:90 "delete all files of the
\* directory", 94 "recursively delete all directories of the directory").
AllReachable == Busy = {} => \A r \in virtualFile : Reachable(r)

\* The directories that are gone and have left rows behind.
LeftBehind == { r.parentId : r \in { q \in virtualFile : ~Reachable(q) } }

\* While the commands of the user's sessions come one after another and no restart cuts
\* one off, rmdir leaves the contents of a directory behind only where the library
\* refused one of its statements, and one refused statement costs one directory at
\* most: rmdir goes on with the rest (rmdir.c:61-74, 92-99).
NoOrphans == ~overlapped /\ Busy = {} => Cardinality(LeftBehind) <= refused

\* README.md:14, user.fileId: "the virtual path the user is in now (pwd)".
CwdExists == ById(cwd) # {}

\* path_handler.c:253 "when pwd is at the bottom of the stack and there is still
\* a .., leave with an error": a bad path does not end the server.
BadPathIsReported == ~crashed
===============================================================================
