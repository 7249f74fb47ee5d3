------------------------------- MODULE FileStore -------------------------------
(***************************************************************************)
(* The stored files of the server: the tables globalFile and virtualFile   *)
(* and the files on disk, as the workers that run puts, gets and rm change *)
(* them (server/puts.c, gets.c, rm.c, dataTransfer.c, db_opration.c).      *)
(*                                                                         *)
(* Nothing encloses the statements of a command in a transaction: each     *)
(* mysql_query commits by itself, and a statement with the reading of its  *)
(* result is the atomic step here.  All workers share one connection       *)
(* without a lock, and a statement that meets the pending result of        *)
(* another worker is refused there (DbConnections): StatementRefused and   *)
(* SelectRefused are what the code does then.                              *)
(*                                                                         *)
(* A content is known by its hash and has Size chunks; its file on disk is *)
(* named by the hash, so that equal contents share one file.  A path is a  *)
(* virtual path in the user's current directory; DirTree has directories.  *)
(*                                                                         *)
(* Bounds: MaxTasks, MaxRm (rm commands in progress at one time),          *)
(* MaxHangups, MaxResets, MaxCrashes, MaxRefused.                          *)
(***************************************************************************)
EXTENDS Integers, Sequences, FiniteSets, FiniteSetsExt

CONSTANTS Workers, Paths, Hashes,
          Size,         \* chunks in a content
          NULL,
          MaxTasks, MaxRm, MaxHangups, MaxResets, MaxCrashes, MaxRefused

ASSUME FileStoreAssumption ==
  /\ Size \in Nat \ {0} /\ IsFiniteSet(Workers)
  /\ NULL \notin Paths /\ NULL \notin Hashes /\ NULL \notin Nat
  /\ \A n \in 0..Size : NULL # [i \in 1..n |-> i]
  /\ MaxTasks \in Nat /\ MaxRm \in Nat
  /\ MaxHangups \in Nat /\ MaxResets \in Nat /\ MaxCrashes \in Nat /\ MaxRefused \in Nat

VARIABLES
  globalFile,   \* rows by hashId: [hash |-> , linkCount |-> , lastLinkTime |-> ]
  virtualFile,  \* by path: the row [hashId |-> , fileSize |-> ], or NULL
  disk,         \* by hash: the chunks of the file on disk, or NULL
  task,         \* by worker: the locals of the command it runs
  issued, hangups, resets, crashes,  \* counters, for the bounds
  refused       \* the statements that were refused

counters == <<issued, hangups, resets, crashes, refused>>
vars == <<globalFile, virtualFile, disk, task, counters>>

Idle == [at |-> "idle", path |-> NULL, hash |-> NULL, hashId |-> 0,
         st_size |-> 0, len |-> 0, left |-> 0]

Whole == [i \in 1..Size |-> i]   \* the file of a complete upload
Prefix(n) == [i \in 1..n |-> i]

At(w, label) == task[w].at = label
Goto(w, label) == task' = [task EXCEPT ![w].at = label]
Finish(w) == task' = [task EXCEPT ![w] = Idle]

Init ==
  /\ globalFile = <<>>
  /\ virtualFile = [p \in Paths |-> NULL]
  /\ disk = [h \in Hashes |-> NULL]
  /\ task = [w \in Workers |-> Idle]
  /\ issued = 0 /\ hangups = 0 /\ resets = 0 /\ crashes = 0
  /\ refused = 0

-------------------------------------------------------------------------------
(* puts *)

\* The client names the file and sends its hash; the server opens the file of
\* that hash, at its end, and answers with its size.
PutsOpen(w, p, h) ==
  /\ At(w, "idle") /\ issued < MaxTasks
  /\ LET size == IF disk[h] = NULL THEN 0 ELSE Len(disk[h]) IN
       /\ disk' = [disk EXCEPT ![h] = IF @ = NULL THEN <<>> ELSE @]
       /\ task' = [task EXCEPT ![w] =
                     [Idle EXCEPT !.at = "len", !.path = p, !.hash = h, !.st_size = size]]
  /\ issued' = issued + 1
  /\ UNCHANGED <<globalFile, virtualFile, hangups, resets, crashes, refused>>

\* The client answers with the length that is missing.  0 is an instant upload.
PutsLen(w) ==
  /\ At(w, "len")
  /\ LET len == Size - task[w].st_size IN
       task' = [task EXCEPT ![w].at = IF len = 0 THEN "getId" ELSE "recv",
                            ![w].len = len, ![w].left = len]
  /\ UNCHANGED <<globalFile, virtualFile, disk, counters>>

\* The client has hung up: recvn leaves len at 0, which is taken for the answer.
PutsLenHangup(w) ==
  /\ At(w, "len") /\ hangups < MaxHangups
  /\ Goto(w, "getId")
  /\ hangups' = hangups + 1
  /\ UNCHANGED <<globalFile, virtualFile, disk, issued, resets, crashes, refused>>

\* The chunk after the ones the client has sent goes to the file position, which
\* started at st_size.
Written(f, pos, chunk) == IF pos <= Len(f) THEN [f EXCEPT ![pos] = chunk] ELSE Append(f, chunk)

\* Mutant of RecvChunk: the file position starts at 0, the lseek is missing.
RecvChunkNoSeek(w) ==
  /\ At(w, "recv") /\ task[w].left > 0
  /\ LET t == task[w] IN
       /\ disk' = [disk EXCEPT ![t.hash] =
                     Written(@, t.len - t.left + 1, Size - t.left + 1)]
       /\ task' = [task EXCEPT ![w].left = @ - 1]
  /\ UNCHANGED <<globalFile, virtualFile, counters>>

\* Mutant of RecvChunk: the loop runs once too often.
RecvChunkPast(w) ==
  /\ At(w, "recv") /\ task[w].left >= 0
  /\ LET t == task[w] IN
       /\ disk' = [disk EXCEPT ![t.hash] =
                     Written(@, t.st_size + t.len - t.left + 1, Size - t.left + 1)]
       /\ task' = [task EXCEPT ![w].left = @ - 1]
  /\ UNCHANGED <<globalFile, virtualFile, counters>>

RecvChunk(w) ==
  /\ At(w, "recv") /\ task[w].left > 0
  /\ LET t == task[w] IN
       /\ disk' = [disk EXCEPT ![t.hash] =
                     Written(@, t.st_size + t.len - t.left + 1, Size - t.left + 1)]
       /\ task' = [task EXCEPT ![w].left = @ - 1]
  /\ UNCHANGED <<globalFile, virtualFile, counters>>

\* Mutant of RecvEnd: the last chunk is not waited for.
RecvEndEarly(w) ==
  /\ At(w, "recv") /\ task[w].left <= 1
  /\ Goto(w, "addGlob")
  /\ UNCHANGED <<globalFile, virtualFile, disk, counters>>

RecvEnd(w) ==
  /\ At(w, "recv") /\ task[w].left = 0
  /\ Goto(w, "addGlob")
  /\ UNCHANGED <<globalFile, virtualFile, disk, counters>>

\* The client hangs up during the transfer: recvn returns 0 from now on, 0 bytes
\* are written, and recvfile goes round for ever.
RecvHangup(w) ==
  /\ At(w, "recv") /\ task[w].left > 0 /\ hangups < MaxHangups
  /\ Goto(w, "spin")
  /\ hangups' = hangups + 1
  /\ UNCHANGED <<globalFile, virtualFile, disk, issued, resets, crashes, refused>>

\* The connection is reset: recvn returns -1, which ends the loop like success.
RecvReset(w) ==
  /\ At(w, "recv") /\ task[w].left > 0 /\ resets < MaxResets
  /\ Goto(w, "addGlob")
  /\ resets' = resets + 1
  /\ UNCHANGED <<globalFile, virtualFile, disk, issued, hangups, crashes, refused>>

\* add_globFile, where the INSERT runs: a new row, whether or not the hash has one.
AddGlobFile(w) ==
  /\ At(w, "addGlob")
  /\ globalFile' = Append(globalFile,
                     [hash |-> task[w].hash, linkCount |-> 1, lastLinkTime |-> NULL])
  /\ Goto(w, "getId")
  /\ UNCHANGED <<virtualFile, disk, counters>>

\* The rows that `where hash = ...` and `where hashId = ...` select.
RowsOf(h) == { i \in DOMAIN globalFile : globalFile[i].hash = h }

\* get_hashId: the last row of the hash, 0 when there is none.
GetHashId(w) ==
  /\ At(w, "getId")
  /\ LET Rows == RowsOf(task[w].hash) IN
       task' = [task EXCEPT ![w].at = "insert",
                            ![w].hashId = IF Rows = {} THEN 0 ELSE Max(Rows)]
  /\ UNCHANGED <<globalFile, virtualFile, disk, counters>>

\* The INSERT of add_virtual, which fails on a path that is taken and on a
\* hashId that no globalFile row has; nothing asks whether it did.
AddVirtual(w) ==
  /\ At(w, "insert")
  /\ LET t == task[w]
         instant == t.len = 0
         size == IF instant THEN t.st_size ELSE t.len
     IN  /\ virtualFile' =
              IF virtualFile[t.path] = NULL /\ t.hashId \in DOMAIN globalFile
              THEN [virtualFile EXCEPT ![t.path] = [hashId |-> t.hashId, fileSize |-> size]]
              ELSE virtualFile
         /\ IF instant THEN Goto(w, "link") ELSE Finish(w)
  /\ UNCHANGED <<globalFile, disk, counters>>

\* Mutant of UpdataLink: the count is left alone.
UpdataTimeOnly(w) ==
  /\ At(w, "link")
  /\ globalFile' = [i \in DOMAIN globalFile |->
                      IF i \in RowsOf(task[w].hash)
                      THEN [globalFile[i] EXCEPT !.lastLinkTime = NULL]
                      ELSE globalFile[i]]
  /\ Finish(w)
  /\ UNCHANGED <<virtualFile, disk, counters>>

\* updata_link, where the UPDATE runs: every row of the hash counts one link more.
UpdataLink(w) ==
  /\ At(w, "link")
  /\ globalFile' = [i \in DOMAIN globalFile |->
                      IF i \in RowsOf(task[w].hash)
                      THEN [globalFile[i] EXCEPT !.linkCount = @ + 1, !.lastLinkTime = NULL]
                      ELSE globalFile[i]]
  /\ Finish(w)
  /\ UNCHANGED <<virtualFile, disk, counters>>

-------------------------------------------------------------------------------
(* rm *)

InRm == { w \in Workers : task[w].at \in {"rmDelete", "rmCount", "rmRead", "rmTime"} }

\* del_file_in_v, its SELECT: a path that is not there ends the command.
RmSelect(w, p) ==
  /\ At(w, "idle") /\ issued < MaxTasks /\ Cardinality(InRm) < MaxRm
  /\ IF virtualFile[p] = NULL
     THEN UNCHANGED task
     ELSE task' = [task EXCEPT ![w] = [Idle EXCEPT !.at = "rmDelete", !.path = p,
                                                   !.hashId = virtualFile[p].hashId]]
  /\ issued' = issued + 1
  /\ UNCHANGED <<globalFile, virtualFile, disk, hangups, resets, crashes, refused>>

\* ... and its DELETE, by path, whatever row that is by now.
RmDelete(w) ==
  /\ At(w, "rmDelete")
  /\ virtualFile' = [virtualFile EXCEPT ![task[w].path] = NULL]
  /\ Goto(w, "rmCount")
  /\ UNCHANGED <<globalFile, disk, counters>>

\* del_file_in_g: linkCount - 1 ...
RmCount(w) ==
  /\ At(w, "rmCount")
  /\ globalFile' = [globalFile EXCEPT ![task[w].hashId].linkCount = @ - 1]
  /\ Goto(w, "rmRead")
  /\ UNCHANGED <<virtualFile, disk, counters>>

\* ... and the count is read again.  A count of -1 would end the command too: it
\* is the error value of del_file_in_g.
RmRead(w) ==
  /\ At(w, "rmRead")
  /\ IF globalFile[task[w].hashId].linkCount = 0 THEN Goto(w, "rmTime") ELSE Finish(w)
  /\ UNCHANGED <<globalFile, virtualFile, disk, counters>>

\* upd_file_in_g: the row is marked with the time of its last unlink.
RmTime(w) ==
  /\ At(w, "rmTime")
  /\ globalFile' = [globalFile EXCEPT ![task[w].hashId].lastLinkTime = "NOW"]
  /\ Finish(w)
  /\ UNCHANGED <<virtualFile, disk, counters>>

-------------------------------------------------------------------------------
(* gets *)

\* exit_file: the hash of the path's row, if there is one.
GetsSelect(w, p) ==
  /\ At(w, "idle") /\ issued < MaxTasks
  /\ IF virtualFile[p] = NULL
     THEN UNCHANGED task
     ELSE task' = [task EXCEPT ![w] = [Idle EXCEPT !.at = "getsOpen", !.path = p,
                     !.hash = globalFile[virtualFile[p].hashId].hash]]
  /\ issued' = issued + 1
  /\ UNCHANGED <<globalFile, virtualFile, disk, hangups, resets, crashes, refused>>

\* The file is opened and what the client lacks of it is announced.
GetsOpen(w) ==
  /\ At(w, "getsOpen")
  /\ IF disk[task[w].hash] = NULL
     THEN Finish(w)
     ELSE \E offSize \in 0..Size :
            task' = [task EXCEPT ![w].at = "send", ![w].st_size = offSize,
                                 ![w].len = Len(disk[task[w].hash]) - offSize]
  /\ UNCHANGED <<globalFile, virtualFile, disk, counters>>

\* The file has been sent, or the client hung up and sendn failed.
GetsSent(w) ==
  /\ At(w, "send")
  /\ Finish(w)
  /\ UNCHANGED <<globalFile, virtualFile, disk, counters>>

-------------------------------------------------------------------------------
(* The shared connection *)

\* A statement is refused and changes nothing.  puts goes on without a word:
\* add_globFile and updata_link leave the link uncounted, get_hashId leaves hashId
\* at 0, and get_fileMess or the INSERT of add_virtual leaves the path unlisted.
\* del_file_in_v, del_file_in_g and upd_file_in_g return -1, which ends rm.
StatementRefused(w) ==
  /\ refused < MaxRefused
  /\ \/ At(w, "addGlob") /\ Goto(w, "getId")
     \/ At(w, "getId") /\ task' = [task EXCEPT ![w].at = "insert", ![w].hashId = 0]
     \/ At(w, "insert") /\ IF task[w].len = 0 THEN Goto(w, "link") ELSE Finish(w)
     \/ At(w, "link") /\ Finish(w)
     \/ w \in InRm /\ Finish(w)
  /\ refused' = refused + 1
  /\ UNCHANGED <<globalFile, virtualFile, disk, issued, hangups, resets, crashes>>

\* The SELECT that begins a command is refused.  del_file_in_v returns an error.
\* exit_file goes on and takes the result that is pending: what it takes for the
\* hash is no file's name, or the hash that another gets has asked for.
SelectRefused(w) ==
  /\ At(w, "idle") /\ issued < MaxTasks /\ refused < MaxRefused
  /\ \/ UNCHANGED task
     \/ \E i \in DOMAIN globalFile :
          task' = [task EXCEPT ![w] = [Idle EXCEPT !.at = "getsOpen",
                                                   !.hash = globalFile[i].hash]]
  /\ issued' = issued + 1 /\ refused' = refused + 1
  /\ UNCHANGED <<globalFile, virtualFile, disk, hangups, resets, crashes>>

-------------------------------------------------------------------------------
\* The server process dies (an error in splice ends it too) and is started
\* again: the tables and the files are what is left.
Crash ==
  /\ crashes < MaxCrashes
  /\ task' = [w \in Workers |-> Idle]
  /\ crashes' = crashes + 1
  /\ UNCHANGED <<globalFile, virtualFile, disk, issued, hangups, resets, refused>>

\* No client has a command left, and every worker is idle or spins.
Quiet == issued = MaxTasks /\ \A w \in Workers : task[w].at \in {"idle", "spin"}
Done == Quiet /\ UNCHANGED vars

Puts(w) ==
  \/ \E p \in Paths, h \in Hashes : PutsOpen(w, p, h)
  \/ PutsLen(w) \/ PutsLenHangup(w)
  \/ RecvChunk(w) \/ RecvEnd(w) \/ RecvHangup(w) \/ RecvReset(w)
  \/ AddGlobFile(w) \/ GetHashId(w) \/ AddVirtual(w) \/ UpdataLink(w)

Rm(w) ==
  \/ \E p \in Paths : RmSelect(w, p)
  \/ RmDelete(w) \/ RmCount(w) \/ RmRead(w) \/ RmTime(w)

Gets(w) ==
  \/ \E p \in Paths : GetsSelect(w, p)
  \/ GetsOpen(w) \/ GetsSent(w)

Next ==
  \/ \E w \in Workers : Puts(w) \/ Rm(w) \/ Gets(w)
  \/ \E w \in Workers : StatementRefused(w) \/ SelectRefused(w)
  \/ Crash
  \/ Done

Spec == Init /\ [][Next]_vars

-------------------------------------------------------------------------------
(* Correctness *)

Labels == {"idle", "len", "recv", "spin", "addGlob", "getId", "insert", "link",
           "rmDelete", "rmCount", "rmRead", "rmTime", "getsOpen", "send"}

Locals == [at : Labels, path : Paths \cup {NULL}, hash : Hashes \cup {NULL},
           hashId : Nat, st_size : 0..Size, len : Int, left : 0..Size]

GlobalRow == [hash : Hashes, linkCount : Int, lastLinkTime : {NULL, "NOW"}]

TypeOK ==
  /\ globalFile \in Seq(GlobalRow)
  /\ virtualFile \in [Paths -> {NULL} \cup [hashId : Nat, fileSize : 0..Size]]
  /\ disk \in [Hashes -> {NULL} \cup Seq(1..Size)]
  /\ task \in [Workers -> Locals]
  /\ issued \in Nat /\ hangups \in Nat /\ resets \in Nat /\ crashes \in Nat
  /\ refused \in Nat

Listed(h) ==
  { p \in Paths : /\ virtualFile[p] # NULL
                  /\ globalFile[virtualFile[p].hashId].hash = h }

\* A path that is listed has all of its content on disk, whoever uploads the same
\* content at the same time, from whatever offset, and whoever hangs up or
\* crashes half-way, as long as no connection is reset during an upload: recvfile
\* takes a reset for the end of the file.
ListedIsStored == resets = 0 => \A h \in Hashes : Listed(h) # {} => disk[h] = Whole

\* What gets announces and sends brings the client's file to its full size, even
\* when the path is removed between the query and the open; again until a reset.
SentIsWhole ==
  resets = 0 => \A w \in Workers : At(w, "send") => task[w].st_size + task[w].len = Size

\* The sum of the link counts of a content's rows: one element for every link of a row,
\* less one for every link that a row is short of 0.
Above(count, Rows) == UNION { {i} \X (1..count[i]) : i \in Rows }
Below(count, Rows) == UNION { {i} \X (1..(-count[i])) : i \in Rows }
Sum(count, Rows) == Cardinality(Above(count, Rows)) - Cardinality(Below(count, Rows))

Links(h) == Sum([i \in DOMAIN globalFile |-> globalFile[i].linkCount], RowsOf(h))

\* The workers that are to add a link to h, and those that removed one from
\* virtualFile and have not counted it yet.
Adding(h)   == { w \in Workers : At(w, "link") /\ task[w].hash = h }
Removing(h) == { w \in Workers : At(w, "rmCount") /\ globalFile[task[w].hashId].hash = h }

\* The link counts of a content fall below the number of its paths by at most one
\* for every statement that was refused, however the statements of uploads
\* interleave and whoever hangs up, as long as removals come one at a time
\* (MaxRm = 1) and no crash falls between two statements.  In particular a file in
\* use never counts as free for all of its rows until a statement is refused, as
\* the INSERT of add_globFile or the UPDATE of updata_link may be.
LinksCover ==
  crashes = 0 => \A h \in Hashes :
    Links(h) + Cardinality(Adding(h)) + refused
      >= Cardinality(Listed(h)) + Cardinality(Removing(h))

\* puts.c:83 "the transfer has ended normally": the file is then complete.
EndsNormally == \A w \in Workers : At(w, "addGlob") => disk[task[w].hash] = Whole

\* The schema's `linkCount` "number of links": when no command is running, a
\* content has as many links as paths.
LinkCountExact ==
  (\A w \in Workers : At(w, "idle")) => \A h \in Hashes : Links(h) = Cardinality(Listed(h))

\* rm.c:72 "if linkCount == 0, update lastLinkTime in table g": a row with the
\* time set has no link.
TimedIsUnlinked ==
  \A i \in DOMAIN globalFile :
    globalFile[i].lastLinkTime # NULL => globalFile[i].linkCount = 0

\* puts.c:69 "an instant upload only updates the list of virtual files": it does.
InstantLists ==
  [][ \A w \in Workers :
        At(w, "insert") /\ task[w].st_size = Size /\ task'[w].at = "link"
          => virtualFile'[task[w].path] # NULL ]_vars

-------------------------------------------------------------------------------
(* Why a listed path is stored: the inductive invariant of FileStoreProofs. *)

\* A file on disk is a prefix of its content.
IsPrefix(f) == \E n \in 0..Size : f = Prefix(n)

\* What a command knows of its file stays true whatever the other workers do: a
\* file only grows, a row is never deleted and never changes its hash.
TaskInv(w) ==
  LET t == task[w] IN
    /\ t.at \in {"len", "recv", "addGlob", "getId", "insert"}
         => t.hash \in Hashes /\ t.path \in Paths /\ t.len \in 0..Size
    /\ t.at \in {"len", "recv"} => IsPrefix(disk[t.hash])
    /\ t.at = "len" => Len(disk[t.hash]) >= t.st_size
    /\ t.at = "recv" => /\ t.len = Size - t.st_size /\ t.left <= t.len
                        /\ Len(disk[t.hash]) >= Size - t.left
    /\ t.at \in {"rmDelete", "rmCount", "rmRead", "rmTime"}
         => t.hashId \in DOMAIN globalFile /\ t.path \in Paths
    /\ t.at = "getsOpen" => t.hash \in Hashes
    /\ t.at \in {"addGlob", "getsOpen"} /\ resets = 0 => disk[t.hash] = Whole
    /\ t.at = "send" /\ resets = 0 => t.st_size + t.len = Size

\* Files are prefixes, a row's file is whole until a reset, a path has a row.
StoreInv ==
  /\ \A h \in Hashes : disk[h] = NULL \/ IsPrefix(disk[h])
  /\ resets = 0 => \A i \in DOMAIN globalFile : disk[globalFile[i].hash] = Whole
  /\ \A p \in Paths : virtualFile[p] # NULL => virtualFile[p].hashId \in DOMAIN globalFile

IInv == TypeOK /\ StoreInv /\ (\A w \in Workers : TaskInv(w))
===============================================================================
