---------------------------- MODULE FileStoreProofs ----------------------------
(***************************************************************************)
(* A path that is listed has its whole content on disk, for any number of  *)
(* workers, paths, contents, commands, hang-ups and crashes, until a       *)
(* connection is reset during an upload.  IInv is inductive: InitInv,      *)
(* NextInv.  While removals come one at a time and no crash comes, the     *)
(* links of a content cover its paths but for one for every statement that *)
(* was refused: LinkInv, InitLinks, NextLinks.                             *)
(***************************************************************************)
EXTENDS FileStore, SequenceTheorems, FiniteSetTheorems, WellFoundedInduction, TLAPS

USE FileStoreAssumption

-------------------------------------------------------------------------------
(* Files *)

LEMMA PrefixProperties ==
  ASSUME NEW n \in 0..Size
  PROVE  /\ Prefix(n) \in Seq(1..Size)
         /\ Len(Prefix(n)) = n
         /\ \A i \in 1..n : Prefix(n)[i] = i
<1>1. Prefix(n) \in [1..n -> 1..Size]
  BY DEF Prefix
<1>2. Prefix(n) \in Seq(1..Size)
  BY <1>1, SeqDef
<1>3. DOMAIN Prefix(n) = 1..n
  BY DEF Prefix
<1>4. Len(Prefix(n)) = n
  BY <1>2, <1>3, LenProperties
<1>. QED BY <1>2, <1>4 DEF Prefix

LEMMA WholeIsPrefix == Whole = Prefix(Size)
  BY DEF Whole, Prefix

\* A chunk that is written at its own place, at most one past the end, leaves a
\* prefix, which reaches to that chunk.
LEMMA WrittenPrefix ==
  ASSUME NEW n \in 0..Size, NEW k \in 1..Size, k <= n + 1
  PROVE  Written(Prefix(n), k, k) = Prefix(IF k <= n THEN n ELSE k)
<1>. /\ Prefix(n) \in Seq(1..Size) /\ Len(Prefix(n)) = n /\ n \in 0..Size
     /\ \A i \in 1..n : Prefix(n)[i] = i
  BY PrefixProperties
<1>1. CASE k <= n
  <2>1. [Prefix(n) EXCEPT ![k] = k] = Prefix(n)
    BY <1>1 DEF Prefix
  <2>. QED BY <1>1, <2>1 DEF Written
<1>2. CASE k = n + 1
  <2>1. /\ Append(Prefix(n), k) \in Seq(1..Size)
        /\ Len(Append(Prefix(n), k)) = k
        /\ \A i \in 1..k : Append(Prefix(n), k)[i] = i
    BY <1>2, AppendProperties
  <2>. k \in 0..Size /\ ~ (k <= n) /\ (IF k <= n THEN n ELSE k) = k
    BY <1>2
  <2>2. Prefix(k) \in Seq(1..Size) /\ Len(Prefix(k)) = k /\ \A i \in 1..k : Prefix(k)[i] = i
    BY PrefixProperties
  <2>3. \A i \in 1..Len(Append(Prefix(n), k)) : Append(Prefix(n), k)[i] = Prefix(k)[i]
    BY <2>1, <2>2
  <2>4. Append(Prefix(n), k) = Prefix(k)
    BY <2>1, <2>2, <2>3, SeqEqual
  <2>. QED BY <1>2, <2>4 DEF Written
<1>. QED BY <1>1, <1>2

\* Some row of a content is the last one.
LEMMA LastRow ==
  ASSUME NEW n \in Nat, NEW Rows, Rows \subseteq 1..n, Rows # {}
  PROVE  Max(Rows) \in Rows
<1>. DEFINE After == { e \in Nat : n - e \in Rows }
            R == OpToRel(<, Nat)
<1>1. After \subseteq Nat
  OBVIOUS
<1>2. PICK i \in Rows : TRUE
  OBVIOUS
<1>3. n - i \in Nat /\ n - (n - i) = i
  BY <1>2
<1>4. After # {}
  BY <1>2, <1>3
<1>5. IsWellFoundedOn(R, Nat)
  BY NatLessThanWellFounded, Zenon
<1>6. PICK d \in After : \A e \in After : ~ (<<e, d>> \in R)
  <2>. HIDE DEF After, R
  <2>. QED BY <1>1, <1>4, <1>5, WFMin, Zenon
<1>7. \A e \in After : e >= d
  <2>1. ASSUME NEW e \in After, e < d PROVE FALSE
    <3>1. <<e, d>> \in Nat \X Nat /\ <<e, d>>[1] < <<e, d>>[2]
      BY <2>1
    <3>2. <<e, d>> \in R
      BY <3>1, Zenon DEF OpToRel
    <3>. QED BY <3>2, <1>6
  <2>. QED BY <2>1
<1>8. \A j \in Rows : n - d >= j
  <2>1. ASSUME NEW j \in Rows PROVE n - d >= j
    <3>1. n - j \in Nat /\ n - (n - j) = j
      OBVIOUS
    <3>2. n - j >= d
      BY <3>1, <1>7
    <3>. QED BY <3>2
  <2>. QED BY <2>1
<1>. QED BY <1>6, <1>8 DEF Max

-------------------------------------------------------------------------------
(* Steps *)

USE DEF At, Goto, Finish, counters

LEMMA RowProperties ==
  ASSUME TypeOK
  PROVE  /\ Len(globalFile) \in Nat /\ DOMAIN globalFile = 1..Len(globalFile)
         /\ \A i \in DOMAIN globalFile : i \in Nat /\ globalFile[i] \in GlobalRow
                                        /\ globalFile[i].hash \in Hashes
<1>1. Len(globalFile) \in Nat /\ DOMAIN globalFile = 1..Len(globalFile)
  BY LenProperties DEF TypeOK
<1>2. \A i \in DOMAIN globalFile : globalFile[i] \in GlobalRow
  BY <1>1, ElementOfSeq DEF TypeOK
<1>. QED BY <1>1, <1>2 DEF GlobalRow

\* At the start there is no row, no file and no command.
LEMMA InitInv == Init => IInv
<1>. SUFFICES ASSUME Init PROVE IInv
  OBVIOUS
<1>1. globalFile = <<>> /\ globalFile \in Seq(GlobalRow) /\ DOMAIN globalFile = {}
  BY DEF Init
<1>2. TypeOK
  BY <1>1 DEF Init, TypeOK, Idle, Locals, Labels
<1>3. StoreInv /\ \A w \in Workers : TaskInv(w)
  BY <1>1 DEF Init, StoreInv, TaskInv, Idle
<1>. QED BY <1>2, <1>3 DEF IInv, Init

\* What other workers know of the files and the rows survives a step in which
\* files grow and rows are added: a file that is whole stays whole, a prefix stays
\* one and is not cut.
Grows ==
  /\ \A g \in Hashes :
       /\ disk[g] = Whole => disk'[g] = Whole
       /\ IsPrefix(disk[g]) => IsPrefix(disk'[g]) /\ Len(disk'[g]) >= Len(disk[g])
  /\ DOMAIN globalFile \subseteq DOMAIN globalFile'

\* A step of one worker is left to be checked for that worker and for the store.
LEMMA StepInv ==
  ASSUME IInv, NEW w \in Workers, NEW t \in Locals, task' = [task EXCEPT ![w] = t],
         globalFile' \in Seq(GlobalRow),
         virtualFile' \in [Paths -> {NULL} \cup [hashId : Nat, fileSize : 0..Size]],
         disk' \in [Hashes -> {NULL} \cup Seq(1..Size)],
         issued' \in Nat, hangups' \in Nat, crashes' \in Nat, refused' \in Nat,
         resets' \in Nat, resets' = 0 => resets = 0,
         Grows, StoreInv', TaskInv(w)'
  PROVE  IInv'
<1>1. task' \in [Workers -> Locals]
  BY DEF IInv, TypeOK
<1>2. TypeOK'
  BY <1>1 DEF IInv, TypeOK
<1>3. ASSUME NEW v \in Workers, v # w PROVE TaskInv(v)'
  <2>1. task'[v] = task[v] /\ task[v] \in Locals
    BY <1>3 DEF IInv, TypeOK
  <2>2. TaskInv(v)
    BY DEF IInv
  <2>3. task[v].at \in {"len", "recv"} => IsPrefix(disk'[task[v].hash])
    BY <2>2 DEF TaskInv, Grows
  <2>4. task[v].at \in {"addGlob", "getsOpen"} /\ resets = 0 => disk'[task[v].hash] = Whole
    BY <2>2 DEF TaskInv, Grows
  <2>5. task[v].at \in {"len", "recv"} =>
           /\ Len(disk[task[v].hash]) \in Int /\ Len(disk'[task[v].hash]) \in Int
           /\ Len(disk'[task[v].hash]) >= Len(disk[task[v].hash])
    <3>1. SUFFICES ASSUME task[v].at \in {"len", "recv"}
                   PROVE  /\ Len(disk[task[v].hash]) \in Int
                          /\ Len(disk'[task[v].hash]) \in Int
                          /\ Len(disk'[task[v].hash]) >= Len(disk[task[v].hash])
      OBVIOUS
    <3>2. /\ IsPrefix(disk[task[v].hash]) /\ IsPrefix(disk'[task[v].hash])
          /\ task[v].hash \in Hashes
      BY <3>1, <2>2, <2>3 DEF TaskInv
    <3>3. Len(disk[task[v].hash]) \in Int /\ Len(disk'[task[v].hash]) \in Int
      BY <3>2, PrefixProperties DEF IsPrefix
    <3>. QED BY <3>2, <3>3 DEF Grows
  <2>6. task[v].left \in Int /\ task[v].st_size \in Int
    <3>1. task[v].left \in 0..Size /\ task[v].st_size \in 0..Size
      BY <2>1 DEF Locals
    <3>. QED BY <3>1
  <2>7. /\ task[v].at = "recv" => Len(disk'[task[v].hash]) >= Size - task[v].left
        /\ task[v].at = "len" => Len(disk'[task[v].hash]) >= task[v].st_size
    <3>1. /\ task[v].at = "recv" => Len(disk[task[v].hash]) >= Size - task[v].left
          /\ task[v].at = "len" => Len(disk[task[v].hash]) >= task[v].st_size
      BY <2>2 DEF TaskInv
    <3>2. ASSUME NEW a \in Int, NEW b \in Int, NEW c \in Int, a >= c, b >= a PROVE b >= c
      BY <3>2
    <3>3. Size - task[v].left \in Int
      BY <2>6
    <3>4. CASE task[v].at = "recv"
      BY <3>4, <3>1, <3>2, <3>3, <2>5
    <3>5. CASE task[v].at = "len"
      BY <3>5, <3>1, <3>2, <2>5, <2>6
    <3>. QED BY <3>4, <3>5
  <2>8. task[v].hashId \in DOMAIN globalFile => task[v].hashId \in DOMAIN globalFile'
    BY DEF Grows
  <2>. QED BY <2>1, <2>2, <2>3, <2>4, <2>7, <2>8 DEF TaskInv
<1>. QED BY <1>2, <1>3 DEF IInv

\* A step that changes only what one worker keeps of its command.
LEMMA OneTask ==
  ASSUME IInv, NEW w \in Workers, NEW t \in Locals, task' = [task EXCEPT ![w] = t],
         UNCHANGED <<globalFile, virtualFile, disk>>,
         issued' \in Nat, hangups' \in Nat, crashes' \in Nat, refused' \in Nat,
         resets' \in Nat, resets' = 0 => resets = 0,
         TaskInv(w)'
  PROVE  IInv'
<1>1. \A g \in Hashes : IsPrefix(disk[g]) => Len(disk[g]) \in Nat
  BY PrefixProperties DEF IsPrefix
<1>2. Grows
  BY <1>1 DEF Grows
<1>3. StoreInv'
  BY DEF IInv, StoreInv
<1>4. /\ globalFile \in Seq(GlobalRow)
      /\ virtualFile \in [Paths -> {NULL} \cup [hashId : Nat, fileSize : 0..Size]]
      /\ disk \in [Hashes -> {NULL} \cup Seq(1..Size)]
  BY DEF IInv, TypeOK
<1>. QED BY <1>2, <1>3, <1>4, StepInv

\* What Goto and Finish leave in the worker.
LEMMA Moved ==
  ASSUME IInv, NEW w \in Workers
  PROVE  /\ \A label \in Labels :
              Goto(w, label) =>
                /\ task' = [task EXCEPT ![w] = [task[w] EXCEPT !.at = label]]
                /\ [task[w] EXCEPT !.at = label] \in Locals
                /\ task'[w] = [task[w] EXCEPT !.at = label]
         /\ Finish(w) => /\ task' = [task EXCEPT ![w] = Idle] /\ task'[w] = Idle
         /\ Idle \in Locals
<1>1. task \in [Workers -> Locals] /\ task[w] \in Locals
  BY DEF IInv, TypeOK
<1>2. \A label \in Labels : [task[w] EXCEPT !.at = label] \in Locals
  BY <1>1 DEF Locals
<1>3. Idle \in Locals
  BY DEF Idle, Locals, Labels
<1>. QED BY <1>1, <1>2, <1>3

LEMMA GotoInv ==
  ASSUME IInv, NEW w \in Workers, NEW label \in Labels, Goto(w, label),
         UNCHANGED <<globalFile, virtualFile, disk>>,
         issued' \in Nat, hangups' \in Nat, crashes' \in Nat, refused' \in Nat,
         resets' \in Nat, resets' = 0 => resets = 0, TaskInv(w)'
  PROVE  IInv'
<1>. HIDE DEF Goto
<1>. QED BY Moved, OneTask

LEMMA FinishInv ==
  ASSUME IInv, NEW w \in Workers, Finish(w),
         UNCHANGED <<globalFile, virtualFile, disk>>,
         issued' \in Nat, hangups' \in Nat, crashes' \in Nat, refused' \in Nat,
         resets' \in Nat, resets' = 0 => resets = 0
  PROVE  IInv'
<1>1. task' = [task EXCEPT ![w] = Idle] /\ task'[w] = Idle /\ Idle \in Locals
  BY Moved
<1>2. TaskInv(w)'
  BY <1>1 DEF TaskInv, Idle
<1>. QED BY <1>1, <1>2, OneTask

LEMMA PutsLenInv == ASSUME IInv, NEW w \in Workers, PutsLen(w) PROVE IInv'
<1>. DEFINE len == Size - task[w].st_size
            t == [task[w] EXCEPT !.at = IF len = 0 THEN "getId" ELSE "recv",
                                 !.len = len, !.left = len]
<1>1. /\ task[w].at = "len" /\ task[w] \in Locals /\ task[w].st_size \in 0..Size
      /\ task[w].hash \in Hashes /\ task[w].path \in Paths /\ IsPrefix(disk[task[w].hash])
      /\ task' = [task EXCEPT ![w] = t]
      /\ UNCHANGED <<globalFile, virtualFile, disk, issued, hangups, resets, crashes, refused>>
      /\ Len(disk[task[w].hash]) >= task[w].st_size
  BY DEF PutsLen, IInv, TypeOK, TaskInv, Locals
<1>2. len \in 0..Size
  BY <1>1
<1>3. t \in Locals
  <2>1. len \in Int /\ task[w] \in Locals
    BY <1>1, <1>2
  <2>2. CASE len = 0
    BY <2>1, <2>2, <1>2 DEF Locals, Labels
  <2>3. CASE len # 0
    BY <2>1, <2>3, <1>2 DEF Locals, Labels
  <2>. QED BY <2>2, <2>3
<1>4. /\ task'[w].at = (IF len = 0 THEN "getId" ELSE "recv") /\ task'[w].hash = task[w].hash
      /\ task'[w].path = task[w].path /\ task'[w].len = len /\ task'[w].left = len
      /\ task'[w].st_size = task[w].st_size
  BY <1>1 DEF IInv, TypeOK, Locals
<1>5. Len(disk[task[w].hash]) \in Nat
  BY <1>1, PrefixProperties DEF IsPrefix
<1>6. TaskInv(w)'
  <2>. HIDE DEF t
  <2>1. CASE len = 0
    BY <1>1, <1>2, <1>4, <2>1 DEF TaskInv
  <2>2. CASE len # 0
    <3>1. task'[w].at = "recv" /\ disk' = disk
      BY <1>1, <1>4, <2>2
    <3>2. /\ len = Size - task[w].st_size /\ len <= len
          /\ Len(disk[task[w].hash]) >= Size - len
      BY <1>1, <1>2, <1>5
    <3>. QED BY <1>1, <1>2, <1>4, <3>1, <3>2 DEF TaskInv
  <2>. QED BY <2>1, <2>2
<1>7. /\ issued' \in Nat /\ hangups' \in Nat /\ crashes' \in Nat /\ refused' \in Nat
      /\ resets' \in Nat /\ resets' = resets
  BY <1>1 DEF IInv, TypeOK
<1>. HIDE DEF t
<1>. QED BY <1>1, <1>3, <1>6, <1>7, OneTask

\* The steps that only move the worker on.
LEMMA MoveInv ==
  ASSUME IInv, NEW w \in Workers,
         \/ PutsLenHangup(w) \/ RecvEnd(w) \/ RecvHangup(w) \/ RecvReset(w)
         \/ RmRead(w) \/ GetsSent(w)
  PROVE  IInv'
<1>0. /\ TypeOK /\ task[w] \in Locals /\ TaskInv(w) /\ resets \in Nat
      /\ issued \in Nat /\ hangups \in Nat /\ crashes \in Nat /\ refused \in Nat
  BY DEF IInv, TypeOK
<1>1. CASE PutsLenHangup(w)
  <2>1. Goto(w, "getId") /\ task[w].at = "len"
    BY <1>1 DEF PutsLenHangup
  <2>2. task'[w] = [task[w] EXCEPT !.at = "getId"] /\ "getId" \in Labels
    BY <2>1, Moved DEF Labels
  <2>3. TaskInv(w)'
    BY <1>0, <2>1, <2>2 DEF TaskInv, Locals
  <2>4. hangups' = hangups + 1 /\ UNCHANGED <<globalFile, virtualFile, disk, resets, issued, crashes, refused>>
    BY <1>1 DEF PutsLenHangup
  <2>. HIDE DEF Goto
  <2>. QED BY <1>0, <2>1, <2>2, <2>3, <2>4, GotoInv
<1>2. CASE RecvEnd(w)
  <2>1. Goto(w, "addGlob") /\ task[w].at = "recv" /\ task[w].left = 0
    BY <1>2 DEF RecvEnd
  <2>2. task'[w] = [task[w] EXCEPT !.at = "addGlob"] /\ "addGlob" \in Labels
    BY <2>1, Moved DEF Labels
  <2>3. disk[task[w].hash] = Whole
    <3>1. IsPrefix(disk[task[w].hash]) /\ Len(disk[task[w].hash]) >= Size - 0
      BY <1>0, <2>1 DEF TaskInv
    <3>2. PICK n \in 0..Size : disk[task[w].hash] = Prefix(n)
      BY <3>1 DEF IsPrefix
    <3>3. Len(Prefix(n)) = n
      BY PrefixProperties
    <3>4. n = Size
      BY <3>1, <3>2, <3>3
    <3>. QED BY <3>2, <3>4, WholeIsPrefix
  <2>4. TaskInv(w)'
    BY <1>0, <1>2, <2>1, <2>2, <2>3 DEF TaskInv, Locals, RecvEnd
  <2>. QED BY <1>0, <1>2, <2>1, <2>2, <2>4, GotoInv DEF RecvEnd
<1>3. CASE RecvHangup(w)
  <2>1. Goto(w, "spin") /\ task[w].at = "recv"
    BY <1>3 DEF RecvHangup
  <2>2. task'[w] = [task[w] EXCEPT !.at = "spin"] /\ "spin" \in Labels
    BY <2>1, Moved DEF Labels
  <2>3. TaskInv(w)'
    BY <1>0, <2>2 DEF TaskInv, Locals
  <2>4. hangups' = hangups + 1 /\ UNCHANGED <<globalFile, virtualFile, disk, resets, issued, crashes, refused>>
    BY <1>3 DEF RecvHangup
  <2>. HIDE DEF Goto
  <2>. QED BY <1>0, <2>1, <2>2, <2>3, <2>4, GotoInv
<1>4. CASE RecvReset(w)
  <2>1. Goto(w, "addGlob") /\ task[w].at = "recv"
    BY <1>4 DEF RecvReset
  <2>2. task'[w] = [task[w] EXCEPT !.at = "addGlob"] /\ "addGlob" \in Labels
    BY <2>1, Moved DEF Labels
  <2>3. resets' = resets + 1 /\ UNCHANGED <<globalFile, virtualFile, disk, issued, hangups, crashes, refused>>
    BY <1>4 DEF RecvReset
  <2>4. resets' \in Nat /\ resets' # 0
    BY <1>0, <2>3
  <2>5. TaskInv(w)'
    BY <1>0, <2>1, <2>2, <2>4 DEF TaskInv, Locals
  <2>. HIDE DEF Goto
  <2>. QED BY <1>0, <2>1, <2>2, <2>3, <2>4, <2>5, GotoInv
<1>5. CASE RmRead(w)
  <2>1. CASE Goto(w, "rmTime")
    <3>1. task'[w] = [task[w] EXCEPT !.at = "rmTime"] /\ "rmTime" \in Labels
      BY <2>1, Moved DEF Labels
    <3>2. TaskInv(w)'
      BY <1>0, <1>5, <3>1 DEF TaskInv, Locals, RmRead
    <3>. QED BY <1>0, <1>5, <2>1, <3>1, <3>2, GotoInv DEF RmRead
  <2>2. CASE Finish(w)
    BY <1>0, <1>5, <2>2, FinishInv DEF RmRead
  <2>. QED BY <1>5, <2>1, <2>2 DEF RmRead
<1>6. CASE GetsSent(w)
  BY <1>0, <1>6, FinishInv DEF GetsSent
<1>. QED BY <1>1, <1>2, <1>3, <1>4, <1>5, <1>6

\* The SELECTs: what a worker reads of a table is true of it.
LEMMA SelectInv ==
  ASSUME IInv, NEW w \in Workers,
         \/ GetHashId(w)
         \/ \E p \in Paths : RmSelect(w, p) \/ GetsSelect(w, p)
         \/ GetsOpen(w)
  PROVE  IInv'
<1>0. /\ TypeOK /\ StoreInv /\ task \in [Workers -> Locals] /\ task[w] \in Locals
      /\ TaskInv(w) /\ issued \in Nat /\ hangups \in Nat /\ crashes \in Nat /\ refused \in Nat
      /\ resets \in Nat
  BY DEF IInv, TypeOK
<1>1. CASE GetHashId(w)
  <2>. DEFINE Rows == RowsOf(task[w].hash)
              id == IF Rows = {} THEN 0 ELSE Max(Rows)
              t == [task[w] EXCEPT !.at = "insert", !.hashId = id]
  <2>1. id \in Nat
    <3>1. Rows \subseteq 1..Len(globalFile) /\ Len(globalFile) \in Nat
      BY <1>0, RowProperties DEF RowsOf
    <3>2. Rows # {} => Max(Rows) \in Rows
      BY <3>1, LastRow
    <3>. QED BY <3>1, <3>2
  <2>. HIDE DEF id
  <2>2. task' = [task EXCEPT ![w] = t] /\ task'[w] = t /\ task[w].at = "getId"
    BY <1>0, <1>1 DEF GetHashId, id
  <2>3. t \in Locals
    BY <1>0, <2>1 DEF Locals, Labels
  <2>4. TaskInv(w)'
    BY <1>0, <1>1, <2>2 DEF TaskInv, Locals, GetHashId
  <2>. HIDE DEF t
  <2>. QED BY <1>0, <1>1, <2>2, <2>3, <2>4, OneTask DEF GetHashId
<1>2. ASSUME NEW p \in Paths, RmSelect(w, p) PROVE IInv'
  <2>. DEFINE row == virtualFile[p]
              t == [Idle EXCEPT !.at = "rmDelete", !.path = p, !.hashId = row.hashId]
  <2>9. /\ issued' = issued + 1
        /\ UNCHANGED <<globalFile, virtualFile, disk, resets, hangups, crashes, refused>>
    BY <1>2 DEF RmSelect
  <2>0. issued' \in Nat /\ UNCHANGED <<globalFile, virtualFile, disk, resets, hangups, crashes, refused>>
    BY <1>0, <2>9
  <2>1. CASE row = NULL
    <3>1. task' = [task EXCEPT ![w] = task[w]]
      BY <1>0, <1>2, <2>1 DEF RmSelect
    <3>2. TaskInv(w)'
      BY <1>0, <1>2, <2>1, <2>0 DEF RmSelect, TaskInv
    <3>. QED BY <1>0, <2>0, <3>1, <3>2, OneTask
  <2>2. CASE row # NULL
    <3>1. row.hashId \in DOMAIN globalFile /\ row.hashId \in Nat
      BY <1>0, <2>2, RowProperties DEF StoreInv
    <3>2. task' = [task EXCEPT ![w] = t] /\ task'[w] = t
      BY <1>0, <1>2, <2>2 DEF RmSelect
    <3>3. Idle \in Locals
      BY Moved
    <3>4. t \in Locals
      BY <3>1, <3>3 DEF Locals, Labels
    <3>5. t.at = "rmDelete" /\ t.path = p /\ t.hashId = row.hashId
      BY <3>3 DEF Locals
    <3>. HIDE DEF t
    <3>6. TaskInv(w)'
      BY <2>0, <3>1, <3>2, <3>5 DEF TaskInv
    <3>. QED BY <1>0, <2>0, <3>2, <3>4, <3>6, OneTask
  <2>. QED BY <2>1, <2>2
<1>3. ASSUME NEW p \in Paths, GetsSelect(w, p) PROVE IInv'
  <2>. DEFINE row == virtualFile[p]
              h == globalFile[row.hashId].hash
              t == [Idle EXCEPT !.at = "getsOpen", !.path = p, !.hash = h]
  <2>9. /\ issued' = issued + 1
        /\ UNCHANGED <<globalFile, virtualFile, disk, resets, hangups, crashes, refused>>
    BY <1>3 DEF GetsSelect
  <2>0. issued' \in Nat /\ UNCHANGED <<globalFile, virtualFile, disk, resets, hangups, crashes, refused>>
    BY <1>0, <2>9
  <2>1. CASE row = NULL
    <3>1. task' = [task EXCEPT ![w] = task[w]]
      BY <1>0, <1>3, <2>1 DEF GetsSelect
    <3>2. TaskInv(w)'
      BY <1>0, <1>3, <2>1, <2>0 DEF GetsSelect, TaskInv
    <3>. QED BY <1>0, <2>0, <3>1, <3>2, OneTask
  <2>2. CASE row # NULL
    <3>1. h \in Hashes /\ (resets = 0 => disk[h] = Whole)
      BY <1>0, <2>2, RowProperties DEF StoreInv
    <3>2. task' = [task EXCEPT ![w] = t] /\ task'[w] = t
      BY <1>0, <1>3, <2>2 DEF GetsSelect
    <3>0. Idle \in Locals
      BY Moved
    <3>3. t \in Locals
      BY <3>1, <3>0 DEF Locals, Labels
    <3>4. t.at = "getsOpen" /\ t.hash = h
      BY <3>0 DEF Locals
    <3>5. (resets' = 0 => disk'[t.hash] = Whole) /\ t.hash \in Hashes
      BY <2>0, <3>1, <3>4
    <3>. HIDE DEF t
    <3>6. TaskInv(w)'
      BY <3>2, <3>4, <3>5 DEF TaskInv
    <3>. QED BY <1>0, <2>0, <3>2, <3>3, <3>6, OneTask
  <2>. QED BY <2>1, <2>2
<1>4. CASE GetsOpen(w)
  <2>0. UNCHANGED <<globalFile, virtualFile, disk, resets, issued, hangups, crashes, refused>>
    BY <1>4 DEF GetsOpen
  <2>1. CASE Finish(w)
    BY <1>0, <2>0, <2>1, FinishInv
  <2>2. ASSUME NEW off \in 0..Size, task[w].at = "getsOpen", disk[task[w].hash] # NULL,
               task' = [task EXCEPT ![w].at = "send", ![w].st_size = off,
                                    ![w].len = Len(disk[task[w].hash]) - off]
        PROVE  IInv'
    <3>. DEFINE size == Len(disk[task[w].hash])
                t == [task[w] EXCEPT !.at = "send", !.st_size = off, !.len = size - off]
    <3>1. size \in 0..Size /\ (resets = 0 => size = Size)
      <4>1. task[w].hash \in Hashes /\ (resets = 0 => disk[task[w].hash] = Prefix(Size))
        BY <1>0, <2>2, WholeIsPrefix DEF TaskInv
      <4>2. PICK n \in 0..Size : disk[task[w].hash] = Prefix(n)
        BY <1>0, <2>2, <4>1 DEF StoreInv, IsPrefix
      <4>3. Size \in 0..Size
        OBVIOUS
      <4>. QED BY <4>1, <4>2, <4>3, PrefixProperties
    <3>2. task' = [task EXCEPT ![w] = t] /\ task'[w] = t
      BY <1>0, <2>2
    <3>. HIDE DEF size
    <3>3. t \in Locals
      <4>1. size - off \in Int /\ off \in 0..Size
        BY <3>1
      <4>. QED BY <1>0, <4>1 DEF Locals, Labels
    <3>4. TaskInv(w)'
      BY <1>0, <2>0, <3>1, <3>2 DEF TaskInv, Locals
    <3>. HIDE DEF t
    <3>. QED BY <1>0, <2>0, <3>2, <3>3, <3>4, OneTask
  <2>. QED BY <1>4, <2>1, <2>2 DEF GetsOpen
<1>. QED BY <1>1, <1>2, <1>3, <1>4

\* A file grows by the chunk that follows the ones already written: it stays a
\* prefix, and nothing that is known of it or of another file is lost.
LEMMA RecvChunkInv == ASSUME IInv, NEW w \in Workers, RecvChunk(w) PROVE IInv'
<1>. DEFINE t == task[w]
            h == t.hash
            k == Size - t.left + 1
<1>1. /\ t.at = "recv" /\ t.left > 0 /\ t.left \in 0..Size
      /\ h \in Hashes /\ t.path \in Paths
      /\ t.len = Size - t.st_size /\ t.left <= t.len /\ t.st_size \in 0..Size
      /\ IsPrefix(disk[h]) /\ Len(disk[h]) >= Size - t.left
  BY DEF RecvChunk, IInv, TypeOK, TaskInv, Locals
<1>2. k \in 1..Size /\ t.st_size + t.len - t.left + 1 = k
  <2>1. \A a \in 0..Size, l, b \in Int :
          a > 0 /\ l = Size - b => Size - a + 1 \in 1..Size /\ b + l - a + 1 = Size - a + 1
    OBVIOUS
  <2>2. t.st_size \in Int /\ t.len \in Int
    BY <1>1
  <2>. QED BY <1>1, <2>1, <2>2
<1>3. PICK n \in 0..Size : disk[h] = Prefix(n)
  BY <1>1 DEF IsPrefix
<1>4. k <= n + 1
  <2>1. Len(Prefix(n)) = n
    BY PrefixProperties
  <2>. QED BY <2>1, <1>1, <1>3
<1>5. PICK m \in 0..Size : m >= n /\ m >= k /\ disk' = [disk EXCEPT ![h] = Prefix(m)]
  <2>. DEFINE m == IF k <= n THEN n ELSE k
  <2>1. m \in 0..Size /\ m >= n /\ m >= k
    BY <1>2
  <2>2. disk' = [disk EXCEPT ![h] = Written(disk[h], k, k)]
    BY <1>2 DEF RecvChunk
  <2>3. Written(Prefix(n), k, k) = Prefix(m)
    BY <1>2, <1>4, WrittenPrefix
  <2>. QED BY <1>3, <2>1, <2>2, <2>3
<1>6. /\ Prefix(m) \in Seq(1..Size) /\ Len(Prefix(m)) = m
      /\ disk[h] = Whole => Prefix(m) = Whole
  <2>1. Prefix(m) \in Seq(1..Size) /\ Len(Prefix(m)) = m
    BY PrefixProperties
  <2>2. ASSUME disk[h] = Whole PROVE m = Size
    <3>1. Size \in 0..Size
      OBVIOUS
    <3>2. Len(Prefix(n)) = n /\ Len(Prefix(Size)) = Size
      BY <3>1, PrefixProperties
    <3>3. Prefix(n) = Prefix(Size)
      BY <2>2, <1>3, WholeIsPrefix
    <3>. QED BY <3>2, <3>3, <1>5
  <2>. QED BY <2>1, <2>2, WholeIsPrefix
<1>7. \A g \in Hashes :
        /\ disk[g] = Whole => disk'[g] = Whole
        /\ IsPrefix(disk[g]) => IsPrefix(disk'[g]) /\ Len(disk'[g]) >= Len(disk[g])
        /\ disk'[g] # disk[g] => g = h
  <2>1. ASSUME NEW g \in Hashes, g # h PROVE disk'[g] = disk[g]
    BY <2>1, <1>5 DEF IInv, TypeOK
  <2>2. disk'[h] = Prefix(m) /\ Len(Prefix(n)) = n
    BY <1>1, <1>5, PrefixProperties DEF IInv, TypeOK
  <2>. QED BY <2>1, <2>2, <1>3, <1>5, <1>6 DEF IsPrefix
<1>8. disk' \in [Hashes -> {NULL} \cup Seq(1..Size)]
  BY <1>1, <1>5, <1>6 DEF IInv, TypeOK
<1>9. /\ UNCHANGED <<globalFile, virtualFile, issued, hangups, resets, crashes, refused>>
      /\ task' = [task EXCEPT ![w].left = t.left - 1]
  BY DEF RecvChunk
<1>10. [t EXCEPT !.left = t.left - 1] \in Locals /\ t \in Locals
  <2>1. t \in Locals /\ t.left - 1 \in 0..Size
    BY <1>1 DEF IInv, TypeOK
  <2>. QED BY <2>1 DEF Locals
<1>11. StoreInv'
  <2>1. \A g \in Hashes : disk'[g] = NULL \/ IsPrefix(disk'[g])
    <3>1. IsPrefix(disk'[h])
      BY <1>1, <1>7
    <3>2. ASSUME NEW g \in Hashes, g # h PROVE disk'[g] = NULL \/ IsPrefix(disk'[g])
      BY <3>2, <1>7 DEF IInv, StoreInv
    <3>. QED BY <3>1, <3>2
  <2>2. \A i \in DOMAIN globalFile : globalFile[i].hash \in Hashes
    BY RowProperties DEF IInv
  <2>. QED BY <2>1, <2>2, <1>7, <1>9 DEF IInv, StoreInv
<1>12. TaskInv(w)'
  <2>1. /\ task'[w].at = "recv" /\ task'[w].hash = h /\ task'[w].path = t.path
        /\ task'[w].len = t.len /\ task'[w].st_size = t.st_size
        /\ task'[w].left = t.left - 1
    BY <1>1, <1>9 DEF IInv, TypeOK, Locals
  <2>2. IsPrefix(disk'[h]) /\ Len(disk'[h]) \in Nat /\ Len(disk'[h]) >= k
    BY <1>1, <1>5, <1>6, <1>7 DEF IInv, TypeOK
  <2>3. t.len \in 0..Size
    BY <1>1
  <2>4. t.left - 1 <= t.len /\ Len(disk'[h]) >= Size - (t.left - 1)
    <3>1. t.left \in Int /\ Size \in Int /\ t.len \in Int /\ t.left <= t.len
      BY <1>1, <2>3
    <3>2. t.left - 1 <= t.len /\ k = Size - (t.left - 1)
      BY <3>1
    <3>. QED BY <2>2, <3>2
  <2>5. /\ task'[w].len = Size - task'[w].st_size /\ task'[w].left <= task'[w].len
        /\ Len(disk'[task'[w].hash]) >= Size - task'[w].left
        /\ IsPrefix(disk'[task'[w].hash])
        /\ task'[w].hash \in Hashes /\ task'[w].path \in Paths /\ task'[w].len \in 0..Size
    BY <1>1, <2>1, <2>2, <2>3, <2>4
  <2>. HIDE DEF t
  <2>. QED BY <2>1, <2>5 DEF TaskInv
<1>13. Grows
  BY <1>7, <1>9 DEF Grows
<1>14. /\ globalFile' \in Seq(GlobalRow)
       /\ virtualFile' \in [Paths -> {NULL} \cup [hashId : Nat, fileSize : 0..Size]]
       /\ issued' \in Nat /\ hangups' \in Nat /\ crashes' \in Nat /\ refused' \in Nat
       /\ resets' \in Nat /\ resets' = resets
  BY <1>9 DEF IInv, TypeOK
<1>15. task' = [task EXCEPT ![w] = [t EXCEPT !.left = t.left - 1]]
  BY <1>9 DEF IInv, TypeOK
<1>. QED BY <1>8, <1>10, <1>11, <1>12, <1>13, <1>14, <1>15, StepInv

LEMMA PutsOpenInv ==
  ASSUME IInv, NEW w \in Workers, NEW p \in Paths, NEW h \in Hashes, PutsOpen(w, p, h)
  PROVE  IInv'
<1>. DEFINE size == IF disk[h] = NULL THEN 0 ELSE Len(disk[h])
            f == IF disk[h] = NULL THEN <<>> ELSE disk[h]
            t == [Idle EXCEPT !.at = "len", !.path = p, !.hash = h, !.st_size = size]
<1>1. /\ disk' = [disk EXCEPT ![h] = f] /\ task' = [task EXCEPT ![w] = t]
      /\ issued' = issued + 1
      /\ UNCHANGED <<globalFile, virtualFile, hangups, resets, crashes, refused>>
  BY DEF PutsOpen
<1>2. /\ task \in [Workers -> Locals] /\ disk \in [Hashes -> {NULL} \cup Seq(1..Size)]
      /\ StoreInv /\ issued \in Nat /\ hangups \in Nat /\ crashes \in Nat /\ refused \in Nat
  BY DEF IInv, TypeOK
<1>3. IsPrefix(f) /\ Len(f) = size /\ size \in 0..Size /\ f \in Seq(1..Size)
  <2>1. CASE disk[h] = NULL
    <3>1. Prefix(0) \in Seq(1..Size) /\ Len(Prefix(0)) = 0 /\ 0 \in 0..Size
      BY PrefixProperties
    <3>2. Prefix(0) = <<>>
      BY <3>1, EmptySeq, SeqEqual
    <3>. QED BY <2>1, <3>1, <3>2 DEF IsPrefix
  <2>2. CASE disk[h] # NULL
    <3>1. PICK n \in 0..Size : disk[h] = Prefix(n)
      BY <2>2, <1>2 DEF StoreInv, IsPrefix
    <3>. QED BY <2>2, <3>1, PrefixProperties DEF IsPrefix
  <2>. QED BY <2>1, <2>2
<1>4. disk' \in [Hashes -> {NULL} \cup Seq(1..Size)] /\ disk'[h] = f
  BY <1>1, <1>2, <1>3
<1>5. \A g \in Hashes : g # h => disk'[g] = disk[g]
  BY <1>1, <1>2
<1>6. disk[h] # NULL => disk'[h] = disk[h]
  BY <1>4
<1>7. (disk[h] # Whole /\ ~ IsPrefix(disk[h])) \/ disk'[h] = disk[h]
  <2>1. Size \in 0..Size /\ \A n \in 0..Size : NULL # Prefix(n)
    BY DEF Prefix
  <2>. QED BY <1>6, <2>1, WholeIsPrefix DEF IsPrefix
<1>8. Grows
  <2>1. ASSUME NEW g \in Hashes, IsPrefix(disk[g]) PROVE Len(disk[g]) >= Len(disk[g])
    BY <2>1, PrefixProperties DEF IsPrefix
  <2>. QED BY <1>1, <1>5, <1>7, <2>1 DEF Grows
<1>9. StoreInv'
  <2>1. \A i \in DOMAIN globalFile : globalFile[i].hash \in Hashes
    BY RowProperties DEF IInv
  <2>. QED BY <1>1, <1>2, <1>3, <1>4, <1>5, <1>8, <2>1 DEF StoreInv, Grows
<1>10. Idle \in Locals
  BY Moved
<1>11. t \in Locals
  BY <1>3, <1>10 DEF Locals, Labels
<1>12. /\ t.at = "len" /\ t.path = p /\ t.hash = h /\ t.st_size = size /\ t.len = 0
  BY <1>10 DEF Locals, Idle
<1>13. task'[w] = t
  BY <1>1, <1>2
<1>. HIDE DEF t
<1>14. TaskInv(w)'
  BY <1>3, <1>4, <1>12, <1>13 DEF TaskInv
<1>15. /\ globalFile' \in Seq(GlobalRow)
       /\ virtualFile' \in [Paths -> {NULL} \cup [hashId : Nat, fileSize : 0..Size]]
       /\ issued' \in Nat /\ hangups' \in Nat /\ crashes' \in Nat /\ refused' \in Nat
       /\ resets' \in Nat /\ resets' = resets
  BY <1>1, <1>2 DEF IInv, TypeOK
<1>. QED BY <1>1, <1>4, <1>8, <1>9, <1>11, <1>14, <1>15, StepInv

-------------------------------------------------------------------------------
(* The statements that write the tables *)

\* Rows keep their place and their hash.
LEMMA SameRows ==
  ASSUME IInv, NEW w \in Workers, NEW t \in Locals, task' = [task EXCEPT ![w] = t],
         globalFile' \in Seq(GlobalRow),
         DOMAIN globalFile' = DOMAIN globalFile,
         \A i \in DOMAIN globalFile : globalFile'[i].hash = globalFile[i].hash,
         UNCHANGED <<virtualFile, disk, counters>>,
         TaskInv(w)'
  PROVE  IInv'
<1>1. /\ virtualFile \in [Paths -> {NULL} \cup [hashId : Nat, fileSize : 0..Size]]
      /\ disk \in [Hashes -> {NULL} \cup Seq(1..Size)] /\ StoreInv
      /\ issued \in Nat /\ hangups \in Nat /\ crashes \in Nat /\ refused \in Nat /\ resets \in Nat
  BY DEF IInv, TypeOK
<1>2. Grows
  <2>1. \A g \in Hashes : IsPrefix(disk[g]) => Len(disk[g]) \in Nat
    BY PrefixProperties DEF IsPrefix
  <2>. QED BY <2>1 DEF Grows
<1>3. StoreInv'
  BY <1>1 DEF StoreInv
<1>. QED BY <1>1, <1>2, <1>3, StepInv

\* An update of one row's linkCount or lastLinkTime.
LEMMA RowUpdated ==
  ASSUME TypeOK, NEW i \in DOMAIN globalFile, NEW row \in GlobalRow,
         row.hash = globalFile[i].hash
  PROVE  /\ [globalFile EXCEPT ![i] = row] \in Seq(GlobalRow)
         /\ DOMAIN [globalFile EXCEPT ![i] = row] = DOMAIN globalFile
         /\ \A j \in DOMAIN globalFile :
              [globalFile EXCEPT ![i] = row][j].hash = globalFile[j].hash
<1>1. globalFile \in Seq(GlobalRow) /\ DOMAIN globalFile = 1..Len(globalFile)
  BY RowProperties DEF TypeOK
<1>2. [globalFile EXCEPT ![i] = row] \in Seq(GlobalRow)
  BY <1>1, ExceptSeq
<1>. QED BY <1>1, <1>2

LEMMA TableInv ==
  ASSUME IInv, NEW w \in Workers,
         UpdataLink(w) \/ RmCount(w) \/ RmTime(w)
  PROVE  IInv'
<1>0. /\ TypeOK /\ TaskInv(w) /\ task \in [Workers -> Locals] /\ task[w] \in Locals
      /\ globalFile \in Seq(GlobalRow)
  BY DEF IInv, TypeOK
<1>1. CASE UpdataLink(w)
  <2>1. /\ Len(globalFile) \in Nat /\ DOMAIN globalFile = 1..Len(globalFile)
        /\ \A i \in DOMAIN globalFile : globalFile[i] \in GlobalRow
    BY <1>0, RowProperties
  <2>2. globalFile' \in [1..Len(globalFile) -> GlobalRow]
    <3>1. \A i \in DOMAIN globalFile :
            [globalFile[i] EXCEPT !.linkCount = @ + 1, !.lastLinkTime = NULL] \in GlobalRow
      <4>1. ASSUME NEW r \in GlobalRow
            PROVE  [r EXCEPT !.linkCount = r.linkCount + 1, !.lastLinkTime = NULL] \in GlobalRow
        <5>1. r.linkCount + 1 \in Int
          BY DEF GlobalRow
        <5>. QED BY <5>1 DEF GlobalRow
      <4>. QED BY <2>1, <4>1
    <3>. QED BY <1>1, <2>1, <3>1 DEF UpdataLink
  <2>3. globalFile' \in Seq(GlobalRow)
    BY <2>1, <2>2, SeqDef
  <2>4. /\ DOMAIN globalFile' = DOMAIN globalFile
        /\ \A i \in DOMAIN globalFile : globalFile'[i].hash = globalFile[i].hash
    BY <1>1, <2>1 DEF UpdataLink, GlobalRow
  <2>5. task' = [task EXCEPT ![w] = Idle] /\ task'[w] = Idle /\ Idle \in Locals
    BY <1>1, Moved DEF UpdataLink
  <2>6. TaskInv(w)'
    BY <2>5 DEF TaskInv, Idle
  <2>. QED BY <1>1, <2>3, <2>4, <2>5, <2>6, SameRows DEF UpdataLink
<1>2. CASE RmCount(w)
  <2>. DEFINE i == task[w].hashId
              row == [globalFile[i] EXCEPT !.linkCount = @ - 1]
  <2>1. i \in DOMAIN globalFile /\ task[w].path \in Paths
    BY <1>0, <1>2 DEF TaskInv, RmCount
  <2>2. globalFile[i] \in GlobalRow
    BY <1>0, <2>1, RowProperties
  <2>3. row \in GlobalRow /\ row.hash = globalFile[i].hash
    <3>1. ASSUME NEW r \in GlobalRow, NEW n \in Int
          PROVE  [r EXCEPT !.linkCount = n] \in GlobalRow /\ [r EXCEPT !.linkCount = n].hash = r.hash
      BY DEF GlobalRow
    <3>2. globalFile[i].linkCount - 1 \in Int
      BY <2>2 DEF GlobalRow
    <3>. QED BY <2>2, <3>1, <3>2
  <2>4. globalFile' = [globalFile EXCEPT ![i] = row]
    BY <1>2 DEF RmCount
  <2>5. "rmRead" \in Labels /\ Goto(w, "rmRead")
    BY <1>2 DEF Labels, RmCount
  <2>6. /\ task' = [task EXCEPT ![w] = [task[w] EXCEPT !.at = "rmRead"]]
        /\ [task[w] EXCEPT !.at = "rmRead"] \in Locals
        /\ task'[w] = [task[w] EXCEPT !.at = "rmRead"]
    BY <2>5, Moved
  <2>. HIDE DEF row
  <2>7. /\ globalFile' \in Seq(GlobalRow) /\ DOMAIN globalFile' = DOMAIN globalFile
        /\ \A j \in DOMAIN globalFile : globalFile'[j].hash = globalFile[j].hash
    BY <1>0, <2>1, <2>3, <2>4, RowUpdated
  <2>8. TaskInv(w)'
    BY <1>0, <2>1, <2>6, <2>7 DEF TaskInv, Locals
  <2>. QED BY <1>2, <2>6, <2>7, <2>8, SameRows DEF RmCount
<1>3. CASE RmTime(w)
  <2>. DEFINE i == task[w].hashId
              row == [globalFile[i] EXCEPT !.lastLinkTime = "NOW"]
  <2>1. i \in DOMAIN globalFile
    BY <1>0, <1>3 DEF TaskInv, RmTime
  <2>2. globalFile[i] \in GlobalRow
    BY <1>0, <2>1, RowProperties
  <2>3. row \in GlobalRow /\ row.hash = globalFile[i].hash
    BY <2>2 DEF GlobalRow
  <2>4. globalFile' = [globalFile EXCEPT ![i] = row]
    BY <1>3 DEF RmTime
  <2>5. task' = [task EXCEPT ![w] = Idle] /\ task'[w] = Idle /\ Idle \in Locals
    BY <1>3, Moved DEF RmTime
  <2>. HIDE DEF row
  <2>6. /\ globalFile' \in Seq(GlobalRow) /\ DOMAIN globalFile' = DOMAIN globalFile
        /\ \A j \in DOMAIN globalFile : globalFile'[j].hash = globalFile[j].hash
    BY <1>0, <2>1, <2>3, <2>4, RowUpdated
  <2>7. TaskInv(w)'
    BY <2>5 DEF TaskInv, Idle
  <2>. QED BY <1>3, <2>5, <2>6, <2>7, SameRows DEF RmTime
<1>. QED BY <1>1, <1>2, <1>3

\* The new row is that of the file that has just been completed.
LEMMA AddGlobFileInv == ASSUME IInv, NEW w \in Workers, AddGlobFile(w) PROVE IInv'
<1>. DEFINE row == [hash |-> task[w].hash, linkCount |-> 1, lastLinkTime |-> NULL]
            n == Len(globalFile)
<1>0. /\ TypeOK /\ StoreInv /\ TaskInv(w) /\ task[w] \in Locals
      /\ globalFile \in Seq(GlobalRow) /\ task[w].at = "addGlob"
      /\ issued \in Nat /\ hangups \in Nat /\ crashes \in Nat /\ refused \in Nat /\ resets \in Nat
  BY DEF IInv, TypeOK, AddGlobFile
<1>1. /\ task[w].hash \in Hashes /\ (resets = 0 => disk[task[w].hash] = Whole)
      /\ task[w].path \in Paths /\ task[w].len \in 0..Size
  BY <1>0 DEF TaskInv
<1>2. row \in GlobalRow
  BY <1>1 DEF GlobalRow
<1>3. globalFile' = Append(globalFile, row) /\ UNCHANGED <<virtualFile, disk, counters>>
  BY DEF AddGlobFile
<1>4. n \in Nat /\ DOMAIN globalFile = 1..n
  BY <1>0, RowProperties
<1>5. /\ globalFile' \in Seq(GlobalRow) /\ Len(globalFile') = n + 1
      /\ \A i \in 1..n : globalFile'[i] = globalFile[i]
      /\ globalFile'[n + 1] = row
  <2>. HIDE DEF row
  <2>. QED BY <1>0, <1>2, <1>3, AppendProperties
<1>6. DOMAIN globalFile' = 1..(n + 1)
  BY <1>5, LenProperties
<1>7. Grows
  <2>1. \A g \in Hashes : IsPrefix(disk[g]) => Len(disk[g]) \in Nat
    BY PrefixProperties DEF IsPrefix
  <2>2. DOMAIN globalFile \subseteq DOMAIN globalFile'
    BY <1>4, <1>6
  <2>. QED BY <1>3, <2>1, <2>2 DEF Grows
<1>8. StoreInv'
  <2>1. resets' = 0 => \A i \in DOMAIN globalFile' : disk'[globalFile'[i].hash] = Whole
    <3>1. SUFFICES ASSUME resets = 0, NEW i \in 1..(n + 1)
                   PROVE  disk[globalFile'[i].hash] = Whole
      BY <1>3, <1>6
    <3>2. CASE i \in 1..n
      BY <3>1, <3>2, <1>0, <1>4, <1>5 DEF StoreInv
    <3>3. CASE i = n + 1
      BY <3>1, <3>3, <1>1, <1>5
    <3>. QED BY <3>2, <3>3, <1>4
  <2>. QED BY <2>1, <1>0, <1>3, <1>7 DEF StoreInv, Grows
<1>9. /\ task' = [task EXCEPT ![w] = [task[w] EXCEPT !.at = "getId"]]
      /\ [task[w] EXCEPT !.at = "getId"] \in Locals
      /\ task'[w] = [task[w] EXCEPT !.at = "getId"]
  BY Moved DEF AddGlobFile, Labels
<1>10. TaskInv(w)'
  BY <1>0, <1>1, <1>9 DEF TaskInv, Locals
<1>11. /\ virtualFile \in [Paths -> {NULL} \cup [hashId : Nat, fileSize : 0..Size]]
       /\ disk \in [Hashes -> {NULL} \cup Seq(1..Size)]
  BY <1>0 DEF TypeOK
<1>. HIDE DEF row
<1>. QED BY <1>0, <1>3, <1>5, <1>7, <1>8, <1>9, <1>10, <1>11, StepInv

\* The foreign key sees to it that a path's row refers to a row that exists.
LEMMA VirtualInv ==
  ASSUME IInv, NEW w \in Workers, AddVirtual(w) \/ RmDelete(w)
  PROVE  IInv'
<1>0. /\ TypeOK /\ StoreInv /\ TaskInv(w) /\ task[w] \in Locals
      /\ globalFile \in Seq(GlobalRow)
      /\ virtualFile \in [Paths -> {NULL} \cup [hashId : Nat, fileSize : 0..Size]]
      /\ disk \in [Hashes -> {NULL} \cup Seq(1..Size)]
      /\ issued \in Nat /\ hangups \in Nat /\ crashes \in Nat /\ refused \in Nat /\ resets \in Nat
  BY DEF IInv, TypeOK
<1>1. \A g \in Hashes : IsPrefix(disk[g]) => Len(disk[g]) \in Nat
  BY PrefixProperties DEF IsPrefix
<1>2. CASE AddVirtual(w)
  <2>. DEFINE size == IF task[w].len = 0 THEN task[w].st_size ELSE task[w].len
              row == [hashId |-> task[w].hashId, fileSize |-> size]
  <2>1. /\ task[w].at = "insert" /\ task[w].path \in Paths /\ task[w].len \in 0..Size
        /\ task[w].hashId \in Nat /\ task[w].st_size \in 0..Size /\ task[w].hash \in Hashes
    BY <1>0, <1>2 DEF AddVirtual, TaskInv, Locals
  <2>2. row \in [hashId : Nat, fileSize : 0..Size] /\ row.hashId = task[w].hashId
    BY <2>1
  <2>3. /\ UNCHANGED <<globalFile, disk, counters>>
        /\ virtualFile' = virtualFile
           \/ /\ virtualFile' = [virtualFile EXCEPT ![task[w].path] = row]
              /\ task[w].hashId \in DOMAIN globalFile
    BY <1>2 DEF AddVirtual
  <2>. HIDE DEF row
  <2>4. virtualFile' \in [Paths -> {NULL} \cup [hashId : Nat, fileSize : 0..Size]]
    BY <1>0, <2>1, <2>2, <2>3
  <2>5. StoreInv'
    BY <1>0, <2>1, <2>2, <2>3 DEF StoreInv
  <2>6. Grows
    BY <1>1, <2>3 DEF Grows
  <2>7. CASE Goto(w, "link")
    <3>1. /\ task' = [task EXCEPT ![w] = [task[w] EXCEPT !.at = "link"]]
          /\ [task[w] EXCEPT !.at = "link"] \in Locals
          /\ task'[w] = [task[w] EXCEPT !.at = "link"]
      BY <2>7, Moved DEF Labels
    <3>2. task'[w].at = "link"
      BY <1>0, <3>1 DEF Locals
    <3>3. TaskInv(w)'
      BY <3>2 DEF TaskInv
    <3>. QED BY <1>0, <2>3, <2>4, <2>5, <2>6, <3>1, <3>3, StepInv
  <2>8. CASE Finish(w)
    <3>1. task' = [task EXCEPT ![w] = Idle] /\ task'[w] = Idle /\ Idle \in Locals
      BY <2>8, Moved
    <3>2. TaskInv(w)'
      BY <3>1 DEF TaskInv, Idle
    <3>. QED BY <1>0, <2>3, <2>4, <2>5, <2>6, <3>1, <3>2, StepInv
  <2>. QED BY <1>2, <2>7, <2>8 DEF AddVirtual
<1>3. CASE RmDelete(w)
  <2>1. /\ UNCHANGED <<globalFile, disk, counters>> /\ task[w].at = "rmDelete"
        /\ virtualFile' = [virtualFile EXCEPT ![task[w].path] = NULL]
        /\ Goto(w, "rmCount")
    BY <1>3 DEF RmDelete
  <2>2. task[w].path \in Paths /\ task[w].hashId \in DOMAIN globalFile
    BY <1>0, <2>1 DEF TaskInv
  <2>3. virtualFile' \in [Paths -> {NULL} \cup [hashId : Nat, fileSize : 0..Size]]
    BY <1>0, <2>1
  <2>4. StoreInv' /\ Grows
    BY <1>0, <1>1, <2>1, <2>2 DEF StoreInv, Grows
  <2>5. /\ task' = [task EXCEPT ![w] = [task[w] EXCEPT !.at = "rmCount"]]
        /\ [task[w] EXCEPT !.at = "rmCount"] \in Locals
        /\ task'[w] = [task[w] EXCEPT !.at = "rmCount"]
    BY <2>1, Moved DEF Labels
  <2>6. TaskInv(w)'
    BY <1>0, <2>1, <2>2, <2>5 DEF TaskInv, Locals
  <2>. QED BY <1>0, <2>1, <2>3, <2>4, <2>5, <2>6, StepInv
<1>. QED BY <1>2, <1>3

\* A refused statement leaves the tables and the files, and sends its worker on
\* with no more than it knows.
LEMMA RefusedInv ==
  ASSUME IInv, NEW w \in Workers, StatementRefused(w) \/ SelectRefused(w)
  PROVE  IInv'
<1>0. /\ TypeOK /\ StoreInv /\ task \in [Workers -> Locals] /\ task[w] \in Locals
      /\ TaskInv(w) /\ issued \in Nat /\ hangups \in Nat /\ crashes \in Nat
      /\ resets \in Nat /\ refused \in Nat
  BY DEF IInv, TypeOK
<1>1. UNCHANGED <<globalFile, virtualFile, disk, hangups, resets, crashes>>
  BY DEF StatementRefused, SelectRefused
<1>2. issued' \in Nat /\ refused' \in Nat
  <2>1. /\ issued' = issued \/ issued' = issued + 1
        /\ refused' = refused + 1
    BY DEF StatementRefused, SelectRefused
  <2>. QED BY <1>0, <2>1
<1>3. ASSUME Finish(w) PROVE IInv'
  BY <1>0, <1>1, <1>2, <1>3, FinishInv
<1>4. ASSUME Goto(w, "getId"), task[w].at = "addGlob" PROVE IInv'
  <2>1. task'[w] = [task[w] EXCEPT !.at = "getId"] /\ "getId" \in Labels
    BY <1>4, Moved DEF Labels
  <2>2. TaskInv(w)'
    BY <1>0, <1>4, <2>1 DEF TaskInv, Locals
  <2>. HIDE DEF Goto
  <2>. QED BY <1>0, <1>1, <1>2, <1>4, <2>1, <2>2, GotoInv
<1>5. ASSUME task[w].at = "getId",
             task' = [task EXCEPT ![w].at = "insert", ![w].hashId = 0]
      PROVE  IInv'
  <2>. DEFINE t == [task[w] EXCEPT !.at = "insert", !.hashId = 0]
  <2>1. task' = [task EXCEPT ![w] = t] /\ task'[w] = t
    BY <1>0, <1>5
  <2>2. t \in Locals
    BY <1>0 DEF Locals, Labels
  <2>3. TaskInv(w)'
    BY <1>0, <1>1, <1>5, <2>1 DEF TaskInv, Locals
  <2>. HIDE DEF t
  <2>. QED BY <1>0, <1>1, <1>2, <2>1, <2>2, <2>3, OneTask
<1>6. ASSUME Goto(w, "link") PROVE IInv'
  <2>1. task'[w] = [task[w] EXCEPT !.at = "link"] /\ "link" \in Labels
    BY <1>6, Moved DEF Labels
  <2>2. TaskInv(w)'
    BY <1>0, <2>1 DEF TaskInv, Locals
  <2>. HIDE DEF Goto
  <2>. QED BY <1>0, <1>1, <1>2, <1>6, <2>1, <2>2, GotoInv
<1>7. ASSUME UNCHANGED task PROVE IInv'
  <2>1. task' = [task EXCEPT ![w] = task[w]]
    BY <1>0, <1>7
  <2>2. TaskInv(w)'
    BY <1>0, <1>1, <1>7 DEF TaskInv
  <2>. QED BY <1>0, <1>1, <1>2, <2>1, <2>2, OneTask
<1>8. ASSUME NEW i \in DOMAIN globalFile,
             task' = [task EXCEPT ![w] = [Idle EXCEPT !.at = "getsOpen", !.hash = globalFile[i].hash]]
      PROVE  IInv'
  <2>. DEFINE h == globalFile[i].hash
              t == [Idle EXCEPT !.at = "getsOpen", !.hash = h]
  <2>1. h \in Hashes /\ (resets = 0 => disk[h] = Whole)
    BY <1>0, RowProperties DEF StoreInv
  <2>2. task' = [task EXCEPT ![w] = t] /\ task'[w] = t
    BY <1>0, <1>8
  <2>3. Idle \in Locals
    BY Moved
  <2>4. t \in Locals
    BY <2>1, <2>3 DEF Locals, Labels
  <2>5. t.at = "getsOpen" /\ t.hash = h
    BY <2>3 DEF Locals
  <2>6. (resets' = 0 => disk'[t.hash] = Whole) /\ t.hash \in Hashes
    BY <1>1, <2>1, <2>5
  <2>. HIDE DEF t
  <2>7. TaskInv(w)'
    BY <2>2, <2>5, <2>6 DEF TaskInv
  <2>. QED BY <1>0, <1>1, <1>2, <2>2, <2>4, <2>7, OneTask
<1>9. CASE StatementRefused(w)
  <2>. HIDE DEF Goto, Finish
  <2>1. CASE task[w].at = "insert"
    BY <1>3, <1>6, <1>9, <2>1 DEF StatementRefused, InRm
  <2>2. CASE task[w].at # "insert"
    BY <1>3, <1>4, <1>5, <1>9, <2>2 DEF StatementRefused
  <2>. QED BY <2>1, <2>2
<1>10. CASE SelectRefused(w)
  BY <1>7, <1>8, <1>10 DEF SelectRefused
<1>. QED BY <1>9, <1>10

-------------------------------------------------------------------------------
(* The theorems *)

\* A crash forgets what the workers know and keeps what the store is.
LEMMA CrashInv == IInv /\ Crash => IInv'
<1>. SUFFICES ASSUME IInv, Crash PROVE IInv'
  OBVIOUS
<1>2. task' = [w \in Workers |-> Idle] /\ Idle \in Locals
  <2>1. Idle \in Locals
    BY DEF Idle, Locals, Labels
  <2>. QED BY <2>1 DEF Crash
<1>1. crashes' = crashes + 1 /\ UNCHANGED <<globalFile, virtualFile, disk, issued, hangups, resets, refused>>
  BY DEF Crash
<1>3. TypeOK' /\ StoreInv'
  <2>1. task' \in [Workers -> Locals]
    BY <1>2
  <2>. QED BY <2>1, <1>1 DEF IInv, TypeOK, StoreInv
<1>4. \A w \in Workers : TaskInv(w)'
  BY <1>2 DEF TaskInv, Idle
<1>. QED BY <1>3, <1>4 DEF IInv

\* IInv is inductive.
LEMMA NextInv == IInv /\ [Next]_vars => IInv'
<1>1. ASSUME IInv, UNCHANGED vars PROVE IInv'
  BY <1>1 DEF vars, IInv, TypeOK, StoreInv, TaskInv
<1>2. ASSUME IInv, NEW w \in Workers, Puts(w) PROVE IInv'
  BY <1>2, PutsOpenInv, PutsLenInv, MoveInv, RecvChunkInv, AddGlobFileInv, SelectInv,
     VirtualInv, TableInv DEF Puts
<1>3. ASSUME IInv, NEW w \in Workers, Rm(w) PROVE IInv'
  BY <1>3, MoveInv, SelectInv, VirtualInv, TableInv DEF Rm
<1>4. ASSUME IInv, NEW w \in Workers, Gets(w) PROVE IInv'
  BY <1>4, MoveInv, SelectInv DEF Gets
<1>. QED BY <1>1, <1>2, <1>3, <1>4, RefusedInv, CrashInv DEF Next, Done

\* The inductive invariant: files are prefixes, rows name whole files until a
\* connection is reset, paths name rows, and what a worker has read of them is still true.
THEOREM Invariance == Spec => []IInv
  BY InitInv, NextInv, PTL DEF Spec

\* puts, gets and rm keep the tables, the files and their locals of their types.
THEOREM TypeCorrect == Spec => []TypeOK
<1>1. IInv => TypeOK
  BY DEF IInv
<1>. QED BY <1>1, Invariance, PTL

\* A path in the user's list has its whole content on disk, whatever uploads,
\* removals, hang-ups and crashes come between, until a connection is reset.
THEOREM Stored == Spec => []ListedIsStored
<1>1. IInv => ListedIsStored
  BY DEF IInv, StoreInv, ListedIsStored, Listed
<1>. QED BY <1>1, Invariance, PTL

\* What gets announces is what the client lacks of the content, until a reset.
THEOREM Sent == Spec => []SentIsWhole
<1>1. IInv => SentIsWhole
  BY DEF IInv, TaskInv, SentIsWhole
<1>. QED BY <1>1, Invariance, PTL
-------------------------------------------------------------------------------
(* Sums of link counts *)

LEMMA InAbove ==
  ASSUME NEW count, NEW Rows
  PROVE  /\ \A u : u \in Above(count, Rows) <=> \E i \in Rows : \E n \in 1..count[i] : u = <<i, n>>
         /\ \A u : u \in Below(count, Rows) <=> \E i \in Rows : \E n \in 1..(-count[i]) : u = <<i, n>>
  BY DEF Above, Below

LEMMA LinksFinite ==
  ASSUME NEW Rows, IsFiniteSet(Rows), NEW size, \A i \in Rows : size[i] \in Int
  PROVE  IsFiniteSet(UNION { {i} \X (1..size[i]) : i \in Rows })
<1>. DEFINE f == [i \in Rows |-> {i} \X (1..size[i])]
            T == { {i} \X (1..size[i]) : i \in Rows }
<1>1. f \in Surjection(Rows, T)
  BY DEF Surjection
<1>2. IsFiniteSet(T)
  <2>. HIDE DEF f, T
  <2>. QED BY <1>1, FS_Surjection
<1>3. ASSUME NEW i \in Rows PROVE IsFiniteSet({i} \X (1..size[i]))
  <2>2. 1 \in Int /\ size[i] \in Int
    OBVIOUS
  <2>3. IsFiniteSet(1..size[i])
    BY <2>2, FS_Interval, Zenon
  <2>1. IsFiniteSet({i}) /\ IsFiniteSet(1..size[i])
    BY <2>3, FS_Singleton
  <2>. QED BY <2>1, FS_Product
<1>4. \A x \in T : IsFiniteSet(x)
  BY <1>3
<1>. QED BY <1>2, <1>4, FS_UNION

LEMMA SumType ==
  ASSUME NEW Rows, IsFiniteSet(Rows), NEW count, \A i \in Rows : count[i] \in Int
  PROVE  /\ IsFiniteSet(Above(count, Rows)) /\ IsFiniteSet(Below(count, Rows))
         /\ Cardinality(Above(count, Rows)) \in Nat /\ Cardinality(Below(count, Rows)) \in Nat
         /\ Sum(count, Rows) \in Int
<1>1. IsFiniteSet(Above(count, Rows))
  BY LinksFinite DEF Above
<1>2. IsFiniteSet(Below(count, Rows))
  <2>. DEFINE neg == [i \in Rows |-> -count[i]]
  <2>1. \A i \in Rows : neg[i] \in Int /\ neg[i] = -count[i]
    OBVIOUS
  <2>2. UNION { {i} \X (1..neg[i]) : i \in Rows } = Below(count, Rows)
    BY DEF Below
  <2>3. IsFiniteSet(UNION { {i} \X (1..neg[i]) : i \in Rows })
    <3>. HIDE DEF neg
    <3>. QED BY <2>1, LinksFinite
  <2>. QED BY <2>2, <2>3
<1>3. Cardinality(Above(count, Rows)) \in Nat /\ Cardinality(Below(count, Rows)) \in Nat
  BY <1>1, <1>2, FS_CardinalityType
<1>. QED BY <1>1, <1>2, <1>3 DEF Sum

LEMMA SumSame ==
  ASSUME NEW Rows, NEW a, NEW b, \A i \in Rows : b[i] = a[i]
  PROVE  Sum(b, Rows) = Sum(a, Rows)
<1>1. Above(b, Rows) = Above(a, Rows) /\ Below(b, Rows) = Below(a, Rows)
  BY DEF Above, Below
<1>. QED BY <1>1 DEF Sum

LEMMA SumEmpty ==
  ASSUME NEW count
  PROVE  Sum(count, {}) = 0
<1>1. Above(count, {}) = {} /\ Below(count, {}) = {}
  BY DEF Above, Below
<1>2. Cardinality({}) - Cardinality({}) = 0
  BY FS_EmptySet
<1>. QED BY <1>1, <1>2, Zenon DEF Sum

\* A row is added, with one link.
LEMMA SumNew ==
  ASSUME NEW Rows, IsFiniteSet(Rows), NEW a, NEW b, NEW j, j \notin Rows, b[j] = 1,
         \A i \in Rows : a[i] \in Int /\ b[i] = a[i]
  PROVE  Sum(b, Rows \cup {j}) = Sum(a, Rows) + 1
<1>1. Above(b, Rows \cup {j}) = Above(a, Rows) \cup {<<j, 1>>}
  <2>1. ASSUME NEW u PROVE u \in Above(b, Rows \cup {j}) <=> u \in Above(a, Rows) \/ u = <<j, 1>>
    BY InAbove
  <2>. QED BY <2>1
<1>2. Below(b, Rows \cup {j}) = Below(a, Rows)
  <2>1. ASSUME NEW u PROVE u \in Below(b, Rows \cup {j}) <=> u \in Below(a, Rows)
    BY InAbove
  <2>. QED BY <2>1
<1>3. <<j, 1>> \notin Above(a, Rows)
  BY InAbove
<1>4. IsFiniteSet(Above(a, Rows)) /\ Cardinality(Above(a, Rows)) \in Nat /\ Cardinality(Below(a, Rows)) \in Nat
  BY SumType
<1>5. Cardinality(Above(a, Rows) \cup {<<j, 1>>}) = Cardinality(Above(a, Rows)) + 1
  BY <1>3, <1>4, FS_AddElement
<1>6. Sum(b, Rows \cup {j}) = (Cardinality(Above(a, Rows)) + 1) - Cardinality(Below(a, Rows))
  BY <1>1, <1>2, <1>5, Zenon DEF Sum
<1>7. Sum(a, Rows) = Cardinality(Above(a, Rows)) - Cardinality(Below(a, Rows))
  BY DEF Sum
<1>. QED BY <1>4, <1>6, <1>7

\* A row has one link less.
LEMMA SumLess ==
  ASSUME NEW Rows, IsFiniteSet(Rows), NEW a, NEW b, NEW j \in Rows, b[j] = a[j] - 1,
         \A i \in Rows : a[i] \in Int /\ (i # j => b[i] = a[i])
  PROVE  Sum(b, Rows) = Sum(a, Rows) - 1
<1>1. /\ IsFiniteSet(Above(a, Rows)) /\ Cardinality(Above(a, Rows)) \in Nat
      /\ IsFiniteSet(Below(a, Rows)) /\ Cardinality(Below(a, Rows)) \in Nat
  BY SumType
<1>2. a[j] \in Int
  OBVIOUS
<1>3. CASE a[j] > 0
  <2>. DEFINE x == <<j, a[j]>>
  <2>1. Above(b, Rows) = Above(a, Rows) \ {x}
    <3>1. ASSUME NEW u PROVE u \in Above(b, Rows) <=> u \in Above(a, Rows) /\ u # x
      BY <1>2, <1>3, InAbove
    <3>. QED BY <3>1
  <2>2. Below(b, Rows) = Below(a, Rows)
    <3>1. ASSUME NEW u PROVE u \in Below(b, Rows) <=> u \in Below(a, Rows)
      BY <1>2, <1>3, InAbove
    <3>. QED BY <3>1
  <2>3. x \in Above(a, Rows)
    BY <1>2, <1>3, InAbove
  <2>. HIDE DEF x
  <2>4. Cardinality(Above(a, Rows) \ {x}) = Cardinality(Above(a, Rows)) - 1
    BY <1>1, <2>3, FS_RemoveElement
  <2>. QED BY <1>1, <2>1, <2>2, <2>4 DEF Sum
<1>4. CASE a[j] <= 0
  <2>. DEFINE x == <<j, -b[j]>>
  <2>1. Below(b, Rows) = Below(a, Rows) \cup {x}
    <3>1. ASSUME NEW u PROVE u \in Below(b, Rows) <=> u \in Below(a, Rows) \/ u = x
      BY <1>2, <1>4, InAbove
    <3>. QED BY <3>1
  <2>2. Above(b, Rows) = Above(a, Rows)
    <3>1. ASSUME NEW u PROVE u \in Above(b, Rows) <=> u \in Above(a, Rows)
      BY <1>2, <1>4, InAbove
    <3>. QED BY <3>1
  <2>3. x \notin Below(a, Rows)
    BY <1>2, <1>4, InAbove
  <2>. HIDE DEF x
  <2>4. Cardinality(Below(a, Rows) \cup {x}) = Cardinality(Below(a, Rows)) + 1
    BY <1>1, <2>3, FS_AddElement
  <2>. QED BY <1>1, <2>1, <2>2, <2>4 DEF Sum
<1>. QED BY <1>2, <1>3, <1>4

\* Every row has one link more.
LEMMA SumMore ==
  ASSUME NEW Rows, IsFiniteSet(Rows), NEW a, NEW b, NEW j \in Rows,
         \A i \in Rows : a[i] \in Int /\ b[i] = a[i] + 1
  PROVE  Sum(b, Rows) >= Sum(a, Rows) + 1
<1>1. /\ IsFiniteSet(Above(a, Rows)) /\ Cardinality(Above(a, Rows)) \in Nat
      /\ IsFiniteSet(Below(a, Rows)) /\ Cardinality(Below(a, Rows)) \in Nat
  BY SumType
<1>2. /\ IsFiniteSet(Above(b, Rows)) /\ Cardinality(Above(b, Rows)) \in Nat
      /\ IsFiniteSet(Below(b, Rows)) /\ Cardinality(Below(b, Rows)) \in Nat
  BY SumType
<1>3. Above(a, Rows) \subseteq Above(b, Rows)
  <2>1. ASSUME NEW u, u \in Above(a, Rows) PROVE u \in Above(b, Rows)
    <3>3. PICK i \in Rows : \E n \in 1..a[i] : u = <<i, n>>
      BY <2>1, InAbove
    <3>1. PICK n \in 1..a[i] : u = <<i, n>>
      BY <3>3
    <3>2. n \in 1..b[i]
      BY <3>1
    <3>. QED BY <3>1, <3>2, InAbove
  <2>. QED BY <2>1
<1>4. Below(b, Rows) \subseteq Below(a, Rows)
  <2>1. ASSUME NEW u, u \in Below(b, Rows) PROVE u \in Below(a, Rows)
    <3>3. PICK i \in Rows : \E n \in 1..(-b[i]) : u = <<i, n>>
      BY <2>1, InAbove
    <3>1. PICK n \in 1..(-b[i]) : u = <<i, n>>
      BY <3>3
    <3>2. n \in 1..(-a[i])
      BY <3>1
    <3>. QED BY <3>1, <3>2, InAbove
  <2>. QED BY <2>1
<1>5. Cardinality(Above(a, Rows)) <= Cardinality(Above(b, Rows))
      /\ (Cardinality(Above(a, Rows)) = Cardinality(Above(b, Rows)) => Above(a, Rows) = Above(b, Rows))
  BY <1>2, <1>3, FS_Subset
<1>6. Cardinality(Below(b, Rows)) <= Cardinality(Below(a, Rows))
      /\ (Cardinality(Below(b, Rows)) = Cardinality(Below(a, Rows)) => Below(b, Rows) = Below(a, Rows))
  BY <1>1, <1>4, FS_Subset
<1>7. ~(Above(a, Rows) = Above(b, Rows) /\ Below(b, Rows) = Below(a, Rows))
  <2>1. a[j] \in Int /\ b[j] = a[j] + 1
    OBVIOUS
  <2>2. CASE a[j] >= 0
    <3>1. <<j, b[j]>> \in Above(b, Rows) /\ <<j, b[j]>> \notin Above(a, Rows)
      BY <2>1, <2>2, InAbove
    <3>. QED BY <3>1
  <2>3. CASE a[j] < 0
    <3>1. <<j, -a[j]>> \in Below(a, Rows) /\ <<j, -a[j]>> \notin Below(b, Rows)
      BY <2>1, <2>3, InAbove
    <3>. QED BY <3>1
  <2>. QED BY <2>1, <2>2, <2>3
<1>. QED BY <1>1, <1>2, <1>5, <1>6, <1>7 DEF Sum

\* Two sets that differ in one element at most.
LEMMA OneMember ==
  ASSUME NEW S, NEW T, NEW x, IsFiniteSet(S), \A y : y # x => (y \in T <=> y \in S)
  PROVE  /\ IsFiniteSet(T) /\ Cardinality(T) \in Nat /\ Cardinality(S) \in Nat
         /\ x \in S /\ x \notin T => Cardinality(T) = Cardinality(S) - 1
         /\ x \notin S /\ x \in T => Cardinality(T) = Cardinality(S) + 1
         /\ (x \in S <=> x \in T) => T = S
<1>1. /\ IsFiniteSet(S \cup {x}) /\ IsFiniteSet(S \ {x})
      /\ x \notin S => Cardinality(S \cup {x}) = Cardinality(S) + 1
      /\ x \in S => Cardinality(S \ {x}) = Cardinality(S) - 1
  BY FS_AddElement, FS_RemoveElement
<1>2. CASE x \in T
  <2>1. T = S \cup {x}
    BY <1>2
  <2>2. IsFiniteSet(T)
    BY <1>1, <2>1
  <2>. QED BY <1>1, <1>2, <2>1, <2>2, FS_CardinalityType
<1>3. CASE x \notin T
  <2>1. T = S \ {x}
    BY <1>3
  <2>2. IsFiniteSet(T)
    BY <1>1, <2>1
  <2>. QED BY <1>1, <1>3, <2>1, <2>2, FS_CardinalityType
<1>. QED BY <1>2, <1>3

-------------------------------------------------------------------------------
(* Why the links cover the paths: LinkInv, for removals that come one at a time. *)

RowsIn(rows, h) == { i \in DOMAIN rows : rows[i].hash = h }
CountIn(rows) == [i \in DOMAIN rows |-> rows[i].linkCount]
LinksIn(rows, h) == Sum(CountIn(rows), RowsIn(rows, h))

\* The workers that have added a row for h, or were refused it, and may list a path for it.
Uploaded(h) ==
  { w \in Workers : task[w].at \in {"getId", "insert"} /\ task[w].hash = h /\ task[w].len # 0 }


Covers ==
  \A h \in Hashes :
    /\ IsFiniteSet(Listed(h))
    /\ Links(h) + Cardinality(Adding(h)) + refused
         >= Cardinality(Listed(h)) + Cardinality(Removing(h)) + Cardinality(Uploaded(h))

\* While a content has no row, every upload of it that is past add_globFile was refused one.
Owed == \A h \in Hashes : RowsOf(h) = {} => Cardinality(Uploaded(h)) <= refused

\* The path an rm is to delete is still the one it selected, and the row an upload
\* lists its path with is one of its content.
LinkTask(w) ==
  LET t == task[w] IN
    /\ t.at = "rmDelete" => virtualFile[t.path] # NULL /\ virtualFile[t.path].hashId = t.hashId
    /\ t.at = "insert" => t.hashId = 0 \/ t.hashId \in RowsOf(t.hash)
    /\ t.at = "link" => t.hash \in Hashes
    /\ t.at = "len" => t.len = 0

LinkInv ==
  /\ Cardinality(InRm) <= MaxRm
  /\ crashes = 0 => Covers /\ Owed /\ \A w \in Workers : LinkTask(w)

LEMMA RowsFinite ==
  ASSUME NEW rows \in Seq(GlobalRow), NEW h
  PROVE  /\ IsFiniteSet(RowsIn(rows, h))
         /\ \A i \in DOMAIN rows : rows[i].linkCount \in Int /\ CountIn(rows)[i] = rows[i].linkCount
         /\ LinksIn(rows, h) \in Int
<1>1. Len(rows) \in Nat /\ DOMAIN rows = 1..Len(rows)
  BY LenProperties
<1>2. \A i \in DOMAIN rows : rows[i] \in GlobalRow
  BY <1>1, ElementOfSeq
<1>3. \A i \in DOMAIN rows : rows[i].linkCount \in Int /\ CountIn(rows)[i] = rows[i].linkCount
  BY <1>2 DEF GlobalRow, CountIn
<1>4. IsFiniteSet(RowsIn(rows, h))
  <2>1. 1 \in Int /\ Len(rows) \in Int
    BY <1>1
  <2>2. IsFiniteSet(1..Len(rows))
    BY <2>1, FS_Interval, Zenon
  <2>. QED BY <1>1, <2>2, FS_Subset DEF RowsIn
<1>5. \A i \in RowsIn(rows, h) : CountIn(rows)[i] \in Int
  BY <1>3 DEF RowsIn
<1>. QED BY <1>3, <1>4, <1>5, SumType DEF LinksIn

LEMMA LinksAre ==
  ASSUME NEW h
  PROVE  Links(h) = LinksIn(globalFile, h) /\ Links(h)' = LinksIn(globalFile', h)
  BY DEF Links, LinksIn, CountIn, RowsIn, RowsOf

RmLabels == {"rmDelete", "rmCount", "rmRead", "rmTime"}
RowsKept ==
  /\ DOMAIN globalFile \subseteq DOMAIN globalFile'
  /\ \A i \in DOMAIN globalFile : globalFile'[i].hash = globalFile[i].hash
OthersWait(w) == \A v \in Workers : v # w => task'[v] = task[v]

\* A step of w moves no other worker in or out of the sets.
LEMMA Members ==
  ASSUME IInv, NEW w \in Workers, OthersWait(w), RowsKept, NEW h
  PROVE  \A y : y # w =>
           /\ y \in Adding(h)' <=> y \in Adding(h)
           /\ y \in Removing(h)' <=> y \in Removing(h)
           /\ y \in Uploaded(h)' <=> y \in Uploaded(h)
<1>1. ASSUME NEW y \in Workers, y # w
      PROVE  /\ y \in Adding(h)' <=> y \in Adding(h)
             /\ y \in Removing(h)' <=> y \in Removing(h)
             /\ y \in Uploaded(h)' <=> y \in Uploaded(h)
  <2>1. task'[y] = task[y] /\ (task[y].at = "rmCount" => task[y].hashId \in DOMAIN globalFile)
    BY <1>1 DEF OthersWait, IInv, TaskInv
  <2>2. task[y].at = "rmCount" => globalFile'[task[y].hashId].hash = globalFile[task[y].hashId].hash
    BY <2>1 DEF RowsKept
  <2>. QED BY <2>1, <2>2 DEF Adding, Removing, Uploaded
<1>. QED BY <1>1 DEF Adding, Removing, Uploaded

Bit(b) == IF b THEN 1 ELSE 0

LEMMA BitOf ==
  ASSUME NEW S, NEW T, NEW x, IsFiniteSet(S), \A y : y # x => (y \in T <=> y \in S)
  PROVE  /\ IsFiniteSet(T) /\ Cardinality(T) \in Nat /\ Cardinality(S) \in Nat
         /\ Cardinality(T) = Cardinality(S) + Bit(x \in T) - Bit(x \in S)
<1>1. /\ IsFiniteSet(T) /\ Cardinality(T) \in Nat /\ Cardinality(S) \in Nat
      /\ x \in S /\ x \notin T => Cardinality(T) = Cardinality(S) - 1
      /\ x \notin S /\ x \in T => Cardinality(T) = Cardinality(S) + 1
      /\ (x \in S <=> x \in T) => T = S
  BY OneMember
<1>2. CASE x \in S /\ x \in T
  BY <1>1, <1>2 DEF Bit
<1>3. CASE x \in S /\ x \notin T
  BY <1>1, <1>3 DEF Bit
<1>4. CASE x \notin S /\ x \in T
  BY <1>1, <1>4 DEF Bit
<1>5. CASE x \notin S /\ x \notin T
  BY <1>1, <1>5 DEF Bit
<1>. QED BY <1>1, <1>2, <1>3, <1>4, <1>5

\* What w and the path p do to the balance of h.
Gains(w, p, h) ==
  Bit(p \in Listed(h)') - Bit(p \in Listed(h)) + (Bit(w \in Removing(h)') - Bit(w \in Removing(h)))
    + (Bit(w \in Uploaded(h)') - Bit(w \in Uploaded(h)))
    - (Bit(w \in Adding(h)') - Bit(w \in Adding(h)))

\* What a step leaves of the balance of h, when refusals make up for what it loses.
LEMMA CoverMore ==
  ASSUME IInv, TypeOK', Covers, NEW w \in Workers, OthersWait(w), RowsKept, NEW h \in Hashes, NEW p,
         \A y : y # p => (y \in Listed(h)' <=> y \in Listed(h)),
         Links(h)' + refused' >= Links(h) + refused + Gains(w, p, h)
  PROVE  /\ IsFiniteSet(Listed(h)')
         /\ Links(h)' + Cardinality(Adding(h)') + refused'
              >= Cardinality(Listed(h)') + Cardinality(Removing(h)') + Cardinality(Uploaded(h)')
<1>1. IsFiniteSet(Adding(h)) /\ IsFiniteSet(Removing(h)) /\ IsFiniteSet(Uploaded(h))
  <2>1. Adding(h) \subseteq Workers /\ Removing(h) \subseteq Workers /\ Uploaded(h) \subseteq Workers
    BY DEF Adding, Removing, Uploaded
  <2>. QED BY <2>1, FS_Subset
<1>2. Links(h) \in Int /\ Links(h)' \in Int
  <2>1. globalFile \in Seq(GlobalRow) /\ globalFile' \in Seq(GlobalRow)
    BY DEF IInv, TypeOK
  <2>2. LinksIn(globalFile, h) \in Int /\ LinksIn(globalFile', h) \in Int
    BY <2>1, RowsFinite
  <2>. QED BY <2>2, LinksAre
<1>3. /\ Cardinality(Adding(h)) \in Nat /\ Cardinality(Adding(h)') \in Nat
      /\ Cardinality(Adding(h)') = Cardinality(Adding(h)) + Bit(w \in Adding(h)') - Bit(w \in Adding(h))
  BY <1>1, Members, BitOf
<1>4. /\ Cardinality(Removing(h)) \in Nat /\ Cardinality(Removing(h)') \in Nat
      /\ Cardinality(Removing(h)') = Cardinality(Removing(h)) + Bit(w \in Removing(h)') - Bit(w \in Removing(h))
  BY <1>1, Members, BitOf
<1>5. /\ Cardinality(Uploaded(h)) \in Nat /\ Cardinality(Uploaded(h)') \in Nat
      /\ Cardinality(Uploaded(h)') = Cardinality(Uploaded(h)) + Bit(w \in Uploaded(h)') - Bit(w \in Uploaded(h))
  BY <1>1, Members, BitOf
<1>6. /\ IsFiniteSet(Listed(h)') /\ Cardinality(Listed(h)) \in Nat /\ Cardinality(Listed(h)') \in Nat
      /\ Cardinality(Listed(h)') = Cardinality(Listed(h)) + Bit(p \in Listed(h)') - Bit(p \in Listed(h))
  <2>1. IsFiniteSet(Listed(h))
    BY DEF Covers
  <2>. QED BY <2>1, BitOf
<1>7. Links(h) + Cardinality(Adding(h)) + refused
         >= Cardinality(Listed(h)) + Cardinality(Removing(h)) + Cardinality(Uploaded(h))
  BY DEF Covers
<1>8. PICK a, r, u, l :
        /\ a = Bit(w \in Adding(h)') - Bit(w \in Adding(h))
        /\ r = Bit(w \in Removing(h)') - Bit(w \in Removing(h))
        /\ u = Bit(w \in Uploaded(h)') - Bit(w \in Uploaded(h))
        /\ l = Bit(p \in Listed(h)') - Bit(p \in Listed(h))
  OBVIOUS
<1>9. a \in Int /\ r \in Int /\ u \in Int /\ l \in Int
  BY <1>8 DEF Bit
<1>10. /\ Cardinality(Adding(h)') = Cardinality(Adding(h)) + a
       /\ Cardinality(Removing(h)') = Cardinality(Removing(h)) + r
       /\ Cardinality(Uploaded(h)') = Cardinality(Uploaded(h)) + u
       /\ Cardinality(Listed(h)') = Cardinality(Listed(h)) + l
  <2>1. /\ Bit(w \in Adding(h)') \in Int /\ Bit(w \in Adding(h)) \in Int
        /\ Bit(w \in Removing(h)') \in Int /\ Bit(w \in Removing(h)) \in Int
        /\ Bit(w \in Uploaded(h)') \in Int /\ Bit(w \in Uploaded(h)) \in Int
        /\ Bit(p \in Listed(h)') \in Int /\ Bit(p \in Listed(h)) \in Int
    BY DEF Bit
  <2>. QED BY <2>1, <1>3, <1>4, <1>5, <1>6, <1>8
<1>11. Links(h)' + refused' >= Links(h) + refused + (l + r + u - a)
  BY <1>8 DEF Gains
<1>12. /\ Cardinality(Adding(h)) \in Int /\ Cardinality(Removing(h)) \in Int
       /\ Cardinality(Uploaded(h)) \in Int /\ Cardinality(Listed(h)) \in Int
  BY <1>3, <1>4, <1>5, <1>6
<1>13. ASSUME NEW la \in Int, NEW lb \in Int, NEW ca \in Int, NEW cr \in Int, NEW cu \in Int,
              NEW cl \in Int, NEW fa \in Int, NEW fb \in Int,
              la + ca + fa >= cl + cr + cu, lb + fb >= la + fa + (l + r + u - a)
       PROVE  lb + (ca + a) + fb >= (cl + l) + (cr + r) + (cu + u)
  BY <1>9, <1>13
<1>15. refused \in Int /\ refused' \in Int
  BY DEF IInv, TypeOK
<1>14. Links(h)' + (Cardinality(Adding(h)) + a) + refused'
         >= (Cardinality(Listed(h)) + l) + (Cardinality(Removing(h)) + r) + (Cardinality(Uploaded(h)) + u)
  BY <1>2, <1>7, <1>11, <1>12, <1>13, <1>15
<1>. QED BY <1>6, <1>10, <1>14

\* A step that is not refused leaves the balance if the links grow with what it owes.
LEMMA CoverStep ==
  ASSUME IInv, TypeOK', Covers, NEW w \in Workers, OthersWait(w), RowsKept, NEW h \in Hashes, NEW p,
         refused' = refused,
         \A y : y # p => (y \in Listed(h)' <=> y \in Listed(h)),
         Links(h)' >= Links(h) + Gains(w, p, h)
  PROVE  /\ IsFiniteSet(Listed(h)')
         /\ Links(h)' + Cardinality(Adding(h)') + refused'
              >= Cardinality(Listed(h)') + Cardinality(Removing(h)') + Cardinality(Uploaded(h)')
<1>1. Links(h) \in Int /\ Links(h)' \in Int
  <2>1. LinksIn(globalFile, h) \in Int /\ LinksIn(globalFile', h) \in Int
    BY RowsFinite DEF IInv, TypeOK
  <2>. QED BY <2>1, LinksAre
<1>2. Gains(w, p, h) \in Int
  BY DEF Gains, Bit
<1>3. refused \in Int
  BY DEF IInv, TypeOK
<1>4. \A a, b, c, d \in Int : a >= b + c => a + d >= b + d + c
  OBVIOUS
<1>5. Links(h)' + refused >= Links(h) + refused + Gains(w, p, h)
  BY <1>1, <1>2, <1>3, <1>4
<1>. HIDE DEF Gains
<1>. QED BY <1>5, CoverMore

LEMMA LinkStep ==
  ASSUME IInv, LinkInv, NEW w \in Workers, OthersWait(w), RowsKept, crashes' = crashes,
         refused' \in Nat, refused' >= refused,
         task'[w].at \in RmLabels => task[w].at \in RmLabels \/ Cardinality(InRm) < MaxRm,
         crashes = 0 =>
           /\ \A p \in Paths : virtualFile[p] # NULL =>
                virtualFile'[p] = virtualFile[p] \/ (MaxRm <= 1 /\ task[w].at = "rmDelete")
           /\ Covers' /\ LinkTask(w)'
           /\ \A h \in Hashes : w \in Uploaded(h)' =>
                w \in Uploaded(h) \/ RowsOf(h)' # {} \/ refused' >= refused + 1
  PROVE  LinkInv'
<1>1. IsFiniteSet(InRm)
  <2>1. InRm \subseteq Workers
    BY DEF InRm
  <2>. QED BY <2>1, FS_Subset
<1>2. \A y : y # w => (y \in InRm' <=> y \in InRm)
  BY DEF InRm, OthersWait
<1>3. /\ Cardinality(InRm') \in Nat /\ Cardinality(InRm) \in Nat
      /\ Cardinality(InRm') = Cardinality(InRm) + Bit(w \in InRm') - Bit(w \in InRm)
  BY <1>1, <1>2, BitOf
<1>4. Cardinality(InRm') <= MaxRm
  <2>1. CASE w \in InRm' /\ w \notin InRm
    <3>1. Cardinality(InRm) < MaxRm
      BY <2>1 DEF InRm, RmLabels
    <3>. QED BY <1>3, <2>1, <3>1 DEF Bit
  <2>2. CASE w \in InRm \/ w \notin InRm'
    BY <1>3, <2>2 DEF Bit, LinkInv
  <2>. QED BY <2>1, <2>2
<1>5. ASSUME crashes = 0, NEW v \in Workers, v # w PROVE LinkTask(v)'
  <2>1. task'[v] = task[v] /\ LinkTask(v) /\ TaskInv(v)
    BY <1>5 DEF OthersWait, LinkInv, IInv
  <2>2. task[v].at = "rmDelete" => virtualFile'[task[v].path] = virtualFile[task[v].path]
    <3>1. ASSUME task[v].at = "rmDelete" PROVE virtualFile'[task[v].path] = virtualFile[task[v].path]
      <4>1. task[v].path \in Paths /\ virtualFile[task[v].path] # NULL
        BY <2>1, <3>1 DEF LinkTask, TaskInv
      <4>2. ASSUME MaxRm <= 1, task[w].at = "rmDelete" PROVE FALSE
        <5>1. {v, w} \subseteq InRm
          BY <3>1, <4>2 DEF InRm
        <5>2. Cardinality({v, w}) = 2
          <6>1. IsFiniteSet({v}) /\ Cardinality({v}) = 1
            BY FS_Singleton
          <6>2. Cardinality({v} \cup {w}) = 1 + 1
            BY <1>5, <6>1, FS_AddElement
          <6>3. {v, w} = {v} \cup {w}
            OBVIOUS
          <6>. QED BY <6>2, <6>3
        <5>3. Cardinality({v, w}) <= Cardinality(InRm)
          BY <1>1, <5>1, FS_Subset
        <5>. QED BY <1>3, <4>2, <5>2, <5>3 DEF LinkInv
      <4>. QED BY <1>5, <4>1, <4>2
    <3>. QED BY <3>1
  <2>3. \A h : RowsOf(h) \subseteq RowsOf(h)'
    BY DEF RowsKept, RowsOf
  <2>. QED BY <2>1, <2>2, <2>3 DEF LinkTask
<1>6. ASSUME crashes = 0, NEW h \in Hashes, RowsOf(h)' = {}
      PROVE  Cardinality(Uploaded(h)') <= refused'
  <2>1. RowsOf(h) = {}
    BY <1>6 DEF RowsKept, RowsOf
  <2>2. Cardinality(Uploaded(h)) <= refused
    BY <1>6, <2>1 DEF LinkInv, Owed
  <2>3. IsFiniteSet(Uploaded(h))
    <3>1. Uploaded(h) \subseteq Workers
      BY DEF Uploaded
    <3>. QED BY <3>1, FS_Subset
  <2>4. /\ Cardinality(Uploaded(h)) \in Nat /\ Cardinality(Uploaded(h)') \in Nat
        /\ Cardinality(Uploaded(h)') = Cardinality(Uploaded(h)) + Bit(w \in Uploaded(h)') - Bit(w \in Uploaded(h))
    BY <2>3, Members, BitOf
  <2>5. w \in Uploaded(h)' => w \in Uploaded(h) \/ refused' >= refused + 1
    BY <1>6
  <2>6. refused \in Nat
    BY DEF IInv, TypeOK
  <2>7. PICK u \in Nat, v \in Nat : u = Cardinality(Uploaded(h)) /\ v = Cardinality(Uploaded(h)')
    BY <2>4
  <2>8. PICK r \in Nat, t \in Nat : r = refused /\ t = refused'
    BY <2>6
  <2>9. v = u + Bit(w \in Uploaded(h)') - Bit(w \in Uploaded(h)) /\ u <= r /\ t >= r
    BY <2>2, <2>4, <2>7, <2>8
  <2>10. CASE w \in Uploaded(h)' /\ w \notin Uploaded(h)
    <3>1. v = u + 1 /\ t >= r + 1
      BY <2>5, <2>8, <2>9, <2>10 DEF Bit
    <3>. QED BY <3>1, <2>7, <2>8, <2>9
  <2>11. CASE w \in Uploaded(h) \/ w \notin Uploaded(h)'
    <3>1. v <= u
      BY <2>9, <2>11 DEF Bit
    <3>. QED BY <3>1, <2>7, <2>8, <2>9
  <2>. QED BY <2>10, <2>11
<1>. QED BY <1>4, <1>5, <1>6 DEF LinkInv, Owed

\* A step that changes neither paths, rows, links nor what w owes them.
LEMMA Neutral ==
  ASSUME IInv, TypeOK', LinkInv, NEW w \in Workers, OthersWait(w), crashes' = crashes, refused' = refused,
         UNCHANGED virtualFile, RowsKept, \A h \in Hashes : Links(h)' = Links(h),
         task'[w].at \in RmLabels => task[w].at \in RmLabels \/ Cardinality(InRm) < MaxRm,
         task'[w].at \notin {"link", "rmCount"}, task[w].at \notin {"link", "rmCount"},
         \A h : w \in Uploaded(h)' => w \in Uploaded(h),
         crashes = 0 => LinkTask(w)'
  PROVE  LinkInv'
<1>1. ASSUME crashes = 0 PROVE Covers'
  <2>1. Covers
    BY <1>1 DEF LinkInv
  <2>2. ASSUME NEW h \in Hashes
        PROVE  /\ IsFiniteSet(Listed(h)')
               /\ Links(h)' + Cardinality(Adding(h)') + refused'
                    >= Cardinality(Listed(h)') + Cardinality(Removing(h)') + Cardinality(Uploaded(h)')
    <3>1. Listed(h)' = Listed(h)
      <4>1. \A p \in Paths : virtualFile[p] # NULL => virtualFile[p].hashId \in DOMAIN globalFile
        BY DEF IInv, StoreInv
      <4>. QED BY <4>1 DEF Listed, RowsKept
    <3>2. Bit(w \in Adding(h)') = 0 /\ Bit(w \in Adding(h)) = 0
          /\ Bit(w \in Removing(h)') = 0 /\ Bit(w \in Removing(h)) = 0
      BY DEF Bit, Adding, Removing
    <3>3. Bit(w \in Uploaded(h)') - Bit(w \in Uploaded(h)) \in {-1, 0}
      BY DEF Bit
    <3>4. \A p : Bit(p \in Listed(h)) - Bit(p \in Listed(h)) = 0
      BY DEF Bit
    <3>5. Links(h) \in Int
      <4>1. LinksIn(globalFile, h) \in Int
        BY RowsFinite DEF IInv, TypeOK
      <4>. QED BY <4>1, LinksAre
    <3>6. Links(h)' >= Links(h) + Gains(w, NULL, h)
      BY <3>1, <3>2, <3>3, <3>4, <3>5 DEF Gains
    <3>. QED BY <2>1, <3>1, <3>6, CoverStep
  <2>. QED BY <2>2 DEF Covers
<1>2. refused \in Nat
  BY DEF IInv, TypeOK
<1>. QED BY <1>1, <1>2, LinkStep

\* After a crash the links are no longer looked at.
LEMMA CrashedLinks ==
  ASSUME IInv, LinkInv, NEW w \in Workers, OthersWait(w), crashes # 0, crashes' = crashes,
         refused' \in Nat, refused' >= refused,
         UNCHANGED <<globalFile, virtualFile>>,
         task'[w].at \in RmLabels => task[w].at \in RmLabels \/ Cardinality(InRm) < MaxRm
  PROVE  LinkInv'
<1>1. RowsKept
  BY DEF RowsKept
<1>2. refused \in Nat
  BY DEF IInv, TypeOK
<1>. QED BY <1>1, <1>2, LinkStep

\* The tables and the links stay as they are.
LEMMA MoveLinks ==
  ASSUME IInv, TypeOK', LinkInv, NEW w \in Workers, OthersWait(w), crashes' = crashes, refused' = refused,
         UNCHANGED <<globalFile, virtualFile>>,
         task'[w].at \in RmLabels => task[w].at \in RmLabels \/ Cardinality(InRm) < MaxRm,
         task'[w].at \notin {"link", "rmCount"}, task[w].at \notin {"link", "rmCount"},
         task'[w].at \in {"getId", "insert"} /\ task'[w].len # 0 =>
           /\ task[w].at \in {"getId", "insert"} /\ task[w].len # 0
           /\ task'[w].hash = task[w].hash,
         crashes = 0 => LinkTask(w)'
  PROVE  LinkInv'
<1>1. RowsKept
  BY DEF RowsKept
<1>2. \A h \in Hashes : Links(h)' = Links(h)
  BY LinksAre
<1>3. \A h : w \in Uploaded(h)' => w \in Uploaded(h)
  BY DEF Uploaded
<1>. QED BY <1>1, <1>2, <1>3, Neutral

LEMMA PutsOpenLinks ==
  ASSUME IInv, TypeOK', LinkInv, NEW w \in Workers, NEW p \in Paths, NEW h \in Hashes, PutsOpen(w, p, h)
  PROVE  LinkInv'
<1>1. OthersWait(w) /\ task'[w].at = "len" /\ task'[w].len = 0
  BY DEF PutsOpen, Idle, IInv, TypeOK, OthersWait
<1>2. task[w].at = "idle" /\ UNCHANGED <<globalFile, virtualFile, crashes, refused>>
  BY DEF PutsOpen
<1>3. LinkTask(w)'
  BY <1>1 DEF LinkTask
<1>. QED BY <1>1, <1>2, <1>3, MoveLinks DEF RmLabels

LEMMA PutsLenLinks ==
  ASSUME IInv, TypeOK', LinkInv, NEW w \in Workers, PutsLen(w)
  PROVE  LinkInv'
<1>1. /\ OthersWait(w) /\ task'[w].at \in {"getId", "recv"}
      /\ task'[w].at = "getId" => task'[w].len = 0
  <2>1. task[w] \in Locals
    BY DEF IInv, TypeOK
  <2>. QED BY <2>1 DEF PutsLen, IInv, TypeOK, Locals, OthersWait
<1>2. task[w].at = "len" /\ UNCHANGED <<globalFile, virtualFile, crashes, refused>>
  BY DEF PutsLen
<1>3. LinkTask(w)'
  BY <1>1 DEF LinkTask
<1>. QED BY <1>1, <1>2, <1>3, MoveLinks DEF RmLabels

\* What Goto and Finish leave.
LEMMA WentTo ==
  ASSUME IInv, NEW w \in Workers
  PROVE  /\ \A label : Goto(w, label) =>
              /\ OthersWait(w) /\ task'[w].at = label /\ task'[w].hash = task[w].hash
              /\ task'[w].len = task[w].len /\ task'[w].hashId = task[w].hashId
              /\ task'[w].path = task[w].path
         /\ Finish(w) => OthersWait(w) /\ task'[w].at = "idle"
<1>1. task \in [Workers -> Locals] /\ task[w] \in Locals
  BY DEF IInv, TypeOK
<1>2. ASSUME NEW label, Goto(w, label)
      PROVE  /\ OthersWait(w) /\ task'[w].at = label /\ task'[w].hash = task[w].hash
             /\ task'[w].len = task[w].len /\ task'[w].hashId = task[w].hashId
             /\ task'[w].path = task[w].path
  <2>1. OthersWait(w) /\ task'[w] = [task[w] EXCEPT !.at = label]
    BY <1>1, <1>2 DEF OthersWait
  <2>. QED BY <1>1, <2>1 DEF Locals
<1>3. ASSUME Finish(w) PROVE OthersWait(w) /\ task'[w].at = "idle"
  BY <1>1, <1>3 DEF OthersWait, Idle
<1>. QED BY <1>2, <1>3

LEMMA PlainLinks ==
  ASSUME IInv, TypeOK', LinkInv, NEW w \in Workers,
         \/ PutsLenHangup(w) \/ RecvEnd(w) \/ RecvHangup(w) \/ RecvReset(w)
         \/ RmRead(w) \/ GetsSent(w)
  PROVE  LinkInv'
<1>0. UNCHANGED <<globalFile, virtualFile, crashes, refused>>
  BY DEF PutsLenHangup, RecvEnd, RecvHangup, RecvReset, RmRead, GetsSent
<1>1. CASE PutsLenHangup(w)
  <2>1. Goto(w, "getId") /\ task[w].at = "len"
    BY <1>1 DEF PutsLenHangup
  <2>2. OthersWait(w) /\ task'[w].at = "getId" /\ task'[w].len = task[w].len
    <3>. HIDE DEF Goto
    <3>. QED BY <2>1, WentTo
  <2>3. CASE crashes = 0
    <3>1. task'[w].len = 0
      BY <2>1, <2>2, <2>3 DEF LinkInv, LinkTask
    <3>2. LinkTask(w)'
      BY <2>2, <3>1 DEF LinkTask
    <3>. QED BY <1>0, <2>1, <2>2, <3>1, <3>2, MoveLinks DEF RmLabels
  <2>4. CASE crashes # 0
    <3>1. refused' \in Nat /\ refused' >= refused
      BY <1>0 DEF IInv, TypeOK
    <3>. QED BY <1>0, <2>1, <2>2, <2>4, <3>1, CrashedLinks DEF RmLabels
  <2>. QED BY <2>3, <2>4
<1>2. CASE RecvEnd(w) \/ RecvHangup(w) \/ RecvReset(w)
  <2>1. (Goto(w, "addGlob") \/ Goto(w, "spin")) /\ task[w].at = "recv"
    BY <1>2 DEF RecvEnd, RecvHangup, RecvReset
  <2>2. OthersWait(w) /\ task'[w].at \in {"addGlob", "spin"}
    <3>. HIDE DEF Goto
    <3>. QED BY <2>1, WentTo
  <2>3. LinkTask(w)'
    BY <2>2 DEF LinkTask
  <2>. QED BY <1>0, <2>1, <2>2, <2>3, MoveLinks DEF RmLabels
<1>3. CASE RmRead(w) \/ GetsSent(w)
  <2>1. /\ Finish(w) \/ (Goto(w, "rmTime") /\ task[w].at = "rmRead")
        /\ task[w].at \in {"rmRead", "send"}
    BY <1>3 DEF RmRead, GetsSent
  <2>2. /\ OthersWait(w) /\ task'[w].at \in {"rmTime", "idle"}
        /\ task'[w].at = "rmTime" => task[w].at = "rmRead"
    <3>. HIDE DEF Goto, Finish
    <3>. QED BY <2>1, WentTo
  <2>3. LinkTask(w)'
    BY <2>2 DEF LinkTask
  <2>. QED BY <1>0, <2>1, <2>2, <2>3, MoveLinks DEF RmLabels
<1>. QED BY <1>1, <1>2, <1>3

LEMMA RecvChunkLinks ==
  ASSUME IInv, TypeOK', LinkInv, NEW w \in Workers, RecvChunk(w)
  PROVE  LinkInv'
<1>1. OthersWait(w) /\ task'[w].at = "recv"
  <2>1. task[w] \in Locals
    BY DEF IInv, TypeOK
  <2>. QED BY <2>1 DEF RecvChunk, IInv, TypeOK, Locals, OthersWait
<1>2. task[w].at = "recv" /\ UNCHANGED <<globalFile, virtualFile, crashes, refused>>
  BY DEF RecvChunk
<1>3. LinkTask(w)'
  BY <1>1 DEF LinkTask
<1>. QED BY <1>1, <1>2, <1>3, MoveLinks DEF RmLabels

LEMMA GetHashIdLinks ==
  ASSUME IInv, TypeOK', LinkInv, NEW w \in Workers, GetHashId(w)
  PROVE  LinkInv'
<1>. DEFINE Rows == RowsOf(task[w].hash)
<1>1. /\ OthersWait(w) /\ task'[w].at = "insert" /\ task'[w].hash = task[w].hash
      /\ task'[w].len = task[w].len
      /\ task'[w].hashId = IF Rows = {} THEN 0 ELSE Max(Rows)
  <2>1. task[w] \in Locals
    BY DEF IInv, TypeOK
  <2>. HIDE DEF Rows
  <2>2. task' = [task EXCEPT ![w].at = "insert", ![w].hashId = IF Rows = {} THEN 0 ELSE Max(Rows)]
    BY DEF GetHashId, Rows
  <2>. QED BY <2>1, <2>2 DEF IInv, TypeOK, Locals, OthersWait
<1>2. task[w].at = "getId" /\ UNCHANGED <<globalFile, virtualFile, crashes, refused>>
  BY DEF GetHashId
<1>3. Rows # {} => Max(Rows) \in Rows
  <2>1. Rows \subseteq 1..Len(globalFile) /\ Len(globalFile) \in Nat
    BY RowProperties DEF RowsOf, IInv
  <2>. HIDE DEF Rows
  <2>. QED BY <2>1, LastRow
<1>5. Rows = { i \in DOMAIN globalFile' : globalFile'[i].hash = task'[w].hash }
  BY <1>1, <1>2 DEF RowsOf
<1>6. crashes = 0 => LinkTask(w)'
  <2>1. SUFFICES ASSUME crashes = 0 PROVE LinkTask(w)'
    OBVIOUS
  <2>. HIDE DEF Rows
  <2>3. task'[w].hashId = 0 \/ task'[w].hashId \in Rows
    BY <1>1, <1>3
  <2>. QED BY <1>1, <1>5, <2>3 DEF LinkTask, RowsOf
<1>. HIDE DEF Rows
<1>. QED BY <1>1, <1>2, <1>6, MoveLinks DEF RmLabels

LEMMA SelectLinks ==
  ASSUME IInv, TypeOK', LinkInv, NEW w \in Workers, NEW p \in Paths, RmSelect(w, p) \/ GetsSelect(w, p)
  PROVE  LinkInv'
<1>0. task[w] \in Locals /\ task[w].at = "idle" /\ UNCHANGED <<globalFile, virtualFile, crashes, refused>>
  BY DEF IInv, TypeOK, RmSelect, GetsSelect
<1>1. CASE UNCHANGED task
  <2>1. OthersWait(w) /\ task'[w] = task[w]
    BY <1>1 DEF OthersWait
  <2>2. LinkTask(w)'
    BY <1>0, <2>1 DEF LinkTask
  <2>. QED BY <1>0, <2>1, <2>2, MoveLinks DEF RmLabels
<1>2. CASE RmSelect(w, p) /\ ~UNCHANGED task
  <2>1. /\ virtualFile[p] # NULL /\ Cardinality(InRm) < MaxRm
        /\ task' = [task EXCEPT ![w] = [Idle EXCEPT !.at = "rmDelete", !.path = p,
                                                     !.hashId = virtualFile[p].hashId]]
    BY <1>2 DEF RmSelect
  <2>2. /\ OthersWait(w) /\ task'[w].at = "rmDelete" /\ task'[w].path = p
        /\ task'[w].hashId = virtualFile[p].hashId
    BY <2>1 DEF OthersWait, Idle, IInv, TypeOK
  <2>3. LinkTask(w)'
    BY <1>0, <2>1, <2>2 DEF LinkTask
  <2>. QED BY <1>0, <2>1, <2>2, <2>3, MoveLinks DEF RmLabels
<1>3. CASE GetsSelect(w, p) /\ ~UNCHANGED task
  <2>3. PICK g : g = globalFile[virtualFile[p].hashId].hash
    OBVIOUS
  <2>4. task' = [task EXCEPT ![w] = [Idle EXCEPT !.at = "getsOpen", !.path = p, !.hash = g]]
    BY <1>3, <2>3 DEF GetsSelect
  <2>1. OthersWait(w) /\ task'[w].at = "getsOpen"
    BY <2>4 DEF OthersWait, Idle, IInv, TypeOK
  <2>2. LinkTask(w)'
    BY <2>1 DEF LinkTask
  <2>. QED BY <1>0, <2>1, <2>2, MoveLinks DEF RmLabels
<1>. QED BY <1>1, <1>2, <1>3

LEMMA GetsOpenLinks ==
  ASSUME IInv, TypeOK', LinkInv, NEW w \in Workers, GetsOpen(w)
  PROVE  LinkInv'
<1>0. task[w] \in Locals /\ task[w].at = "getsOpen" /\ UNCHANGED <<globalFile, virtualFile, crashes, refused>>
  BY DEF IInv, TypeOK, GetsOpen
<1>1. OthersWait(w) /\ task'[w].at \in {"idle", "send"}
  <2>1. CASE Finish(w)
    <3>. HIDE DEF Finish
    <3>. QED BY <2>1, WentTo
  <2>2. CASE ~Finish(w)
    <3>1. PICK offSize, n : task' = [task EXCEPT ![w].at = "send", ![w].st_size = offSize,
                                                 ![w].len = n]
      BY <2>2 DEF GetsOpen
    <3>. QED BY <1>0, <3>1 DEF OthersWait, IInv, TypeOK, Locals
  <2>. QED BY <2>1, <2>2
<1>2. LinkTask(w)'
  BY <1>1 DEF LinkTask
<1>. QED BY <1>0, <1>1, <1>2, MoveLinks DEF RmLabels

\* Paths keep their content while rows keep their hashes.
LEMMA SameListed ==
  ASSUME IInv, RowsKept, UNCHANGED virtualFile, NEW h
  PROVE  Listed(h)' = Listed(h)
<1>1. \A p \in Paths : virtualFile[p] # NULL => virtualFile[p].hashId \in DOMAIN globalFile
  BY DEF IInv, StoreInv
<1>. QED BY <1>1 DEF Listed, RowsKept

LEMMA LinksType ==
  ASSUME TypeOK, NEW h
  PROVE  Links(h) \in Int
<1>1. LinksIn(globalFile, h) \in Int
  BY RowsFinite DEF TypeOK
<1>. QED BY <1>1 DEF Links, LinksIn, CountIn, RowsIn, RowsOf

LEMMA AddGlobFileLinks ==
  ASSUME IInv, TypeOK', LinkInv, NEW w \in Workers, AddGlobFile(w)
  PROVE  LinkInv'
<1>. DEFINE g == task[w].hash
            row == [hash |-> g, linkCount |-> 1, lastLinkTime |-> NULL]
            n == Len(globalFile)
<1>0. task[w].at = "addGlob" /\ UNCHANGED <<virtualFile, crashes, refused>>
      /\ globalFile' = Append(globalFile, row) /\ globalFile \in Seq(GlobalRow) /\ g \in Hashes
  BY DEF AddGlobFile, IInv, TypeOK, TaskInv
<1>1. OthersWait(w) /\ task'[w].at = "getId" /\ task'[w].hash = g
  <2>1. Goto(w, "getId")
    BY DEF AddGlobFile
  <2>. HIDE DEF Goto
  <2>. QED BY <2>1, WentTo
<1>2. n \in Nat /\ DOMAIN globalFile = 1..n
  BY RowProperties DEF IInv
<1>3. row \in GlobalRow
  BY <1>0 DEF GlobalRow
<1>4. /\ globalFile' \in Seq(GlobalRow) /\ DOMAIN globalFile' = 1..(n + 1)
      /\ \A i \in 1..n : globalFile'[i] = globalFile[i]
      /\ globalFile'[n + 1] = row
  <2>. HIDE DEF row
  <2>1. Append(globalFile, row) \in Seq(GlobalRow) /\ Len(Append(globalFile, row)) = n + 1
        /\ Append(globalFile, row)[n + 1] = row
        /\ \A i \in 1..n : Append(globalFile, row)[i] = globalFile[i]
    BY <1>0, <1>3, AppendProperties
  <2>2. DOMAIN Append(globalFile, row) = 1..(n + 1)
    BY <2>1, LenProperties
  <2>. QED BY <1>0, <2>1, <2>2
<1>5. RowsKept
  BY <1>2, <1>4 DEF RowsKept
<1>6. row.hash = g /\ row.linkCount = 1
  OBVIOUS
<1>. HIDE DEF g, n, row
<1>7. n + 1 \in DOMAIN globalFile' /\ n + 1 \notin DOMAIN globalFile
  BY <1>2, <1>4
<1>8. /\ \A i \in DOMAIN globalFile : CountIn(globalFile')[i] = CountIn(globalFile)[i]
      /\ CountIn(globalFile')[n + 1] = 1
  BY <1>2, <1>4, <1>6, <1>7 DEF CountIn
<1>9. \A i \in DOMAIN globalFile' : i \in DOMAIN globalFile \/ i = n + 1
  BY <1>2, <1>4
<1>10. /\ RowsIn(globalFile', g) = RowsIn(globalFile, g) \cup {n + 1}
       /\ \A h : h # g => RowsIn(globalFile', h) = RowsIn(globalFile, h)
  BY <1>2, <1>4, <1>6, <1>7, <1>9 DEF RowsIn
<1>11. \A h : RowsIn(globalFile, h) \subseteq DOMAIN globalFile
  BY DEF RowsIn
<1>12. LinksIn(globalFile', g) = LinksIn(globalFile, g) + 1
  <2>1. IsFiniteSet(RowsIn(globalFile, g)) /\ n + 1 \notin RowsIn(globalFile, g)
        /\ \A i \in RowsIn(globalFile, g) :
             CountIn(globalFile)[i] \in Int /\ CountIn(globalFile')[i] = CountIn(globalFile)[i]
    BY <1>0, <1>7, <1>8, <1>11, RowsFinite
  <2>2. Sum(CountIn(globalFile'), RowsIn(globalFile, g) \cup {n + 1})
          = Sum(CountIn(globalFile), RowsIn(globalFile, g)) + 1
    BY <1>8, <2>1, SumNew
  <2>. QED BY <1>10, <2>2 DEF LinksIn
<1>13. ASSUME NEW h, h # g PROVE LinksIn(globalFile', h) = LinksIn(globalFile, h)
  <2>1. Sum(CountIn(globalFile'), RowsIn(globalFile, h)) = Sum(CountIn(globalFile), RowsIn(globalFile, h))
    BY <1>8, <1>11, SumSame
  <2>. QED BY <1>10, <1>13, <2>1 DEF LinksIn
<1>14. LinkTask(w)' /\ \A h : w \in Uploaded(h)' => RowsOf(h)' # {}
  <2>1. task'[w].hash = g /\ n + 1 \in RowsIn(globalFile', g)
    BY <1>1, <1>10
  <2>2. LinkTask(w)'
    BY <1>1, <2>1 DEF LinkTask, RowsOf, RowsIn
  <2>3. ASSUME NEW h, w \in Uploaded(h)' PROVE RowsOf(h)' # {}
    <3>1. h = g
      BY <1>1, <2>3 DEF Uploaded
    <3>2. n + 1 \in { i \in DOMAIN globalFile' : globalFile'[i].hash = h }
      BY <2>1, <3>1 DEF RowsIn
    <3>. QED BY <3>2 DEF RowsOf
  <2>. QED BY <2>2, <2>3
<1>15. ASSUME crashes = 0 PROVE Covers'
  <2>1. Covers
    BY <1>15 DEF LinkInv
  <2>2. ASSUME NEW h \in Hashes
        PROVE  /\ IsFiniteSet(Listed(h)')
               /\ Links(h)' + Cardinality(Adding(h)') + refused'
                    >= Cardinality(Listed(h)') + Cardinality(Removing(h)') + Cardinality(Uploaded(h)')
    <3>1. Listed(h)' = Listed(h)
      BY <1>0, <1>5, SameListed
    <3>2. Bit(w \in Adding(h)') = 0 /\ Bit(w \in Adding(h)) = 0
          /\ Bit(w \in Removing(h)') = 0 /\ Bit(w \in Removing(h)) = 0
          /\ Bit(w \in Uploaded(h)) = 0
      BY <1>0, <1>1 DEF Bit, Adding, Removing, Uploaded
    <3>3. Bit(w \in Uploaded(h)') \in {0, 1} /\ (h # g => Bit(w \in Uploaded(h)') = 0)
      BY <1>1 DEF Bit, Uploaded
    <3>4. Bit(NULL \in Listed(h)) - Bit(NULL \in Listed(h)) = 0
      BY DEF Bit
    <3>5. Links(h) \in Int
      BY LinksType DEF IInv
    <3>6. Links(h)' = Links(h) + (IF h = g THEN 1 ELSE 0)
      BY <1>12, <1>13, <3>5, LinksAre
    <3>7. Links(h)' >= Links(h) + Gains(w, NULL, h)
      BY <3>1, <3>2, <3>3, <3>4, <3>5, <3>6 DEF Gains
    <3>. QED BY <1>0, <1>1, <1>5, <2>1, <3>1, <3>7, CoverStep
  <2>. QED BY <2>2 DEF Covers
<1>20. refused' \in Nat /\ refused' >= refused
  BY <1>0 DEF IInv, TypeOK
<1>. QED BY <1>0, <1>1, <1>5, <1>14, <1>15, <1>20, LinkStep DEF RmLabels

LEMMA AddVirtualLinks ==
  ASSUME IInv, TypeOK', LinkInv, NEW w \in Workers, AddVirtual(w)
  PROVE  LinkInv'
<1>. DEFINE g == task[w].hash
            p == task[w].path
            i == task[w].hashId
<1>0. task[w].at = "insert" /\ UNCHANGED <<globalFile, crashes, refused>> /\ g \in Hashes /\ p \in Paths
  BY DEF AddVirtual, IInv, TaskInv
<1>1. RowsKept
  BY <1>0 DEF RowsKept
<1>2. /\ OthersWait(w) /\ (task'[w].hash = g \/ task'[w].at = "idle")
      /\ IF task[w].len = 0 THEN task'[w].at = "link" ELSE task'[w].at = "idle"
  <2>1. IF task[w].len = 0 THEN Goto(w, "link") ELSE Finish(w)
    BY DEF AddVirtual
  <2>. HIDE DEF Goto, Finish
  <2>. QED BY <2>1, WentTo
<1>3. PICK size : virtualFile' = IF virtualFile[p] = NULL /\ i \in DOMAIN globalFile
                                 THEN [virtualFile EXCEPT ![p] = [hashId |-> i, fileSize |-> size]]
                                 ELSE virtualFile
  BY DEF AddVirtual
<1>4. virtualFile \in [Paths -> {NULL} \cup [hashId : Nat, fileSize : 0..Size]]
  BY DEF IInv, TypeOK
<1>. HIDE DEF g, p, i
<1>5. /\ \A r \in Paths : r # p => virtualFile'[r] = virtualFile[r]
      /\ virtualFile[p] # NULL \/ i \notin DOMAIN globalFile => virtualFile' = virtualFile
      /\ virtualFile[p] = NULL /\ i \in DOMAIN globalFile =>
           (virtualFile'[p] # NULL => virtualFile'[p].hashId = i)
  BY <1>0, <1>3, <1>4
<1>6. \A r \in Paths : virtualFile[r] # NULL => virtualFile'[r] = virtualFile[r]
  BY <1>5
<1>7. LinkTask(w)'
  BY <1>0, <1>2 DEF LinkTask, g
<1>8. ASSUME crashes = 0 PROVE Covers'
  <2>1. Covers /\ (i = 0 \/ i \in RowsOf(g))
    BY <1>0, <1>8 DEF LinkInv, LinkTask, g, i
  <2>2. ASSUME NEW h \in Hashes
        PROVE  /\ IsFiniteSet(Listed(h)')
               /\ Links(h)' + Cardinality(Adding(h)') + refused'
                    >= Cardinality(Listed(h)') + Cardinality(Removing(h)') + Cardinality(Uploaded(h)')
    <3>1. \A y : y # p => (y \in Listed(h)' <=> y \in Listed(h))
      BY <1>0, <1>5 DEF Listed
    <3>2. h # g => (p \in Listed(h)' <=> p \in Listed(h))
      <4>1. CASE virtualFile[p] = NULL /\ i \in DOMAIN globalFile
        <5>1. i \in RowsOf(g)
          BY <2>1, <4>1, RowProperties DEF IInv
        <5>2. globalFile'[i].hash = g
          BY <1>0, <5>1 DEF RowsOf
        <5>. QED BY <1>5, <4>1, <5>2 DEF Listed
      <4>2. CASE ~(virtualFile[p] = NULL /\ i \in DOMAIN globalFile)
        BY <1>0, <1>5, <4>2 DEF Listed
      <4>. QED BY <4>1, <4>2
    <3>3. p \in Listed(h) => p \in Listed(h)'
      BY <1>0, <1>5 DEF Listed
    <3>4. /\ Bit(w \in Adding(h)) = 0 /\ Bit(w \in Adding(h)') = Bit(h = g /\ task[w].len = 0)
          /\ Bit(w \in Uploaded(h)') = 0 /\ Bit(w \in Uploaded(h)) = Bit(h = g /\ task[w].len # 0)
          /\ Bit(w \in Removing(h)') = 0 /\ Bit(w \in Removing(h)) = 0
      BY <1>0, <1>2 DEF Bit, Adding, Removing, Uploaded, g
    <3>5. /\ Bit(p \in Listed(h)') - Bit(p \in Listed(h)) \in {0, 1}
          /\ h # g => Bit(p \in Listed(h)') - Bit(p \in Listed(h)) = 0
      BY <3>2, <3>3 DEF Bit
    <3>6. Links(h) \in Int /\ Links(h)' = Links(h)
      BY <1>0, LinksType, LinksAre DEF IInv
    <3>7. Bit(h = g /\ task[w].len = 0) + Bit(h = g /\ task[w].len # 0) = Bit(h = g)
          /\ Bit(h = g /\ task[w].len = 0) \in Int /\ Bit(h = g /\ task[w].len # 0) \in Int
      BY DEF Bit
    <3>8. h = g => Bit(h = g) = 1
      BY DEF Bit
    <3>10. h # g => Bit(h = g) = 0
      BY DEF Bit
    <3>9. Links(h)' >= Links(h) + Gains(w, p, h)
      BY <3>4, <3>5, <3>6, <3>7, <3>8, <3>10 DEF Gains
    <3>. QED BY <1>0, <1>1, <1>2, <2>1, <3>1, <3>9, CoverStep
  <2>. QED BY <2>2 DEF Covers
<1>20. refused' \in Nat /\ refused' >= refused
  BY <1>0 DEF IInv, TypeOK
<1>21. \A h : ~ (w \in Uploaded(h)')
  BY <1>2 DEF Uploaded
<1>. QED BY <1>0, <1>1, <1>2, <1>6, <1>7, <1>8, <1>20, <1>21, LinkStep DEF RmLabels

\* A statement that leaves every row its place and its hash.
LEMMA RowsStay ==
  ASSUME IInv, globalFile' \in Seq(GlobalRow), DOMAIN globalFile' = DOMAIN globalFile,
         \A i \in DOMAIN globalFile : globalFile'[i].hash = globalFile[i].hash
  PROVE  /\ RowsKept
         /\ \A h : RowsIn(globalFile', h) = RowsIn(globalFile, h)
         /\ \A h : RowsIn(globalFile, h) \subseteq DOMAIN globalFile /\ IsFiniteSet(RowsIn(globalFile, h))
         /\ \A i \in DOMAIN globalFile :
              /\ globalFile[i].linkCount \in Int
              /\ CountIn(globalFile)[i] = globalFile[i].linkCount
              /\ CountIn(globalFile')[i] = globalFile'[i].linkCount
<1>1. globalFile \in Seq(GlobalRow)
  BY DEF IInv, TypeOK
<1>2. RowsKept
  BY DEF RowsKept
<1>3. \A h : RowsIn(globalFile', h) = RowsIn(globalFile, h)
  BY DEF RowsIn
<1>4. \A h : RowsIn(globalFile, h) \subseteq DOMAIN globalFile /\ IsFiniteSet(RowsIn(globalFile, h))
  BY <1>1, RowsFinite DEF RowsIn
<1>5. \A i \in DOMAIN globalFile :
        /\ globalFile[i].linkCount \in Int
        /\ CountIn(globalFile)[i] = globalFile[i].linkCount
        /\ CountIn(globalFile')[i] = globalFile'[i].linkCount
  BY <1>1, RowsFinite DEF CountIn
<1>. QED BY <1>2, <1>3, <1>4, <1>5

\* The count that rm takes from its row is the one that its path had.
LEMMA RmCountLinks ==
  ASSUME IInv, TypeOK', LinkInv, NEW w \in Workers, RmCount(w)
  PROVE  LinkInv'
<1>. DEFINE i == task[w].hashId
            row == [globalFile[i] EXCEPT !.linkCount = @ - 1]
            g == globalFile[i].hash
<1>0. /\ task[w].at = "rmCount" /\ UNCHANGED <<virtualFile, crashes, refused>> /\ TypeOK
      /\ i \in DOMAIN globalFile /\ globalFile' = [globalFile EXCEPT ![i] = row]
  BY DEF RmCount, IInv, TaskInv
<1>1. OthersWait(w) /\ task'[w].at = "rmRead"
  <2>1. Goto(w, "rmRead")
    BY DEF RmCount
  <2>. HIDE DEF Goto
  <2>. QED BY <2>1, WentTo
<1>2. globalFile[i] \in GlobalRow
  BY <1>0, RowProperties
<1>3. row \in GlobalRow /\ row.hash = g /\ row.linkCount = globalFile[i].linkCount - 1
  BY <1>2 DEF GlobalRow
<1>. HIDE DEF row, i, g
<1>4. /\ globalFile' \in Seq(GlobalRow) /\ DOMAIN globalFile' = DOMAIN globalFile
      /\ \A j \in DOMAIN globalFile : globalFile'[j].hash = globalFile[j].hash
  BY <1>0, <1>3, RowUpdated DEF g
<1>5. globalFile'[i] = row /\ \A j \in DOMAIN globalFile : j # i => globalFile'[j] = globalFile[j]
  BY <1>0
<1>6. RowsKept
  BY <1>4, RowsStay
<1>7. LinksIn(globalFile', g) = LinksIn(globalFile, g) - 1
  <2>1. i \in RowsIn(globalFile, g) /\ IsFiniteSet(RowsIn(globalFile, g))
        /\ RowsIn(globalFile', g) = RowsIn(globalFile, g)
    BY <1>0, <1>4, RowsStay DEF RowsIn, g
  <2>2. /\ CountIn(globalFile')[i] = CountIn(globalFile)[i] - 1
        /\ \A j \in RowsIn(globalFile, g) :
             CountIn(globalFile)[j] \in Int /\ (j # i => CountIn(globalFile')[j] = CountIn(globalFile)[j])
    BY <1>0, <1>3, <1>4, <1>5, RowsStay
  <2>3. Sum(CountIn(globalFile'), RowsIn(globalFile, g)) = Sum(CountIn(globalFile), RowsIn(globalFile, g)) - 1
    BY <2>1, <2>2, SumLess
  <2>. QED BY <2>1, <2>3 DEF LinksIn
<1>8. ASSUME NEW h, h # g PROVE LinksIn(globalFile', h) = LinksIn(globalFile, h)
  <2>1. \A j \in RowsIn(globalFile, h) : j # i
    BY <1>8 DEF RowsIn, g
  <2>2. \A j \in RowsIn(globalFile, h) : CountIn(globalFile')[j] = CountIn(globalFile)[j]
    BY <2>1, <1>4, <1>5, RowsStay
  <2>3. Sum(CountIn(globalFile'), RowsIn(globalFile, h)) = Sum(CountIn(globalFile), RowsIn(globalFile, h))
    BY <2>2, SumSame
  <2>. QED BY <1>4, <2>3, RowsStay DEF LinksIn
<1>9. LinkTask(w)'
  BY <1>1 DEF LinkTask
<1>10. ASSUME crashes = 0 PROVE Covers'
  <2>1. Covers
    BY <1>10 DEF LinkInv
  <2>2. ASSUME NEW h \in Hashes
        PROVE  /\ IsFiniteSet(Listed(h)')
               /\ Links(h)' + Cardinality(Adding(h)') + refused'
                    >= Cardinality(Listed(h)') + Cardinality(Removing(h)') + Cardinality(Uploaded(h)')
    <3>1. Listed(h)' = Listed(h)
      BY <1>0, <1>6, SameListed
    <3>2. /\ Bit(w \in Adding(h)') = 0 /\ Bit(w \in Adding(h)) = 0
          /\ Bit(w \in Uploaded(h)') = 0 /\ Bit(w \in Uploaded(h)) = 0
          /\ Bit(w \in Removing(h)') = 0
      BY <1>0, <1>1 DEF Bit, Adding, Removing, Uploaded
    <3>3. Bit(w \in Removing(h)) = IF h = g THEN 1 ELSE 0
      BY <1>0 DEF Bit, Removing, g, i
    <3>4. Bit(NULL \in Listed(h)) - Bit(NULL \in Listed(h)) = 0
      BY DEF Bit
    <3>5. Links(h) \in Int
      BY <1>0, LinksType
    <3>6. Links(h)' = Links(h) - (IF h = g THEN 1 ELSE 0)
      BY <1>7, <1>8, <3>5, LinksAre
    <3>7. Links(h)' >= Links(h) + Gains(w, NULL, h)
      BY <3>1, <3>2, <3>3, <3>4, <3>5, <3>6 DEF Gains
    <3>. QED BY <1>0, <1>1, <1>6, <2>1, <3>1, <3>7, CoverStep
  <2>. QED BY <2>2 DEF Covers
<1>20. refused' \in Nat /\ refused' >= refused
  BY <1>0 DEF IInv, TypeOK
<1>21. \A h : ~ (w \in Uploaded(h)')
  BY <1>1 DEF Uploaded
<1>. QED BY <1>0, <1>1, <1>6, <1>9, <1>10, <1>20, <1>21, LinkStep DEF RmLabels

\* The mark of the time counts no link.
LEMMA RmTimeLinks ==
  ASSUME IInv, TypeOK', LinkInv, NEW w \in Workers, RmTime(w)
  PROVE  LinkInv'
<1>. DEFINE i == task[w].hashId
            row == [globalFile[i] EXCEPT !.lastLinkTime = "NOW"]
<1>0. /\ task[w].at = "rmTime" /\ UNCHANGED <<virtualFile, crashes, refused>> /\ TypeOK
      /\ i \in DOMAIN globalFile /\ globalFile' = [globalFile EXCEPT ![i] = row]
  BY DEF RmTime, IInv, TaskInv
<1>1. OthersWait(w) /\ task'[w].at = "idle"
  <2>1. Finish(w)
    BY DEF RmTime
  <2>. HIDE DEF Finish
  <2>. QED BY <2>1, WentTo
<1>2. globalFile[i] \in GlobalRow
  BY <1>0, RowProperties
<1>3. row \in GlobalRow /\ row.hash = globalFile[i].hash /\ row.linkCount = globalFile[i].linkCount
  BY <1>2 DEF GlobalRow
<1>. HIDE DEF row, i
<1>4. /\ globalFile' \in Seq(GlobalRow) /\ DOMAIN globalFile' = DOMAIN globalFile
      /\ \A j \in DOMAIN globalFile : globalFile'[j].hash = globalFile[j].hash
  BY <1>0, <1>3, RowUpdated
<1>5. \A j \in DOMAIN globalFile : globalFile'[j].linkCount = globalFile[j].linkCount
  BY <1>0, <1>3
<1>6. ASSUME NEW h PROVE Links(h)' = Links(h)
  <2>1. \A j \in RowsIn(globalFile, h) : CountIn(globalFile')[j] = CountIn(globalFile)[j]
    BY <1>4, <1>5, RowsStay
  <2>2. Sum(CountIn(globalFile'), RowsIn(globalFile, h)) = Sum(CountIn(globalFile), RowsIn(globalFile, h))
    BY <2>1, SumSame
  <2>3. LinksIn(globalFile', h) = LinksIn(globalFile, h)
    BY <1>4, <2>2, RowsStay DEF LinksIn
  <2>. QED BY <2>3, LinksAre
<1>7. RowsKept
  BY <1>4, RowsStay
<1>8. LinkTask(w)' /\ \A h : w \in Uploaded(h)' => w \in Uploaded(h)
  BY <1>1 DEF LinkTask, Uploaded
<1>. QED BY <1>0, <1>1, <1>6, <1>7, <1>8, Neutral DEF RmLabels

\* The path that rm deletes is the one it selected, as long as no other rm is in progress.
LEMMA RmDeleteLinks ==
  ASSUME IInv, TypeOK', LinkInv, MaxRm <= 1, NEW w \in Workers, RmDelete(w)
  PROVE  LinkInv'
<1>. DEFINE i == task[w].hashId
            p == task[w].path
<1>0. /\ task[w].at = "rmDelete" /\ UNCHANGED <<globalFile, crashes, refused>>
      /\ i \in DOMAIN globalFile /\ p \in Paths
      /\ virtualFile' = [virtualFile EXCEPT ![p] = NULL]
  BY DEF RmDelete, IInv, TaskInv
<1>1. OthersWait(w) /\ task'[w].at = "rmCount" /\ task'[w].hashId = i
  <2>1. Goto(w, "rmCount")
    BY DEF RmDelete
  <2>. HIDE DEF Goto
  <2>. QED BY <2>1, WentTo
<1>2. virtualFile \in [Paths -> {NULL} \cup [hashId : Nat, fileSize : 0..Size]]
  BY DEF IInv, TypeOK
<1>3. crashes = 0 => virtualFile[p] # NULL /\ virtualFile[p].hashId = i
  BY <1>0 DEF LinkInv, LinkTask
<1>. HIDE DEF i, p
<1>4. virtualFile'[p] = NULL /\ \A r \in Paths : r # p => virtualFile'[r] = virtualFile[r]
  BY <1>0, <1>2
<1>5. RowsKept
  BY <1>0 DEF RowsKept
<1>6. LinkTask(w)'
  BY <1>1 DEF LinkTask
<1>7. ASSUME crashes = 0 PROVE Covers'
  <2>1. Covers
    BY <1>7 DEF LinkInv
  <2>2. ASSUME NEW h \in Hashes
        PROVE  /\ IsFiniteSet(Listed(h)')
               /\ Links(h)' + Cardinality(Adding(h)') + refused'
                    >= Cardinality(Listed(h)') + Cardinality(Removing(h)') + Cardinality(Uploaded(h)')
    <3>1. \A y : y # p => (y \in Listed(h)' <=> y \in Listed(h))
      BY <1>0, <1>4 DEF Listed
    <3>2. /\ Bit(w \in Adding(h)') = 0 /\ Bit(w \in Adding(h)) = 0
          /\ Bit(w \in Uploaded(h)') = 0 /\ Bit(w \in Uploaded(h)) = 0
          /\ Bit(w \in Removing(h)) = 0 /\ Bit(p \in Listed(h)') = 0
      BY <1>0, <1>1, <1>4 DEF Bit, Adding, Removing, Uploaded, Listed
    <3>3. w \in Removing(h)' <=> p \in Listed(h)
      BY <1>0, <1>1, <1>3, <1>7 DEF Removing, Listed
    <3>4. Bit(w \in Removing(h)') = Bit(p \in Listed(h)) /\ Bit(p \in Listed(h)) \in Int
      BY <3>3 DEF Bit
    <3>5. Links(h) \in Int /\ Links(h)' = Links(h)
      BY <1>0, LinksType, LinksAre DEF IInv
    <3>6. Links(h)' >= Links(h) + Gains(w, p, h)
      BY <3>2, <3>4, <3>5 DEF Gains
    <3>. QED BY <1>0, <1>1, <1>5, <2>1, <3>1, <3>6, CoverStep
  <2>. QED BY <2>2 DEF Covers
<1>8. \A r \in Paths : virtualFile[r] # NULL =>
        virtualFile'[r] = virtualFile[r] \/ (MaxRm <= 1 /\ task[w].at = "rmDelete")
  BY <1>0
<1>20. refused' \in Nat /\ refused' >= refused
  BY <1>0 DEF IInv, TypeOK
<1>21. \A h : ~ (w \in Uploaded(h)')
  BY <1>1 DEF Uploaded
<1>. QED BY <1>0, <1>1, <1>5, <1>6, <1>7, <1>8, <1>20, <1>21, LinkStep DEF RmLabels

\* Every row of the hash gains the link; a hash without rows has no path to cover.
LEMMA UpdataLinkLinks ==
  ASSUME IInv, TypeOK', LinkInv, NEW w \in Workers, UpdataLink(w)
  PROVE  LinkInv'
<1>. DEFINE g == task[w].hash
<1>0. /\ task[w].at = "link" /\ UNCHANGED <<virtualFile, crashes, refused>> /\ TypeOK
      /\ globalFile' = [i \in DOMAIN globalFile |->
                          IF i \in RowsOf(g)
                          THEN [globalFile[i] EXCEPT !.linkCount = @ + 1, !.lastLinkTime = NULL]
                          ELSE globalFile[i]]
  BY DEF UpdataLink, IInv
<1>1. OthersWait(w) /\ task'[w].at = "idle"
  <2>1. Finish(w)
    BY DEF UpdataLink
  <2>. HIDE DEF Finish
  <2>. QED BY <2>1, WentTo
<1>. HIDE DEF g
<1>2. \A i \in DOMAIN globalFile : globalFile[i] \in GlobalRow
  BY <1>0, RowProperties
<1>3. /\ DOMAIN globalFile' = DOMAIN globalFile /\ globalFile' \in Seq(GlobalRow)
      /\ \A i \in DOMAIN globalFile :
           /\ globalFile'[i].hash = globalFile[i].hash
           /\ i \in RowsIn(globalFile, g) => globalFile'[i].linkCount = globalFile[i].linkCount + 1
           /\ i \notin RowsIn(globalFile, g) => globalFile'[i].linkCount = globalFile[i].linkCount
  <2>1. globalFile' \in Seq(GlobalRow) /\ DOMAIN globalFile' = DOMAIN globalFile
    BY <1>0 DEF TypeOK
  <2>2. ASSUME NEW i \in DOMAIN globalFile
        PROVE  /\ globalFile'[i].hash = globalFile[i].hash
               /\ i \in RowsIn(globalFile, g) => globalFile'[i].linkCount = globalFile[i].linkCount + 1
               /\ i \notin RowsIn(globalFile, g) => globalFile'[i].linkCount = globalFile[i].linkCount
    <3>1. globalFile[i] \in GlobalRow /\ RowsIn(globalFile, g) = RowsOf(g)
      BY <1>2 DEF RowsIn, RowsOf
    <3>. QED BY <1>0, <3>1 DEF GlobalRow
  <2>. QED BY <2>1, <2>2
<1>4. RowsKept
  BY <1>3, RowsStay
<1>5. RowsIn(globalFile, g) # {} => LinksIn(globalFile', g) >= LinksIn(globalFile, g) + 1
  <2>1. SUFFICES ASSUME NEW j \in RowsIn(globalFile, g)
                 PROVE  LinksIn(globalFile', g) >= LinksIn(globalFile, g) + 1
    OBVIOUS
  <2>2. IsFiniteSet(RowsIn(globalFile, g)) /\ RowsIn(globalFile', g) = RowsIn(globalFile, g)
    BY <1>3, RowsStay
  <2>3. \A i \in RowsIn(globalFile, g) :
          CountIn(globalFile)[i] \in Int /\ CountIn(globalFile')[i] = CountIn(globalFile)[i] + 1
    <3>1. RowsIn(globalFile, g) \subseteq DOMAIN globalFile
      BY DEF RowsIn
    <3>2. \A i \in DOMAIN globalFile :
            /\ globalFile[i].linkCount \in Int
            /\ CountIn(globalFile)[i] = globalFile[i].linkCount
            /\ CountIn(globalFile')[i] = globalFile'[i].linkCount
      BY <1>3, RowsStay
    <3>. QED BY <1>3, <3>1, <3>2
  <2>4. Sum(CountIn(globalFile'), RowsIn(globalFile, g)) >= Sum(CountIn(globalFile), RowsIn(globalFile, g)) + 1
    BY <2>2, <2>3, SumMore
  <2>. QED BY <2>2, <2>4 DEF LinksIn
<1>6. ASSUME NEW h, h # g PROVE LinksIn(globalFile', h) = LinksIn(globalFile, h)
  <2>1. \A i \in RowsIn(globalFile, h) : i \in DOMAIN globalFile /\ i \notin RowsIn(globalFile, g)
    BY <1>6 DEF RowsIn
  <2>2. \A i \in RowsIn(globalFile, h) : CountIn(globalFile')[i] = CountIn(globalFile)[i]
    BY <1>3, <2>1, RowsStay
  <2>3. Sum(CountIn(globalFile'), RowsIn(globalFile, h)) = Sum(CountIn(globalFile), RowsIn(globalFile, h))
    BY <2>2, SumSame
  <2>. QED BY <1>3, <2>3, RowsStay DEF LinksIn
<1>7. LinkTask(w)'
  BY <1>1 DEF LinkTask
<1>8. ASSUME crashes = 0 PROVE Covers'
  <2>1. Covers
    BY <1>8 DEF LinkInv
  <2>2. ASSUME NEW h \in Hashes, RowsIn(globalFile, g) # {} \/ h # g
        PROVE  /\ IsFiniteSet(Listed(h)')
               /\ Links(h)' + Cardinality(Adding(h)') + refused'
                    >= Cardinality(Listed(h)') + Cardinality(Removing(h)') + Cardinality(Uploaded(h)')
    <3>1. Listed(h)' = Listed(h)
      BY <1>0, <1>4, SameListed
    <3>2. /\ Bit(w \in Adding(h)') = 0 /\ Bit(w \in Removing(h)') = 0 /\ Bit(w \in Removing(h)) = 0
          /\ Bit(w \in Uploaded(h)') = 0 /\ Bit(w \in Uploaded(h)) = 0
      BY <1>0, <1>1 DEF Bit, Adding, Removing, Uploaded
    <3>3. Bit(w \in Adding(h)) = IF h = g THEN 1 ELSE 0
      BY <1>0 DEF Bit, Adding, g
    <3>4. Bit(NULL \in Listed(h)) - Bit(NULL \in Listed(h)) = 0
      BY DEF Bit
    <3>5. Links(h) \in Int /\ Links(h)' \in Int
      <4>1. LinksIn(globalFile', h) \in Int
        BY <1>3, RowsFinite
      <4>. QED BY <1>0, <4>1, LinksType, LinksAre
    <3>6. Links(h)' >= Links(h) + (IF h = g THEN 1 ELSE 0)
      BY <1>5, <1>6, <2>2, <3>5, LinksAre
    <3>7. Links(h)' >= Links(h) + Gains(w, NULL, h)
      BY <3>1, <3>2, <3>3, <3>4, <3>5, <3>6 DEF Gains
    <3>. QED BY <1>0, <1>1, <1>4, <2>1, <3>1, <3>7, CoverStep
  <2>3. ASSUME NEW h \in Hashes, h = g, RowsIn(globalFile, h) = {}
        PROVE  /\ IsFiniteSet(Listed(h)')
               /\ Links(h)' + Cardinality(Adding(h)') + refused'
                    >= Cardinality(Listed(h)') + Cardinality(Removing(h)') + Cardinality(Uploaded(h)')
    <3>1. RowsIn(globalFile', h) = {} /\ \A i \in DOMAIN globalFile' : globalFile'[i].hash # h
      BY <1>3, <2>3 DEF RowsIn
    <3>2. Links(h)' = 0
      <4>1. Sum(CountIn(globalFile'), {}) = 0
        BY SumEmpty
      <4>2. Links(h)' = LinksIn(globalFile', h)
        BY LinksAre
      <4>. QED BY <3>1, <4>1, <4>2 DEF LinksIn
    <3>3. Listed(h)' = {}
      <4>1. \A p \in Paths : virtualFile[p] # NULL => virtualFile[p].hashId \in DOMAIN globalFile
        BY DEF IInv, StoreInv
      <4>2. ASSUME NEW p \in Paths, virtualFile'[p] # NULL
            PROVE  virtualFile'[p].hashId \in DOMAIN globalFile'
        BY <1>0, <1>3, <4>1, <4>2
      <4>. QED BY <3>1, <4>2 DEF Listed
    <3>4. Removing(h)' = {}
      <4>1. ASSUME NEW v \in Workers, task'[v].at = "rmCount" PROVE task'[v].hashId \in DOMAIN globalFile'
        <5>1. v # w
          BY <1>1, <4>1
        <5>2. task'[v] = task[v] /\ TaskInv(v)
          BY <5>1, <1>1 DEF OthersWait, IInv
        <5>. QED BY <1>3, <4>1, <5>2 DEF TaskInv
      <4>2. ASSUME NEW v \in Removing(h)' PROVE FALSE
        <5>1. v \in Workers /\ task'[v].at = "rmCount" /\ globalFile'[task'[v].hashId].hash = h
          BY DEF Removing
        <5>. QED BY <3>1, <4>1, <5>1
      <4>. QED BY <4>2
    <3>5. Uploaded(h)' = Uploaded(h)
      <4>1. w \notin Uploaded(h)' /\ w \notin Uploaded(h)
        BY <1>0, <1>1 DEF Uploaded
      <4>2. \A y : y # w => (y \in Uploaded(h)' <=> y \in Uploaded(h))
        BY <1>1, <1>4, Members
      <4>3. \A y : y \in Uploaded(h)' <=> y \in Uploaded(h)
        BY <4>1, <4>2
      <4>. QED BY <4>3 DEF Uploaded
    <3>12. Cardinality(Uploaded(h)) \in Nat /\ Cardinality(Uploaded(h)) <= refused
      <4>1. Uploaded(h) \subseteq Workers
        BY DEF Uploaded
      <4>2. IsFiniteSet(Uploaded(h))
        BY <4>1, FS_Subset
      <4>3. RowsOf(h) = {}
        BY <2>3 DEF RowsOf, RowsIn
      <4>. QED BY <4>2, <4>3, <1>8, FS_CardinalityType DEF LinkInv, Owed
    <3>6. IsFiniteSet(Adding(h)') /\ Cardinality(Adding(h)') \in Nat
      <4>1. Adding(h)' \subseteq Workers
        BY DEF Adding
      <4>2. IsFiniteSet(Adding(h)')
        BY <4>1, FS_Subset
      <4>. QED BY <4>2, FS_CardinalityType
    <3>7. IsFiniteSet({}) /\ Cardinality({}) = 0
      BY FS_EmptySet
    <3>8. PICK n : n = Cardinality(Adding(h)')
      OBVIOUS
    <3>9. n \in Nat
      BY <3>6, <3>8
    <3>13. PICK u \in Nat, r \in Nat : u = Cardinality(Uploaded(h)) /\ r = refused
      BY <3>12 DEF IInv, TypeOK
    <3>10. 0 + n + r >= 0 + 0 + u
      BY <3>9, <3>12, <3>13
    <3>11. /\ Cardinality(Listed(h)') = 0 /\ Cardinality(Removing(h)') = 0
           /\ Cardinality(Uploaded(h)') = u /\ IsFiniteSet(Listed(h)') /\ refused' = r
      BY <1>0, <3>3, <3>4, <3>5, <3>7, <3>13
    <3>. QED BY <3>2, <3>8, <3>10, <3>11
  <2>. QED BY <2>2, <2>3 DEF Covers
<1>20. refused' \in Nat /\ refused' >= refused
  <2>1. refused' = refused
    BY <1>0
  <2>2. refused \in Nat
    BY DEF IInv, TypeOK
  <2>. QED BY <2>1, <2>2
<1>21. \A h : ~ (w \in Uploaded(h)')
  BY <1>1 DEF Uploaded
<1>. QED BY <1>0, <1>1, <1>4, <1>7, <1>8, <1>20, <1>21, LinkStep DEF RmLabels

\* What a refusal leaves uncounted is made up for by the refusal itself.
LEMMA RefusedLinks ==
  ASSUME IInv, TypeOK', LinkInv, NEW w \in Workers, StatementRefused(w) \/ SelectRefused(w)
  PROVE  LinkInv'
<1>0. task[w] \in Locals /\ task \in [Workers -> Locals] /\ refused \in Nat
  BY DEF IInv, TypeOK
<1>1. UNCHANGED <<globalFile, virtualFile, crashes>> /\ refused' = refused + 1
  BY DEF StatementRefused, SelectRefused
<1>2. /\ OthersWait(w)
      /\ task'[w].at \in {"idle", "getId", "insert", "link", "getsOpen"}
      /\ task'[w].at = "link" => task[w].at = "insert" /\ task'[w].hash = task[w].hash
      /\ task'[w].at = "insert" => task'[w].hashId = 0
      /\ task'[w].at \in {"getId", "insert"} => task'[w].hash = task[w].hash
      /\ task'[w].at = "getId" => task[w].at = "addGlob"
      /\ task'[w].at = "insert" => task[w].at = "getId" /\ task'[w].len = task[w].len
  <2>1. CASE Finish(w)
    <3>. HIDE DEF Finish
    <3>. QED BY <2>1, WentTo
  <2>2. CASE task[w].at = "addGlob" /\ Goto(w, "getId")
    <3>. HIDE DEF Goto
    <3>. QED BY <2>2, WentTo
  <2>3. CASE task[w].at = "insert" /\ Goto(w, "link")
    <3>. HIDE DEF Goto
    <3>. QED BY <2>3, WentTo
  <2>4. CASE task[w].at = "getId" /\ task' = [task EXCEPT ![w].at = "insert", ![w].hashId = 0]
    BY <1>0, <2>4 DEF OthersWait, Locals
  <2>5. CASE task[w].at = "idle" /\ UNCHANGED task
    BY <2>5 DEF OthersWait
  <2>6. ASSUME NEW g, task' = [task EXCEPT ![w] = [Idle EXCEPT !.at = "getsOpen", !.hash = g]]
        PROVE  OthersWait(w) /\ task'[w].at = "getsOpen"
    BY <1>0, <2>6 DEF OthersWait, Idle
  <2>7. CASE StatementRefused(w)
    <3>. HIDE DEF Goto, Finish
    <3>1. CASE task[w].at = "insert"
      BY <2>1, <2>3, <2>7, <3>1 DEF StatementRefused, InRm
    <3>2. CASE task[w].at # "insert"
      BY <2>1, <2>2, <2>4, <2>7, <3>2 DEF StatementRefused
    <3>. QED BY <3>1, <3>2
  <2>8. CASE SelectRefused(w)
    BY <2>5, <2>6, <2>8 DEF SelectRefused
  <2>. QED BY <2>7, <2>8
<1>3. RowsKept
  BY <1>1 DEF RowsKept
<1>4. LinkTask(w)'
  <2>1. task'[w].at = "link" => task'[w].hash \in Hashes
    BY <1>2 DEF IInv, TaskInv
  <2>. QED BY <1>2, <2>1 DEF LinkTask
<1>5. ASSUME crashes = 0 PROVE Covers'
  <2>1. Covers
    BY <1>5 DEF LinkInv
  <2>2. ASSUME NEW h \in Hashes
        PROVE  /\ IsFiniteSet(Listed(h)')
               /\ Links(h)' + Cardinality(Adding(h)') + refused'
                    >= Cardinality(Listed(h)') + Cardinality(Removing(h)') + Cardinality(Uploaded(h)')
    <3>1. Listed(h)' = Listed(h) /\ Links(h)' = Links(h) /\ Links(h) \in Int
      BY <1>1, <1>3, SameListed, LinksAre, LinksType DEF IInv
    <3>2. Bit(w \in Removing(h)') = 0 /\ Bit(w \in Removing(h)) \in {0, 1}
      BY <1>2 DEF Bit, Removing
    <3>3. Bit(NULL \in Listed(h)) - Bit(NULL \in Listed(h)) = 0
      BY DEF Bit
    <3>4. w \in Uploaded(h)' => w \in Uploaded(h) \/ (w \notin Adding(h) /\ w \notin Adding(h)')
      BY <1>2 DEF Uploaded, Adding
    <3>5. w \in Uploaded(h)' => w \notin Adding(h)
      BY <1>2 DEF Uploaded, Adding
    <3>6. Bit(w \in Uploaded(h)') - Bit(w \in Uploaded(h))
             - (Bit(w \in Adding(h)') - Bit(w \in Adding(h))) <= 1
      BY <3>4, <3>5 DEF Bit
    <3>7. Gains(w, NULL, h) \in Int /\ Gains(w, NULL, h) <= 1
      <4>1. PICK a, b, c, d, e, f \in Int :
              /\ a = Bit(w \in Uploaded(h)') /\ b = Bit(w \in Uploaded(h))
              /\ c = Bit(w \in Adding(h)') /\ d = Bit(w \in Adding(h))
              /\ e = Bit(w \in Removing(h)') /\ f = Bit(w \in Removing(h))
        BY DEF Bit
      <4>2. Gains(w, NULL, h) = 0 + (e - f) + (a - b) - (c - d)
        BY <3>1, <3>3, <4>1 DEF Gains
      <4>3. a - b - (c - d) <= 1 /\ e = 0 /\ f >= 0
        BY <3>2, <3>6, <4>1
      <4>. QED BY <4>2, <4>3
    <3>. HIDE DEF Gains
    <3>8. PICK g \in Int, l \in Int, r \in Nat : g = Gains(w, NULL, h) /\ l = Links(h) /\ r = refused
      BY <1>0, <3>1, <3>7
    <3>9. l + (r + 1) >= l + r + g
      BY <3>7, <3>8
    <3>10. Links(h)' + refused' >= Links(h) + refused + Gains(w, NULL, h)
      BY <1>1, <3>1, <3>8, <3>9
    <3>. QED BY <1>2, <1>3, <2>1, <3>1, <3>10, CoverMore
  <2>. QED BY <2>2 DEF Covers
<1>6. refused' \in Nat /\ refused' >= refused /\ refused' >= refused + 1
  BY <1>0, <1>1
<1>. QED BY <1>1, <1>2, <1>3, <1>4, <1>5, <1>6, LinkStep DEF RmLabels

\* At the start there is nothing to cover, and a crash ends the promise.
LEMMA InitLinks == Init => LinkInv
<1>. SUFFICES ASSUME Init PROVE LinkInv
  OBVIOUS
<1>0. IsFiniteSet({}) /\ Cardinality({}) = 0
  BY FS_EmptySet
<1>1. /\ globalFile = <<>> /\ \A p \in Paths : virtualFile[p] = NULL
      /\ \A w \in Workers : task[w].at = "idle"
  BY DEF Init, Idle
<1>2. InRm = {} /\ 0 <= MaxRm
  BY <1>1, FileStoreAssumption DEF InRm
<1>3. ASSUME NEW h \in Hashes
      PROVE  /\ IsFiniteSet(Listed(h))
             /\ Links(h) + Cardinality(Adding(h)) + refused
                  >= Cardinality(Listed(h)) + Cardinality(Removing(h)) + Cardinality(Uploaded(h))
             /\ Cardinality(Uploaded(h)) <= refused
  <2>0. refused = 0
    BY DEF Init
  <2>1. Listed(h) = {} /\ Adding(h) = {} /\ Removing(h) = {} /\ Uploaded(h) = {}
    BY <1>1 DEF Listed, Adding, Removing, Uploaded
  <2>2. RowsIn(globalFile, h) = {}
    BY <1>1 DEF RowsIn
  <2>3. Links(h) = 0
    <3>1. Sum(CountIn(globalFile), {}) = 0
      BY SumEmpty
    <3>. QED BY <2>2, <3>1, LinksAre DEF LinksIn
  <2>. QED BY <1>0, <2>0, <2>1, <2>3
<1>4. \A w \in Workers : LinkTask(w)
  BY <1>1 DEF LinkTask
<1>5. Cardinality(InRm) <= MaxRm
  BY <1>0, <1>2
<1>. QED BY <1>3, <1>4, <1>5 DEF LinkInv, Covers, Owed

LEMMA CrashLinks == IInv /\ LinkInv /\ Crash => LinkInv'
<1>. SUFFICES ASSUME IInv, LinkInv, Crash PROVE LinkInv'
  OBVIOUS
<1>1. crashes' # 0
  BY DEF Crash, IInv, TypeOK
<1>2. \A w \in Workers : task'[w].at = "idle"
  BY DEF Crash, Idle
<1>3. InRm' = {} /\ 0 <= MaxRm
  BY <1>2, FileStoreAssumption DEF InRm
<1>4. Cardinality({}) = 0
  BY FS_EmptySet
<1>. QED BY <1>1, <1>3, <1>4 DEF LinkInv

LEMMA NextLinks == MaxRm <= 1 /\ IInv /\ IInv' /\ LinkInv /\ [Next]_vars => LinkInv'
<1>. SUFFICES ASSUME MaxRm <= 1, IInv, IInv', LinkInv PROVE [Next]_vars => LinkInv'
  OBVIOUS
<1>0. TypeOK'
  BY DEF IInv
<1>1. ASSUME UNCHANGED vars PROVE LinkInv'
  <2>1. crashes' = crashes /\ Covers' = Covers /\ Owed' = Owed /\ InRm' = InRm
        /\ \A w \in Workers : LinkTask(w)' = LinkTask(w)
    <3>1. \A h : /\ Links(h)' = Links(h) /\ Listed(h)' = Listed(h) /\ Adding(h)' = Adding(h)
                 /\ Removing(h)' = Removing(h) /\ Uploaded(h)' = Uploaded(h)
      BY <1>1, LinksAre DEF vars, Listed, Adding, Removing, Uploaded
    <3>2. crashes' = crashes /\ InRm' = InRm
      BY <1>1 DEF vars, InRm
    <3>3. Covers' = Covers /\ Owed' = Owed
      <4>1. refused' = refused /\ \A h : RowsOf(h)' = RowsOf(h)
        BY <1>1 DEF vars, RowsOf
      <4>. QED BY <3>1, <4>1 DEF Covers, Owed
    <3>4. \A w \in Workers : LinkTask(w)' = LinkTask(w)
      BY <1>1 DEF vars, LinkTask, RowsOf
    <3>. QED BY <3>2, <3>3, <3>4
  <2>. QED BY <2>1 DEF LinkInv
<1>2. ASSUME NEW w \in Workers, Puts(w) PROVE LinkInv'
  BY <1>0, <1>2, PutsOpenLinks, PutsLenLinks, PlainLinks, RecvChunkLinks, AddGlobFileLinks,
     GetHashIdLinks, AddVirtualLinks, UpdataLinkLinks DEF Puts
<1>3. ASSUME NEW w \in Workers, Rm(w) PROVE LinkInv'
  BY <1>0, <1>3, SelectLinks, RmDeleteLinks, RmCountLinks, PlainLinks, RmTimeLinks DEF Rm
<1>4. ASSUME NEW w \in Workers, Gets(w) PROVE LinkInv'
  BY <1>0, <1>4, SelectLinks, GetsOpenLinks, PlainLinks DEF Gets
<1>. QED BY <1>0, <1>1, <1>2, <1>3, <1>4, RefusedLinks, CrashLinks DEF Next, Done

\* While removals come one at a time and no crash falls between two statements, the
\* link counts of a content fall below the number of its paths by at most the number
\* of statements that were refused, however many uploads of it run at the same time.
THEOREM LinksCovered == MaxRm <= 1 /\ Spec => []LinksCover
<1>1. IInv /\ LinkInv => LinksCover
  <2>. SUFFICES ASSUME IInv, LinkInv, crashes = 0, NEW h \in Hashes
                PROVE  Links(h) + Cardinality(Adding(h)) + refused >= Cardinality(Listed(h)) + Cardinality(Removing(h))
    BY DEF LinksCover
  <2>1. /\ IsFiniteSet(Listed(h))
        /\ Links(h) + Cardinality(Adding(h)) + refused
             >= Cardinality(Listed(h)) + Cardinality(Removing(h)) + Cardinality(Uploaded(h))
    BY DEF LinkInv, Covers
  <2>2. Adding(h) \subseteq Workers /\ Removing(h) \subseteq Workers /\ Uploaded(h) \subseteq Workers
    BY DEF Adding, Removing, Uploaded
  <2>3. IsFiniteSet(Adding(h)) /\ IsFiniteSet(Removing(h)) /\ IsFiniteSet(Uploaded(h))
    BY <2>2, FS_Subset
  <2>4. /\ Cardinality(Adding(h)) \in Nat /\ Cardinality(Removing(h)) \in Nat
        /\ Cardinality(Uploaded(h)) \in Nat /\ Cardinality(Listed(h)) \in Nat /\ Links(h) \in Int /\ refused \in Nat
    BY <2>1, <2>3, FS_CardinalityType, LinksType DEF IInv, TypeOK
  <2>. QED BY <2>1, <2>4
<1>. SUFFICES ASSUME MaxRm <= 1 PROVE Spec => []LinksCover
  OBVIOUS
<1>2. IInv /\ IInv' /\ LinkInv /\ [Next]_vars => LinkInv'
  BY NextLinks
<1>. QED BY <1>1, <1>2, InitInv, InitLinks, NextInv, PTL DEF Spec
===============================================================================
