---------------------------- MODULE TransferProofs ----------------------------
(***************************************************************************)
(* Proofs about the transfer of a file's bytes, the two processes of the   *)
(* server and the queue of path_handler, which have nothing in common but  *)
(* this module.                                                            *)
(*                                                                         *)
(* Transfer: for every size of the buffers, of the file and of the         *)
(* message, and any number of faults, a byte that is on its way is at its  *)
(* place, the two counts are the bytes read and written, and the safety    *)
(* properties the run checks follow.                                       *)
(*                                                                         *)
(* Processes: the orderly end of parent and child, for any number of       *)
(* workers, messages, signals and crashes.                                 *)
(*                                                                         *)
(* PathResolver: the ring is a queue, for every capacity, any names and    *)
(* any number of workers.                                                  *)
(***************************************************************************)
EXTENDS Transfer, Processes, PathResolver, SequenceTheorems, FiniteSetTheorems, TLAPS

\* The inductive invariant: the counts of both loops and the places of all bytes.
IInv == TypeOK /\ SenderInv /\ ReceiverInv

-------------------------------------------------------------------------------
(* Sequences *)

LEMMA FrontPart ==
  ASSUME NEW S, NEW s \in Seq(S), NEW k \in 0..Len(s)
  PROVE  /\ SubSeq(s, 1, k) \in Seq(S) /\ Len(SubSeq(s, 1, k)) = k
         /\ \A i \in 1..k : SubSeq(s, 1, k)[i] = s[i]
<1>1. \A i \in 1..k : s[i] \in S
  OBVIOUS
<1>2. /\ SubSeq(s, 1, k) \in Seq(S)
      /\ Len(SubSeq(s, 1, k)) = IF 1 <= k THEN k - 1 + 1 ELSE 0
      /\ \A i \in 1..(k - 1 + 1) : SubSeq(s, 1, k)[i] = s[1 + i - 1]
  BY <1>1, SubSeqProperties
<1>3. (IF 1 <= k THEN k - 1 + 1 ELSE 0) = k /\ k - 1 + 1 = k
  OBVIOUS
<1>4. \A i \in 1..k : 1 + i - 1 = i
  OBVIOUS
<1>. QED BY <1>2, <1>3, <1>4

LEMMA RearPart ==
  ASSUME NEW S, NEW s \in Seq(S), NEW k \in 0..Len(s)
  PROVE  /\ Drop(s, k) \in Seq(S) /\ Len(Drop(s, k)) = Len(s) - k
         /\ \A i \in 1..(Len(s) - k) : Drop(s, k)[i] = s[k + i]
<1>. DEFINE m == k + 1
            n == Len(s)
<1>1. n \in Nat /\ m \in Nat /\ k \in Nat /\ \A i \in m..n : s[i] \in S
  OBVIOUS
<1>2. /\ SubSeq(s, m, n) \in Seq(S)
      /\ Len(SubSeq(s, m, n)) = IF m <= n THEN n - m + 1 ELSE 0
      /\ \A i \in 1..(n - m + 1) : SubSeq(s, m, n)[i] = s[m + i - 1]
  BY <1>1, SubSeqProperties
<1>3. n - m + 1 = n - k /\ \A i \in 1..(n - k) : m + i - 1 = k + i
  BY <1>1
<1>4. k <= n /\ m = k + 1 /\ Drop(s, k) = SubSeq(s, m, n)
  BY DEF Drop
<1>. HIDE DEF m, n
<1>5. (IF m <= n THEN n - m + 1 ELSE 0) = n - k
  <2>1. CASE m <= n
    BY <2>1, <1>3
  <2>2. CASE ~ (m <= n)
    <3>1. n = k
      BY <2>2, <1>1, <1>4
    <3>. QED BY <3>1, <2>2, <1>1
  <2>. QED BY <2>1, <2>2
<1>. QED BY <1>2, <1>3, <1>4, <1>5 DEF m, n

\* The sequence s goes on with t.
LEMMA Joined ==
  ASSUME NEW S, NEW s \in Seq(S), NEW t \in Seq(S)
  PROVE  /\ s \o t \in Seq(S) /\ Len(s \o t) = Len(s) + Len(t)
         /\ \A i \in 1..Len(s) : (s \o t)[i] = s[i]
         /\ \A i \in 1..(Len(s) + Len(t)) : i > Len(s) => (s \o t)[i] = t[i - Len(s)]
<1>1. \A i \in 1..(Len(s) + Len(t)) :
        (s \o t)[i] = IF i <= Len(s) THEN s[i] ELSE t[i - Len(s)]
  BY ConcatProperties
<1>2. \A i \in 1..Len(s) : i \in 1..(Len(s) + Len(t)) /\ i <= Len(s)
  OBVIOUS
<1>3. Len(s) \in Nat /\ Len(t) \in Nat
  OBVIOUS
<1>4. \A i \in 1..(Len(s) + Len(t)) : i > Len(s) => ~ (i <= Len(s))
  BY <1>3
<1>. QED BY <1>1, <1>2, <1>4, ConcatProperties

LEMMA Made ==
  ASSUME NEW S, NEW n \in Nat, NEW f, f = [i \in 1..n |-> f[i]], \A i \in 1..n : f[i] \in S
  PROVE  f \in Seq(S) /\ Len(f) = n
  BY IsASeq

-------------------------------------------------------------------------------
(* The beginning, and what the invariant implies *)

LEMMA InitIInv == Init => IInv
<1> SUFFICES ASSUME Init PROVE IInv
  OBVIOUS
<1>. USE DEF Init, ReceiverLost
<1>1. <<>> \in Bytes /\ Len(<<>>) = 0
  BY EmptySeq DEF Bytes
<1>2. len \in Nat /\ len >= 1 /\ len <= MaxLen
  BY TransferAssumption
<1>3. TypeOK
  <2>1. len \in 1..MaxLen /\ size \in 0..(MaxLen + 1)
    BY <1>2, TransferAssumption
  <2>2. /\ snd \in [at: {"loop", "send", "done", "gone", "killed"}, pos: Nat, count: Int,
                    n: Nat, buf: Bytes]
        /\ rcv \in [at: {"loop", "write", "done", "gone", "exited"}, count: Int, want: Nat,
                    buf: Bytes]
    BY <1>1
  <2>. QED BY <1>1, <2>1, <2>2 DEF TypeOK
<1>4. SenderInv
  BY <1>1, <1>2, TransferAssumption DEF SenderInv, SentInPlace, SentAccounts, SentCounts, Sent, Unsent
<1>5. ReceiverInv
  BY <1>1, <1>2, TransferAssumption DEF ReceiverInv, StoredInPlace, StoredAccounts, StoredCounts, Unwritten
<1>. QED BY <1>3, <1>4, <1>5 DEF IInv

\* The bytes that came before the message were read from the file.
LEMMA Placed ==
  ASSUME IInv, NEW i \in Nat, i >= 1, i <= taken, i <= len, "shrunk" \notin faults, Countable
  PROVE  ByteAt(i) = i
<1>1. followed => len <= snd.pos
  BY DEF IInv, TypeOK, SenderInv, SentCounts
<1>2. ~followed => taken <= snd.pos
  <2>1. Unsent \in Nat
    BY DEF IInv, TypeOK, Bytes, Unsent
  <2>. QED BY <2>1 DEF IInv, TypeOK, SenderInv, SentAccounts, Sent, Bytes
<1>. QED BY <1>1, <1>2 DEF IInv, TypeOK, ByteAt

LEMMA PrefixHolds == IInv => StoresPrefix
<1> SUFFICES ASSUME IInv, ~Big, faults \cap {"full", "shrunk"} = {}
             PROVE  stored = Range1(Len(stored))
  BY DEF StoresPrefix
<1>1. "full" \notin faults /\ "shrunk" \notin faults /\ Unspoilt /\ Countable
  BY DEF Unspoilt, Countable
<1>2. /\ stored \in Seq(Int \cup {MSG}) /\ Len(stored) \in Nat /\ Len(stored) <= taken /\ Len(stored) <= len
      /\ \A i \in 1..Len(stored) : stored[i] = ByteAt(i)
  BY <1>1 DEF IInv, TypeOK, ReceiverInv, StoredInPlace, StoredAccounts, StoredCounts, Bytes, Unwritten
<1>3. len \in Nat /\ taken \in Nat
  BY TransferAssumption DEF IInv, TypeOK
<1>4. \A i \in 1..Len(stored) : stored[i] = i
  <2> SUFFICES ASSUME NEW i \in 1..Len(stored) PROVE stored[i] = i
    OBVIOUS
  <2>1. i \in Nat /\ i >= 1 /\ i <= taken /\ i <= len
    BY <1>2, <1>3
  <2>. QED BY <2>1, <1>1, <1>2, Placed
<1>5. stored = [i \in 1..Len(stored) |-> stored[i]]
  BY <1>2
<1>. QED BY <1>4, <1>5 DEF Range1

LEMMA OvershootHolds == IInv => OvershootBounded
<1> SUFFICES ASSUME IInv, Big, Countable, "shrunk" \notin faults
             PROVE  Cardinality({ i \in DOMAIN stored : stored[i] = MSG }) < Block
  BY DEF OvershootBounded
<1>. DEFINE M == { i \in DOMAIN stored : stored[i] = MSG }
<1>1. /\ stored \in Seq(Int \cup {MSG}) /\ Len(stored) \in Nat /\ Len(stored) <= taken
      /\ Len(stored) < len + Block
      /\ \A i \in 1..Len(stored) : stored[i] = ByteAt(i)
  BY DEF IInv, TypeOK, ReceiverInv, StoredInPlace, StoredAccounts, StoredCounts, Bytes, Unwritten, Unspoilt
<1>2. len \in Nat /\ taken \in Nat /\ Block \in Nat /\ Block >= 1 /\ MSG \notin Int
  BY TransferAssumption DEF IInv, TypeOK
<1>3. M \in SUBSET ((len + 1)..(len + (Block - 1)))
  <2> SUFFICES ASSUME NEW i \in 1..Len(stored), stored[i] = MSG
               PROVE  i \in (len + 1)..(len + (Block - 1))
    BY <1>1
  <2>1. i \in Nat /\ i >= 1 /\ i <= taken
    BY <1>1, <1>2
  <2>2. ~ (i <= len)
    BY <2>1, <1>1, <1>2, Placed
  <2>. QED BY <2>1, <2>2, <1>1, <1>2
<1>4. /\ IsFiniteSet((len + 1)..(len + (Block - 1)))
      /\ Cardinality((len + 1)..(len + (Block - 1)))
           = IF len + 1 > len + (Block - 1) THEN 0 ELSE (len + (Block - 1)) - (len + 1) + 1
  BY <1>2, FS_Interval
<1>. HIDE DEF M
<1>5. IsFiniteSet(M) /\ Cardinality(M) <= Cardinality((len + 1)..(len + (Block - 1)))
  BY <1>3, <1>4, FS_Subset
<1>6. Cardinality(M) \in Nat
  BY <1>5, FS_CardinalityType
<1>7. Cardinality((len + 1)..(len + (Block - 1))) <= Block - 1
  BY <1>2, <1>4
<1>8. Cardinality((len + 1)..(len + (Block - 1))) \in Int
  BY <1>2, <1>4
<1>9. Cardinality(M) < Block
  BY <1>2, <1>5, <1>6, <1>7, <1>8
<1>. QED BY <1>9 DEF M

LEMMA ReturnsHolds == IInv => ReturnsWhole
<1> SUFFICES ASSUME IInv, rcv.at = "done", Countable, faults \subseteq {"grown", "eof"}
             PROVE  Len(stored) >= len /\ SubSeq(stored, 1, len) = Range1(len)
  BY DEF ReturnsWhole
<1>1. "full" \notin faults /\ "shrunk" \notin faults /\ "reset" \notin faults /\ Unspoilt
  BY DEF Unspoilt
<1>2. /\ stored \in Seq(Int \cup {MSG}) /\ Len(stored) \in Nat /\ Len(stored) <= taken /\ Len(stored) >= len
      /\ \A i \in 1..Len(stored) : stored[i] = ByteAt(i)
  BY <1>1 DEF IInv, TypeOK, ReceiverInv, StoredInPlace, StoredAccounts, StoredCounts, Bytes, Unwritten
<1>3. len \in Nat /\ taken \in Nat /\ len \in 0..Len(stored)
  BY <1>2, TransferAssumption DEF IInv, TypeOK
<1>. DEFINE p == SubSeq(stored, 1, len)
<1>4. p \in Seq(Int \cup {MSG}) /\ Len(p) = len /\ \A i \in 1..len : p[i] = stored[i]
  BY <1>2, <1>3, FrontPart
<1>5. \A i \in 1..len : stored[i] = i
  <2> SUFFICES ASSUME NEW i \in 1..len PROVE stored[i] = i
    OBVIOUS
  <2>1. i \in Nat /\ i >= 1 /\ i <= taken /\ i <= len /\ i \in 1..Len(stored)
    BY <1>2, <1>3
  <2>. QED BY <2>1, <1>1, <1>2, Placed
<1>. HIDE DEF p
<1>6. p = [i \in 1..len |-> p[i]]
  BY <1>4
<1>7. p = Range1(len)
  BY <1>4, <1>5, <1>6 DEF Range1
<1>. QED BY <1>2, <1>7 DEF p

LEMMA RestHolds == IInv => LeavesTheRest
<1> SUFFICES ASSUME IInv, rcv.at = "done", snd.at = "done", ~Big, faults = {}
             PROVE  stream = IF followed THEN [i \in 1..MsgLen |-> MSG] ELSE <<>>
  BY DEF LeavesTheRest
<1>1. Unspoilt /\ Countable /\ ~ReceiverLost /\ link # "reset"
  BY DEF Unspoilt, Countable, ReceiverLost, IInv, SenderInv, SentAccounts
<1>2. len \in Nat /\ taken \in Nat /\ MsgLen \in Nat /\ snd.pos \in Nat /\ Len(stored) \in Nat
  BY TransferAssumption DEF IInv, TypeOK, Bytes
<1>3. Unsent = 0 /\ Unwritten = 0
  BY EmptySeq DEF IInv, SenderInv, SentAccounts, ReceiverInv, StoredAccounts, Unsent, Unwritten
<1>4. taken = len
  BY <1>1, <1>2, <1>3 DEF IInv, ReceiverInv, StoredAccounts, StoredCounts
<1>5. snd.pos = len
  BY <1>1, <1>2 DEF IInv, TypeOK, SenderInv, SentCounts
<1>6. /\ stream \in Seq(Int \cup {MSG}) /\ Len(stream) \in Nat
      /\ followed => Len(stream) = MsgLen
      /\ ~followed => Len(stream) = 0
  <2>1. stream \in Seq(Int \cup {MSG}) /\ Len(stream) \in Nat
    BY DEF IInv, TypeOK, Bytes
  <2>2. taken + Len(stream) + Unsent = Sent
    BY <1>1 DEF IInv, SenderInv, SentAccounts
  <2>. QED BY <1>2, <1>3, <1>4, <1>5, <2>1, <2>2 DEF Sent
<1>7. \A i \in 1..Len(stream) : stream[i] = MSG
  BY <1>2, <1>4, <1>5, <1>6 DEF IInv, SenderInv, SentInPlace, ByteAt
<1>8. stream = [i \in 1..Len(stream) |-> stream[i]]
  BY <1>6
<1>9. CASE followed
  BY <1>6, <1>7, <1>8, <1>9
<1>10. CASE ~followed
  BY <1>6, <1>10, EmptySeq
<1>. QED BY <1>9, <1>10

-------------------------------------------------------------------------------
(* The steps: what is used of the types, and the frames *)

\* Everything's type, for the steps that only count.
Scalars ==
  /\ len \in Nat /\ len >= 1 /\ size \in Nat /\ taken \in Nat
  /\ snd.pos \in Nat /\ snd.count \in Int /\ snd.n \in Nat
  /\ rcv.count \in Int /\ rcv.want \in Nat
  /\ Unsent \in Nat /\ Unwritten \in Nat /\ Len(stream) \in Nat /\ Len(stored) \in Nat
  /\ Chunk \in Nat /\ Chunk >= 1 /\ Block \in Nat /\ Block >= 1 /\ Threshold \in Nat
  /\ IntMax \in Nat /\ MsgLen \in Nat /\ MsgLen >= 1

LEMMA Facts ==
  ASSUME IInv
  PROVE  /\ Scalars
         /\ snd.buf \in Seq(Int \cup {MSG}) /\ rcv.buf \in Seq(Int \cup {MSG})
         /\ stream \in Seq(Int \cup {MSG}) /\ stored \in Seq(Int \cup {MSG})
  BY TransferAssumption DEF IInv, TypeOK, Bytes, Scalars, Unsent, Unwritten

\* Before the message all that is under way is of the file.
LEMMA FileOnly ==
  ASSUME IInv, ~followed
  PROVE  /\ Sent = snd.pos /\ taken + Len(stream) + Unsent <= snd.pos
         /\ link # "reset" /\ ~ReceiverLost => taken + Len(stream) + Unsent = snd.pos
  BY DEF IInv, SenderInv, SentAccounts, Sent

LEMMA CountedExact ==
  ASSUME IInv, NEW count \in Int, NEW n \in Int, NEW c \in Counted(count, n)
  PROVE  /\ c \in Int
         /\ ~Big \/ count + n <= IntMax => c = count + n
  BY Facts DEF Counted, Scalars

\* A step that leaves to the sender what is its own.
LEMMA SenderFrame ==
  ASSUME SenderInv, UNCHANGED <<len, size, snd, stream, link, taken, followed>>,
         \A f \in faults : f \in faults', ReceiverLost => ReceiverLost'
  PROVE  SenderInv'
<1>1. /\ Sent' = Sent /\ Unsent' = Unsent /\ Countable' = Countable /\ Big' = Big
      /\ \A i : ByteAt(i)' = ByteAt(i)
  BY DEF Sent, Unsent, Countable, Big, ByteAt
<1>2. SentInPlace'
  BY <1>1 DEF SenderInv, SentInPlace
<1>3. SentAccounts'
  BY <1>1 DEF SenderInv, SentAccounts
<1>4. SentCounts'
  BY <1>1 DEF SenderInv, SentCounts
<1>. QED BY <1>2, <1>3, <1>4 DEF SenderInv

\* A step that leaves to the receiver what is its own.
LEMMA ReceiverFrame ==
  ASSUME IInv, UNCHANGED <<len, rcv, stored, taken>>,
         \A f \in faults : f \in faults', "full" \in faults' => "full" \in faults,
         \A i \in 1..taken : ByteAt(i)' = ByteAt(i)
  PROVE  ReceiverInv'
<1>0. Scalars /\ Len(stored) + Unwritten <= taken
  BY Facts DEF IInv, ReceiverInv, StoredAccounts
<1>1. /\ Countable' = Countable /\ Big' = Big /\ Unspoilt' = Unspoilt
      /\ Unwritten' = Unwritten
  BY DEF Unspoilt, Countable, Big, Unwritten
<1>2. StoredInPlace'
  <2>1. \A i \in 1..Len(stored) : i \in 1..taken
    BY <1>0 DEF Scalars
  <2>2. \A i \in 1..Unwritten : taken - Unwritten + i \in 1..taken
    <3> SUFFICES ASSUME NEW i \in 1..Unwritten PROVE taken - Unwritten + i \in 1..taken
      OBVIOUS
    <3>1. Unwritten <= taken
      BY <1>0 DEF Scalars
    <3>. QED BY <3>1, <1>0 DEF Scalars
  <2>. QED BY <1>1, <2>1, <2>2 DEF IInv, ReceiverInv, StoredInPlace
<1>3. StoredAccounts'
  BY <1>1 DEF IInv, ReceiverInv, StoredAccounts
<1>4. StoredCounts'
  BY <1>1 DEF IInv, ReceiverInv, StoredCounts
<1>. QED BY <1>2, <1>3, <1>4 DEF ReceiverInv

-------------------------------------------------------------------------------
(* The sender's steps *)

LEMMA SendReadStep == IInv /\ SendRead => IInv'
<1> SUFFICES ASSUME IInv, SendRead PROVE IInv'
  OBVIOUS
<1>0. Scalars
  BY Facts
<1>. DEFINE n == Least(IF Big THEN Block ELSE Chunk, size - snd.pos)
            b == [i \in 1..n |-> snd.pos + i]
<1>1. /\ snd.at = "loop" /\ snd.count < len
      /\ snd' = IF n > 0 THEN [snd EXCEPT !.at = "send", !.pos = @ + n, !.n = n, !.buf = b]
                ELSE IF Big THEN snd ELSE [snd EXCEPT !.at = "done"]
      /\ UNCHANGED <<len, size, rcv, stream, link, stored, taken, followed, faults>>
  BY DEF SendRead
<1>2. n \in Int /\ n <= size - snd.pos /\ (Big => n <= Block) /\ (n > 0 \/ n = size - snd.pos)
  <2>1. CASE Big
    BY <2>1, <1>0 DEF Least, Scalars
  <2>2. CASE ~Big
    BY <2>2, <1>0 DEF Least, Scalars
  <2>. QED BY <2>1, <2>2
<1>3. snd.buf = <<>> /\ Unsent = 0 /\ ~followed
  BY <1>1, EmptySeq DEF IInv, SenderInv, SentAccounts, Unsent
<1>4. CASE n > 0
  <2>1. b \in Seq(Int \cup {MSG}) /\ Len(b) = n /\ \A i \in 1..n : b[i] = snd.pos + i
    <3>1. n \in Nat /\ \A i \in 1..n : b[i] \in Int \cup {MSG}
      BY <1>2, <1>4, <1>0 DEF Scalars
    <3>2. b = [i \in 1..n |-> b[i]]
      OBVIOUS
    <3>. HIDE DEF b
    <3>3. b \in Seq(Int \cup {MSG}) /\ Len(b) = n
      BY <3>1, <3>2, Made
    <3>. QED BY <3>3 DEF b
  <2>. HIDE DEF n, b
  <2>2. /\ snd'.at = "send" /\ snd'.pos = snd.pos + n /\ snd'.n = n /\ snd'.buf = b
        /\ snd'.count = snd.count /\ Unsent' = n
        /\ snd' = [snd EXCEPT !.at = "send", !.pos = @ + n, !.n = n, !.buf = b]
    BY <1>1, <1>4, <2>1 DEF IInv, TypeOK, Unsent
  <2>3. TypeOK'
    <3>1. snd.pos + n \in Nat /\ n \in Nat /\ b \in Bytes
      BY <1>2, <1>4, <2>1, <1>0 DEF Bytes, Scalars
    <3>. QED BY <1>1, <2>2, <3>1 DEF IInv, TypeOK
  <2>4. taken + Len(stream) <= snd.pos /\ taken <= snd.pos
    BY <1>3, <1>0, FileOnly DEF Scalars
  <2>5. \A i \in 1..snd.pos : ByteAt(i)' = ByteAt(i)
    <3>1. snd.pos \in Nat /\ n \in Nat
      BY <1>2, <1>4, <1>0 DEF Scalars
    <3>2. \A i \in 1..snd.pos : i <= snd.pos /\ i <= snd.pos + n
      BY <3>1
    <3>. QED BY <2>2, <3>2 DEF ByteAt
  <2>6. SentInPlace'
    <3>1. ASSUME NEW i \in 1..n PROVE b[i] = snd'.pos - n + i
      <4>1. i \in Int /\ n \in Int /\ snd.pos \in Int
        BY <1>2, <1>0 DEF Scalars
      <4>2. snd.pos + n - n + i = snd.pos + i
        BY <4>1
      <4>3. b[i] = snd.pos + i
        BY <2>1
      <4>4. snd'.pos = snd.pos + n
        BY <2>2
      <4>. QED BY <4>1, <4>2, <4>3, <4>4
    <3>2. ASSUME NEW i \in 1..Len(stream) PROVE stream[i] = ByteAt(taken + i)'
      <4>1. taken + i \in 1..snd.pos
        BY <2>4, <1>0 DEF Scalars
      <4>2. stream[i] = ByteAt(taken + i)
        BY DEF IInv, SenderInv, SentInPlace
      <4>. QED BY <1>1, <4>1, <4>2, <2>5 DEF ByteAt
    <3>. QED BY <1>1, <2>2, <3>1, <3>2 DEF SentInPlace
  <2>7. SentAccounts'
    <3>1. Sent = snd.pos /\ Sent' = snd.pos + n /\ ReceiverLost' = ReceiverLost
      BY <1>1, <1>3, <2>2 DEF Sent, ReceiverLost
    <3>2. taken + Len(stream) + Unsent' <= Sent'
      <4>1. Unsent' = n
        BY <2>2
      <4>2. taken + Len(stream) + n <= snd.pos + n
        BY <2>4, <1>2, <1>0 DEF Scalars
      <4>. QED BY <4>1, <4>2, <3>1
    <3>3. link # "reset" /\ ~ReceiverLost => taken + Len(stream) + Unsent' = Sent'
      BY <1>3, <2>2, <3>1, <1>2, <1>0, FileOnly DEF Scalars
    <3>. QED BY <1>1, <1>3, <2>2, <3>1, <3>2, <3>3 DEF IInv, SenderInv, SentAccounts
  <2>8. SentCounts'
    <3>1. ReceiverLost' = ReceiverLost /\ Big' = Big /\ Countable' = Countable
      BY <1>1 DEF Big, ReceiverLost, Countable
    <3>2. Countable /\ ~ReceiverLost => snd.count = snd.pos + n - n
      <4>1. Countable /\ ~ReceiverLost => snd.count = snd.pos
        BY <1>1 DEF IInv, SenderInv, SentCounts
      <4>2. snd.pos + n - n = snd.pos
        BY <1>2, <1>0 DEF Scalars
      <4>. QED BY <4>1, <4>2
    <3>3. snd.pos + n <= size
      BY <1>2, <1>0 DEF Scalars
    <3>4. /\ size <= len + 1 /\ (size <= len \/ "grown" \in faults)
          /\ (size >= len \/ "shrunk" \in faults)
      BY DEF IInv, SenderInv, SentCounts
    <3>5. /\ snd'.pos = snd.pos + n /\ snd'.n = n /\ snd'.count = snd.count /\ snd'.at = "send"
          /\ ~followed' /\ snd.count < len /\ (Big => n <= Block)
      BY <1>1, <1>2, <1>3, <2>2 DEF IInv, TypeOK
    <3>6. UNCHANGED <<len, size, faults>>
      BY <1>1
    <3>7. /\ snd'.pos <= size' /\ size' <= len' + 1
          /\ (size' <= len' \/ "grown" \in faults') /\ (size' >= len' \/ "shrunk" \in faults')
      BY <3>3, <3>4, <3>5, <3>6
    <3>8. Countable' /\ ~ReceiverLost' => snd'.count = snd'.pos - snd'.n
      <4>1. snd.pos \in Int /\ n \in Int
        BY <1>2, <1>0 DEF Scalars
      <4>. QED BY <3>1, <3>2, <3>5, <4>1
    <3>9. snd'.count < len' /\ (Big' => snd'.n <= Block)
      BY <3>1, <3>5, <3>6
    <3>10. snd'.at # "loop" /\ snd'.at # "done" /\ ~followed'
      BY <3>5
    <3>. QED BY <3>7, <3>8, <3>9, <3>10 DEF SentCounts
  <2>9. ReceiverInv'
    <3>1. \A i \in 1..taken : i \in 1..snd.pos
      BY <2>4, <1>0 DEF Scalars
    <3>. QED BY <1>1, <2>5, <3>1, ReceiverFrame
  <2>. QED BY <2>3, <2>6, <2>7, <2>8, <2>9 DEF IInv, SenderInv
<1>5. CASE ~ (n > 0) /\ ~Big
  <2>1. snd.pos = size
    BY <1>2, <1>5, <1>0 DEF Scalars, IInv, SenderInv, SentCounts
  <2>. HIDE DEF n, b
  <2>2. /\ snd' = [snd EXCEPT !.at = "done"] /\ snd'.at = "done" /\ snd'.pos = snd.pos
        /\ snd'.n = snd.n /\ snd'.buf = snd.buf /\ snd'.count = snd.count /\ Unsent' = Unsent
    BY <1>1, <1>5 DEF IInv, TypeOK, Unsent
  <2>3. TypeOK'
    BY <1>1, <2>2 DEF IInv, TypeOK
  <2>4. /\ ReceiverLost' = ReceiverLost /\ Big' = Big /\ Countable' = Countable /\ Sent' = Sent
        /\ \A i : ByteAt(i)' = ByteAt(i)
    BY <1>1, <2>2 DEF Big, ReceiverLost, Countable, Sent, ByteAt
  <2>5. SentInPlace'
    BY <1>1, <2>2, <2>4 DEF IInv, SenderInv, SentInPlace
  <2>6. SentAccounts'
    BY <1>1, <1>3, <2>2, <2>4 DEF IInv, SenderInv, SentAccounts
  <2>7. SentCounts'
    BY <1>1, <1>3, <2>1, <2>2, <2>4 DEF IInv, SenderInv, SentCounts
  <2>. QED BY <1>1, <2>3, <2>4, <2>5, <2>6, <2>7, ReceiverFrame DEF IInv, SenderInv
<1>6. CASE ~ (n > 0) /\ Big
  <2>1. UNCHANGED vars
    BY <1>1, <1>6 DEF vars
  <2>2. TypeOK' /\ SenderInv'
    BY <2>1, SenderFrame DEF vars, IInv, TypeOK, ReceiverLost
  <2>3. ReceiverInv'
    BY <2>1, ReceiverFrame DEF vars, ByteAt
  <2>. QED BY <2>2, <2>3 DEF IInv
<1>. QED BY <1>4, <1>5, <1>6

LEMMA SendSomeStep == IInv /\ SendSome => IInv'
<1> SUFFICES ASSUME IInv, SendSome PROVE IInv'
  OBVIOUS
<1>0. Scalars
  BY Facts
<1>s. snd.buf \in Seq(Int \cup {MSG}) /\ stream \in Seq(Int \cup {MSG})
  BY Facts
<1>1. PICK k \in 1..Unsent :
        /\ stream' = stream \o SubSeq(snd.buf, 1, k)
        /\ IF k < Unsent
           THEN snd' = [snd EXCEPT !.buf = Drop(@, k)]
           ELSE \E c \in Counted(snd.count, snd.n) :
                  snd' = [snd EXCEPT !.at = "loop", !.count = c, !.buf = <<>>]
  BY DEF SendSome, Unsent
<1>2. /\ snd.at = "send" /\ ~ReceiverLost
      /\ UNCHANGED <<len, size, rcv, link, stored, taken, followed, faults>>
  BY DEF SendSome
<1>. DEFINE front == SubSeq(snd.buf, 1, k)
            rear == Drop(snd.buf, k)
<1>3. /\ k \in Nat /\ k >= 1 /\ k <= Unsent /\ k \in 0..Unsent
      /\ ~followed /\ link = "up"
  BY <1>2, <1>0 DEF Scalars, IInv, SenderInv, SentAccounts
<1>t. k \in 0..Len(snd.buf) /\ Len(snd.buf) = Unsent
  BY <1>3 DEF Unsent
<1>4. /\ front \in Seq(Int \cup {MSG}) /\ Len(front) = k
      /\ \A i \in 1..k : front[i] = snd.buf[i]
      /\ rear \in Seq(Int \cup {MSG}) /\ Len(rear) = Unsent - k
      /\ \A i \in 1..(Unsent - k) : rear[i] = snd.buf[k + i]
  <2>. DEFINE u == snd.buf
  <2>1. u \in Seq(Int \cup {MSG}) /\ k \in 0..Len(u) /\ Len(u) = Unsent
    BY <1>t, <1>s
  <2>. HIDE DEF u
  <2>2. /\ SubSeq(u, 1, k) \in Seq(Int \cup {MSG}) /\ Len(SubSeq(u, 1, k)) = k
        /\ \A i \in 1..k : SubSeq(u, 1, k)[i] = u[i]
    BY <2>1, FrontPart
  <2>3. /\ Drop(u, k) \in Seq(Int \cup {MSG}) /\ Len(Drop(u, k)) = Len(u) - k
        /\ \A i \in 1..(Len(u) - k) : Drop(u, k)[i] = u[k + i]
    BY <2>1, RearPart
  <2>. QED BY <2>1, <2>2, <2>3 DEF u
<1>5. stream' = stream \o front
  BY <1>1
<1>. HIDE DEF front
<1>6. /\ stream' \in Seq(Int \cup {MSG}) /\ Len(stream') = Len(stream) + k
      /\ \A i \in 1..Len(stream) : stream'[i] = stream[i]
      /\ \A i \in 1..(Len(stream) + k) : i > Len(stream) => stream'[i] = front[i - Len(stream)]
  <2>1. /\ stream \o front \in Seq(Int \cup {MSG})
        /\ Len(stream \o front) = Len(stream) + Len(front)
        /\ \A i \in 1..Len(stream) : (stream \o front)[i] = stream[i]
        /\ \A i \in 1..(Len(stream) + Len(front)) :
             i > Len(stream) => (stream \o front)[i] = front[i - Len(stream)]
    <3>1. front \in Seq(Int \cup {MSG}) /\ stream \in Seq(Int \cup {MSG})
      BY <1>4, <1>s
    <3>. QED BY <3>1, Joined
  <2>. QED BY <1>4, <1>5, <2>1
<1>7. PICK c \in Int :
        IF k < Unsent THEN snd' = [snd EXCEPT !.buf = rear] /\ c = snd.count
        ELSE /\ snd' = [snd EXCEPT !.at = "loop", !.count = c, !.buf = <<>>]
             /\ ~Big \/ snd.count + snd.n <= IntMax => c = snd.count + snd.n
  <2>1. CASE k < Unsent
    BY <1>1, <2>1, <1>0 DEF Scalars
  <2>2. CASE ~ (k < Unsent)
    <3>1. PICK c \in Counted(snd.count, snd.n) :
            snd' = [snd EXCEPT !.at = "loop", !.count = c, !.buf = <<>>]
      BY <1>1, <2>2
    <3>2. /\ c \in Int
          /\ ~Big \/ snd.count + snd.n <= IntMax => c = snd.count + snd.n
      BY CountedExact, <1>0 DEF Scalars
    <3>. QED BY <2>2, <3>1, <3>2
  <2>. QED BY <2>1, <2>2
<1>. HIDE DEF rear
<1>8. /\ snd'.pos = snd.pos /\ snd'.n = snd.n /\ snd'.count = c
      /\ k < Unsent => snd'.at = "send" /\ snd'.buf = rear
      /\ ~ (k < Unsent) => snd'.at = "loop" /\ snd'.buf = <<>>
      /\ snd' \in [at: {"loop", "send", "done", "gone", "killed"}, pos: Nat, count: Int,
                   n: Nat, buf: Bytes]
  <2>1. <<>> \in Bytes /\ rear \in Bytes
    BY <1>4, EmptySeq DEF Bytes
  <2>2. CASE k < Unsent
    BY <1>2, <1>7, <2>1, <2>2 DEF IInv, TypeOK
  <2>3. CASE ~ (k < Unsent)
    BY <1>2, <1>7, <2>1, <2>3 DEF IInv, TypeOK
  <2>. QED BY <2>2, <2>3
<1>9. /\ Unsent' = Unsent - k
      /\ \A i \in 1..(Unsent - k) : snd'.buf[i] = snd.buf[k + i]
  <2>1. CASE k < Unsent
    BY <1>4, <1>8, <2>1 DEF Unsent
  <2>2. CASE ~ (k < Unsent)
    <3>1. Unsent - k = 0 /\ Len(<<>>) = 0
      BY <1>3, <2>2, <1>0, EmptySeq DEF Scalars
    <3>. QED BY <1>8, <2>2, <3>1 DEF Unsent
  <2>. QED BY <2>1, <2>2
<1>10. TypeOK'
  BY <1>2, <1>6, <1>8 DEF IInv, TypeOK, Bytes
<1>11. /\ \A i : ByteAt(i)' = ByteAt(i)
       /\ Sent' = Sent /\ ReceiverLost' = ReceiverLost /\ Big' = Big /\ Countable' = Countable
  BY <1>2, <1>8 DEF ByteAt, Sent, Big, ReceiverLost, Countable
<1>12. taken + Len(stream) + Unsent = snd.pos
  BY <1>2, <1>3, FileOnly
<1>13. SentInPlace'
  <2>1. ASSUME NEW i \in 1..Unsent'
        PROVE  snd'.buf[i] = snd'.pos - Unsent' + i
    <3>1. i \in Nat /\ k + i \in 1..Unsent /\ i \in 1..(Unsent - k)
      <4>1. Unsent \in Nat /\ i \in 1..(Unsent - k)
        BY <1>9, <1>0 DEF Scalars
      <4>. QED BY <4>1, <1>3
    <3>2. snd.buf[k + i] = snd.pos - Unsent + (k + i)
      BY <3>1 DEF IInv, SenderInv, SentInPlace
    <3>3. snd.pos - Unsent + (k + i) = snd.pos - (Unsent - k) + i
      BY <1>3, <3>1, <1>0 DEF Scalars
    <3>. QED BY <1>8, <1>9, <3>1, <3>2, <3>3
  <2>2. ASSUME NEW i \in 1..Len(stream') PROVE stream'[i] = ByteAt(taken + i)
    <3>1. CASE i <= Len(stream)
      <4>1. i \in 1..Len(stream)
        BY <3>1, <1>6, <1>0 DEF Scalars
      <4>. QED BY <4>1, <1>6 DEF IInv, SenderInv, SentInPlace
    <3>2. CASE ~ (i <= Len(stream))
      <4>. DEFINE j == i - Len(stream)
      <4>1. i \in 1..(Len(stream) + k) /\ i > Len(stream)
        BY <1>6, <3>2, <1>0 DEF Scalars
      <4>2. j \in 1..k /\ j \in 1..Unsent /\ i = Len(stream) + j
        BY <1>3, <4>1, <1>0 DEF Scalars
      <4>3. stream'[i] = snd.buf[j]
        BY <1>4, <1>6, <4>1, <4>2
      <4>. HIDE DEF j
      <4>4. snd.buf[j] = snd.pos - Unsent + j
        BY <4>2 DEF IInv, SenderInv, SentInPlace
      <4>5. snd.pos - Unsent = taken + Len(stream)
        BY <1>12, <1>0 DEF Scalars
      <4>6. snd.pos - Unsent + j = taken + i
        BY <4>2, <4>5, <1>0 DEF Scalars
      <4>7. snd.pos - Unsent + j <= snd.pos
        BY <4>2, <1>0 DEF Scalars
      <4>. QED BY <4>3, <4>4, <4>6, <4>7 DEF ByteAt
    <3>. QED BY <3>1, <3>2
  <2>. QED BY <1>2, <1>11, <2>1, <2>2 DEF SentInPlace
<1>14. SentAccounts'
  <2>1. Sent = snd.pos
    BY <1>3, FileOnly
  <2>2. taken + Len(stream') + Unsent' = snd.pos
    <3>. DEFINE a == Len(stream)
                l == Unsent
    <3>1. taken \in Int /\ a \in Int /\ l \in Int /\ k \in Int /\ taken + a + l = snd.pos
      BY <1>3, <1>12, <1>0 DEF Scalars
    <3>2. Len(stream') = a + k /\ Unsent' = l - k
      BY <1>6, <1>9
    <3>. HIDE DEF a, l
    <3>3. taken + (a + k) + (l - k) = snd.pos
      BY <3>1
    <3>. QED BY <3>2, <3>3
  <2>. QED BY <1>2, <1>3, <1>8, <1>11, <2>1, <2>2, <1>0 DEF Scalars, SentAccounts
<1>15. SentCounts'
  <2>1. Countable => snd.count = snd.pos - snd.n /\ snd.count < len /\ (Big => snd.n <= Block)
    BY <1>2 DEF IInv, SenderInv, SentCounts
  <2>2. Countable /\ Big => snd.count + snd.n <= IntMax
    BY <2>1, <1>0 DEF Scalars, Countable
  <2>3. Countable /\ k < Unsent => c = snd.count
    BY <1>7
  <2>4. Countable /\ ~ (k < Unsent) => c = snd.pos
    <3> SUFFICES ASSUME Countable, ~ (k < Unsent) PROVE c = snd.pos
      OBVIOUS
    <3>1. ~Big \/ snd.count + snd.n <= IntMax => c = snd.count + snd.n
      BY <1>7
    <3>2. c = snd.count + snd.n
      BY <2>2, <3>1
    <3>. QED BY <2>1, <3>2, <1>0 DEF Scalars
  <2>. QED BY <1>2, <1>3, <1>8, <1>11, <2>1, <2>3, <2>4 DEF IInv, SenderInv, SentCounts
<1>16. ReceiverInv'
  BY <1>2, <1>11, ReceiverFrame
<1>. QED BY <1>10, <1>13, <1>14, <1>15, <1>16 DEF IInv, SenderInv

\* The receiver is gone: what the sender does no longer matters to it.
LEMMA SendBrokenStep == IInv /\ SendBroken => IInv'
<1> SUFFICES ASSUME IInv, SendBroken PROVE IInv'
  OBVIOUS
<1>0. Scalars
  BY Facts
<1>1. /\ snd.at = "send" /\ ReceiverLost
      /\ UNCHANGED <<len, size, rcv, stream, link, stored, taken, followed, faults>>
  BY DEF SendBroken
<1>2. \/ snd' = [snd EXCEPT !.at = "killed"]
      \/ \E c \in Int : snd' = [snd EXCEPT !.at = "loop", !.count = c, !.buf = <<>>]
  <2>1. \A c \in Counted(snd.count, snd.n) : c \in Int
    BY <1>0, CountedExact DEF Scalars
  <2>2. snd.count - 1 \in Int
    BY <1>0 DEF Scalars
  <2>. QED BY <2>1, <2>2 DEF SendBroken
<1>3. /\ snd' \in [at: {"loop", "send", "done", "gone", "killed"}, pos: Nat, count: Int,
                   n: Nat, buf: Bytes]
      /\ snd'.pos = snd.pos
      /\ \/ snd'.at = "killed" /\ snd'.buf = snd.buf
         \/ snd'.at = "loop" /\ snd'.buf = <<>>
  <2>1. <<>> \in Bytes
    BY EmptySeq DEF Bytes
  <2>. QED BY <1>2, <2>1 DEF IInv, TypeOK
<1>4. /\ \/ snd'.at = "killed" /\ snd'.buf = snd.buf /\ Unsent' = Unsent
         \/ snd'.at = "loop" /\ snd'.buf = <<>> /\ Unsent' = 0
      /\ ~followed /\ link = "up"
  BY <1>1, <1>3, EmptySeq DEF Unsent, IInv, SenderInv, SentAccounts
<1>5. /\ \A i : ByteAt(i)' = ByteAt(i)
      /\ Sent' = Sent /\ ReceiverLost' = ReceiverLost /\ Big' = Big /\ Countable' = Countable
  BY <1>1, <1>3 DEF ByteAt, Sent, Big, ReceiverLost, Countable
<1>6. TypeOK'
  BY <1>1, <1>3 DEF IInv, TypeOK
<1>7. SentInPlace'
  <2>1. \A i \in 1..Unsent' : snd'.buf[i] = snd'.pos - Unsent' + i
    <3>1. CASE snd'.buf = snd.buf /\ Unsent' = Unsent
      BY <1>3, <3>1 DEF IInv, SenderInv, SentInPlace
    <3>2. CASE Unsent' = 0
      BY <3>2
    <3>. QED BY <1>4, <3>1, <3>2
  <2>. QED BY <1>1, <1>5, <2>1 DEF IInv, SenderInv, SentInPlace
<1>8. SentAccounts'
  <2>1. Unsent' \in Nat /\ Unsent' <= Unsent
    BY <1>4, <1>0 DEF Scalars
  <2>2. taken + Len(stream) + Unsent <= Sent /\ Sent = snd.pos
    BY <1>4, FileOnly
  <2>3. taken + Len(stream) + Unsent' <= Sent'
    BY <1>5, <2>1, <2>2, <1>0 DEF Scalars
  <2>. QED BY <1>1, <1>3, <1>4, <1>5, <2>3 DEF IInv, SenderInv, SentAccounts
<1>9. SentCounts'
  BY <1>1, <1>3, <1>4, <1>5 DEF IInv, SenderInv, SentCounts
<1>10. ReceiverInv'
  BY <1>1, <1>5, ReceiverFrame
<1>. QED BY <1>6, <1>7, <1>8, <1>9, <1>10 DEF IInv, SenderInv

LEMMA SendEndStep == IInv /\ SendEnd => IInv'
<1> SUFFICES ASSUME IInv, SendEnd PROVE IInv'
  OBVIOUS
<1>0. Scalars
  BY Facts
<1>1. /\ snd.at = "loop" /\ snd.count >= len /\ snd' = [snd EXCEPT !.at = "done"]
      /\ UNCHANGED <<len, size, rcv, stream, link, stored, taken, followed, faults>>
  BY DEF SendEnd
<1>2. /\ snd' \in [at: {"loop", "send", "done", "gone", "killed"}, pos: Nat, count: Int,
                   n: Nat, buf: Bytes]
      /\ snd'.at = "done" /\ snd'.pos = snd.pos /\ snd'.buf = snd.buf /\ Unsent' = Unsent
      /\ snd'.count = snd.count /\ snd'.n = snd.n
  BY <1>1 DEF IInv, TypeOK, Unsent
<1>3. /\ \A i : ByteAt(i)' = ByteAt(i)
      /\ Sent' = Sent /\ ReceiverLost' = ReceiverLost /\ Big' = Big /\ Countable' = Countable
  BY <1>1, <1>2 DEF ByteAt, Sent, Big, ReceiverLost, Countable
<1>4. TypeOK'
  BY <1>1, <1>2 DEF IInv, TypeOK
<1>5. SentInPlace'
  BY <1>1, <1>2, <1>3 DEF IInv, SenderInv, SentInPlace
<1>6. SentAccounts'
  BY <1>1, <1>2, <1>3 DEF IInv, SenderInv, SentAccounts
<1>7. SentCounts'
  <2>1. Countable /\ ~ReceiverLost => snd.pos >= len
    BY <1>1 DEF IInv, SenderInv, SentCounts
  <2>. QED BY <1>1, <1>2, <1>3, <2>1 DEF IInv, SenderInv, SentCounts
<1>8. ReceiverInv'
  BY <1>1, <1>3, ReceiverFrame
<1>. QED BY <1>4, <1>5, <1>6, <1>7, <1>8 DEF IInv, SenderInv

\* The message is put behind the file's last byte.
LEMMA FollowStep == IInv /\ Follow => IInv'
<1> SUFFICES ASSUME IInv, Follow PROVE IInv'
  OBVIOUS
<1>0. Scalars
  BY Facts
<1>. DEFINE m == [i \in 1..MsgLen |-> MSG]
<1>1. /\ snd.at = "done" /\ ~followed /\ link = "up" /\ ~ReceiverLost
      /\ followed' = TRUE /\ stream' = stream \o m
      /\ UNCHANGED <<len, size, snd, rcv, link, stored, taken, faults>>
  BY DEF Follow
<1>2. m \in Seq(Int \cup {MSG}) /\ Len(m) = MsgLen /\ \A i \in 1..MsgLen : m[i] = MSG
  <2>1. m = [i \in 1..MsgLen |-> m[i]] /\ \A i \in 1..MsgLen : m[i] = MSG
    OBVIOUS
  <2>2. MsgLen \in Nat
    BY <1>0 DEF Scalars
  <2>. HIDE DEF m
  <2>. QED BY <2>1, <2>2, Made
<1>. HIDE DEF m
<1>3. /\ stream' \in Seq(Int \cup {MSG}) /\ Len(stream') = Len(stream) + MsgLen
      /\ \A i \in 1..Len(stream) : stream'[i] = stream[i]
      /\ \A i \in 1..(Len(stream) + MsgLen) : i > Len(stream) => stream'[i] = m[i - Len(stream)]
  <2>1. stream \in Seq(Int \cup {MSG})
    BY Facts
  <2>2. /\ stream \o m \in Seq(Int \cup {MSG}) /\ Len(stream \o m) = Len(stream) + Len(m)
        /\ \A i \in 1..Len(stream) : (stream \o m)[i] = stream[i]
        /\ \A i \in 1..(Len(stream) + Len(m)) :
             i > Len(stream) => (stream \o m)[i] = m[i - Len(stream)]
    BY <1>2, <2>1, Joined
  <2>. QED BY <1>1, <1>2, <2>2
<1>4. snd.buf = <<>> /\ Unsent = 0 /\ Unsent' = Unsent
  BY <1>1, EmptySeq DEF IInv, SenderInv, SentAccounts, Unsent
<1>5. taken + Len(stream) = snd.pos
  BY <1>1, <1>4, <1>0, FileOnly DEF Scalars
<1>6. /\ \A i : ByteAt(i)' = ByteAt(i)
      /\ Sent' = snd.pos + MsgLen /\ ReceiverLost' = ReceiverLost /\ Big' = Big
      /\ Countable' = Countable
  BY <1>1 DEF ByteAt, Sent, Big, ReceiverLost, Countable
<1>7. TypeOK'
  BY <1>1, <1>3 DEF IInv, TypeOK, Bytes
<1>8. SentInPlace'
  <2>1. ASSUME NEW i \in 1..Len(stream') PROVE stream'[i] = ByteAt(taken + i)
    <3>1. CASE i <= Len(stream)
      <4>1. i \in 1..Len(stream)
        BY <3>1, <1>3, <1>0 DEF Scalars
      <4>. QED BY <4>1, <1>3 DEF IInv, SenderInv, SentInPlace
    <3>2. CASE ~ (i <= Len(stream))
      <4>1. i \in 1..(Len(stream) + MsgLen) /\ i > Len(stream) /\ i - Len(stream) \in 1..MsgLen
        BY <1>3, <3>2, <1>0 DEF Scalars
      <4>2. stream'[i] = MSG
        BY <1>2, <1>3, <4>1
      <4>3. ~ (taken + i <= snd.pos)
        BY <1>5, <3>2, <4>1, <1>0 DEF Scalars
      <4>. QED BY <4>2, <4>3 DEF ByteAt
    <3>. QED BY <3>1, <3>2
  <2>2. \A i \in 1..Unsent' : snd'.buf[i] = snd'.pos - Unsent' + i
    BY <1>4
  <2>. QED BY <1>1, <1>6, <2>1, <2>2 DEF SentInPlace
<1>9. SentAccounts'
  <2>1. taken + Len(stream') + Unsent' = Sent'
    BY <1>3, <1>4, <1>5, <1>6, <1>0 DEF Scalars
  <2>2. taken + Len(stream') + Unsent' <= Sent'
    BY <1>3, <1>4, <1>5, <1>6, <1>0 DEF Scalars
  <2>. QED BY <1>1, <1>4, <2>1, <2>2 DEF SentAccounts
<1>10. SentCounts'
  BY <1>1, <1>6 DEF IInv, SenderInv, SentCounts
<1>11. ReceiverInv'
  BY <1>1, <1>6, ReceiverFrame
<1>. QED BY <1>7, <1>8, <1>9, <1>10, <1>11 DEF IInv, SenderInv

LEMMA GrowStep == IInv /\ Grow => IInv'
<1> SUFFICES ASSUME IInv, Grow PROVE IInv'
  OBVIOUS
<1>0. Scalars
  BY Facts
<1>1. /\ size' = size + 1 /\ "grown" \notin faults /\ faults' = faults \cup {"grown"}
      /\ UNCHANGED <<len, snd, rcv, stream, link, stored, taken, followed>>
  BY DEF Grow, Fault
<1>2. size <= len /\ snd.pos <= size /\ (size >= len \/ "shrunk" \in faults)
  BY <1>1 DEF IInv, SenderInv, SentCounts
<1>3. /\ \A i : ByteAt(i)' = ByteAt(i)
      /\ Sent' = Sent /\ ReceiverLost' = ReceiverLost /\ Big' = Big /\ Countable' = Countable
      /\ Unsent' = Unsent
  BY <1>1 DEF ByteAt, Sent, Big, ReceiverLost, Countable, Unsent
<1>4. size' \in Nat /\ snd.pos <= size' /\ size' <= len + 1 /\ (size' >= len \/ "shrunk" \in faults)
  BY <1>1, <1>2, <1>0 DEF Scalars
<1>5. TypeOK'
  <2>1. size' \in 0..(MaxLen + 1)
    BY <1>4, TransferAssumption DEF IInv, TypeOK
  <2>. QED BY <1>1, <2>1 DEF IInv, TypeOK
<1>6. SentInPlace' /\ SentAccounts'
  BY <1>1, <1>3 DEF IInv, SenderInv, SentInPlace, SentAccounts
<1>7. SentCounts'
  BY <1>1, <1>3, <1>4 DEF IInv, SenderInv, SentCounts
<1>8. ReceiverInv'
  BY <1>1, <1>3, ReceiverFrame
<1>. QED BY <1>5, <1>6, <1>7, <1>8 DEF IInv, SenderInv

LEMMA ShrinkStep == IInv /\ Shrink => IInv'
<1> SUFFICES ASSUME IInv, Shrink PROVE IInv'
  OBVIOUS
<1>0. Scalars
  BY Facts
<1>1. /\ size' = size - 1 /\ size > snd.pos /\ faults' = faults \cup {"shrunk"}
      /\ UNCHANGED <<len, snd, rcv, stream, link, stored, taken, followed>>
  BY DEF Shrink, Fault
<1>2. size <= len + 1 /\ (size <= len \/ "grown" \in faults)
  BY DEF IInv, SenderInv, SentCounts
<1>3. /\ \A i : ByteAt(i)' = ByteAt(i)
      /\ Sent' = Sent /\ ReceiverLost' = ReceiverLost /\ Big' = Big /\ Countable' = Countable
      /\ Unsent' = Unsent
  BY <1>1 DEF ByteAt, Sent, Big, ReceiverLost, Countable, Unsent
<1>4. size' \in Nat /\ snd.pos <= size' /\ size' <= len + 1 /\ (size' <= len \/ "grown" \in faults)
  BY <1>1, <1>2, <1>0 DEF Scalars
<1>5. TypeOK'
  <2>1. size' \in 0..(MaxLen + 1)
    BY <1>4, TransferAssumption DEF IInv, TypeOK
  <2>. QED BY <1>1, <2>1 DEF IInv, TypeOK
<1>6. SentInPlace' /\ SentAccounts'
  BY <1>1, <1>3 DEF IInv, SenderInv, SentInPlace, SentAccounts
<1>7. SentCounts'
  BY <1>1, <1>3, <1>4 DEF IInv, SenderInv, SentCounts
<1>8. ReceiverInv'
  BY <1>1, <1>3, ReceiverFrame
<1>. QED BY <1>5, <1>6, <1>7, <1>8 DEF IInv, SenderInv

\* After a reset a beginning of the bytes under way is left.
LEMMA SenderHangsUpStep == IInv /\ SenderHangsUp => IInv'
<1> SUFFICES ASSUME IInv, SenderHangsUp PROVE IInv'
  OBVIOUS
<1>0. Scalars
  BY Facts
<1>1. /\ link = "up" /\ snd' = [snd EXCEPT !.at = "gone"]
      /\ \/ faults' = faults \cup {"eof"} /\ link' = "eof" /\ stream' = stream
         \/ faults' = faults \cup {"reset"} /\ link' = "reset"
            /\ \E k \in 0..Len(stream) : stream' = SubSeq(stream, 1, k)
      /\ UNCHANGED <<len, size, rcv, stored, taken, followed>>
  BY DEF SenderHangsUp, Fault
<1>2. /\ stream' \in Seq(Int \cup {MSG}) /\ Len(stream') \in Nat /\ Len(stream') <= Len(stream)
      /\ \A i \in 1..Len(stream') : i \in 1..Len(stream) /\ stream'[i] = stream[i]
      /\ link' # "reset" => stream' = stream
  <2>1. stream \in Seq(Int \cup {MSG})
    BY Facts
  <2>2. CASE stream' = stream
    BY <2>1, <2>2, <1>0 DEF Scalars
  <2>3. CASE link' = "reset" /\ \E k \in 0..Len(stream) : stream' = SubSeq(stream, 1, k)
    <3>1. PICK k \in 0..Len(stream) : stream' = SubSeq(stream, 1, k)
      BY <2>3
    <3>2. /\ SubSeq(stream, 1, k) \in Seq(Int \cup {MSG}) /\ Len(SubSeq(stream, 1, k)) = k
          /\ \A i \in 1..k : SubSeq(stream, 1, k)[i] = stream[i]
      BY <2>1, FrontPart
    <3>3. k \in Nat /\ k <= Len(stream) /\ \A i \in 1..k : i \in 1..Len(stream)
      BY <1>0 DEF Scalars
    <3>. QED BY <2>3, <3>1, <3>2, <3>3
  <2>. QED BY <1>1, <2>2, <2>3
<1>3. /\ snd' \in [at: {"loop", "send", "done", "gone", "killed"}, pos: Nat, count: Int,
                   n: Nat, buf: Bytes]
      /\ snd'.at = "gone" /\ snd'.pos = snd.pos /\ snd'.buf = snd.buf /\ Unsent' = Unsent
  BY <1>1 DEF IInv, TypeOK, Unsent
<1>4. /\ \A i : ByteAt(i)' = ByteAt(i)
      /\ Sent' = Sent /\ ReceiverLost' = ReceiverLost /\ Big' = Big /\ Countable' = Countable
  BY <1>1, <1>3 DEF ByteAt, Sent, Big, ReceiverLost, Countable
<1>5. TypeOK'
  BY <1>1, <1>2, <1>3 DEF IInv, TypeOK, Bytes
<1>6. SentInPlace'
  BY <1>1, <1>2, <1>3, <1>4 DEF IInv, SenderInv, SentInPlace
<1>7. SentAccounts'
  <2>1. Sent \in Nat
    BY <1>0 DEF Sent, Scalars
  <2>2. taken + Len(stream) + Unsent <= Sent /\ (~ReceiverLost => taken + Len(stream) + Unsent = Sent)
    BY <1>1 DEF IInv, SenderInv, SentAccounts
  <2>3. taken + Len(stream') + Unsent <= Sent
    BY <1>2, <2>1, <2>2, <1>0 DEF Scalars
  <2>4. link' # "reset" /\ ~ReceiverLost => taken + Len(stream') + Unsent = Sent
    BY <1>2, <2>2
  <2>. QED BY <1>1, <1>3, <1>4, <2>3, <2>4 DEF IInv, SenderInv, SentAccounts
<1>8. SentCounts'
  BY <1>1, <1>3, <1>4 DEF IInv, SenderInv, SentCounts
<1>9. ReceiverInv'
  BY <1>1, <1>4, ReceiverFrame
<1>. QED BY <1>5, <1>6, <1>7, <1>8, <1>9 DEF IInv, SenderInv

-------------------------------------------------------------------------------
(* The receiver's steps *)

\* The first n bytes under way are taken: nothing changes for the sender.
LEMMA TakesSender ==
  ASSUME IInv, NEW n \in 0..Len(stream), stream' = Drop(stream, n), taken' = taken + n,
         UNCHANGED <<len, size, snd, link, followed, faults>>, ReceiverLost => ReceiverLost'
  PROVE  /\ SenderInv' /\ stream' \in Bytes /\ taken' \in Nat /\ taken <= taken'
         /\ \A i : ByteAt(i)' = ByteAt(i)
<1>0. Scalars /\ n \in Nat /\ n <= Len(stream)
  BY Facts DEF Scalars
<1>1. /\ stream' \in Seq(Int \cup {MSG}) /\ Len(stream') = Len(stream) - n
      /\ \A i \in 1..(Len(stream) - n) : stream'[i] = stream[n + i]
  <2>1. stream \in Seq(Int \cup {MSG})
    BY Facts
  <2>. QED BY <2>1, RearPart
<1>2. /\ \A i : ByteAt(i)' = ByteAt(i)
      /\ Sent' = Sent /\ Big' = Big /\ Countable' = Countable /\ Unsent' = Unsent
  BY DEF ByteAt, Sent, Big, Countable, Unsent
<1>3. SentInPlace'
  <2>1. ASSUME NEW i \in 1..Len(stream') PROVE stream'[i] = ByteAt(taken' + i)
    <3>1. i \in 1..(Len(stream) - n) /\ n + i \in 1..Len(stream) /\ taken + (n + i) = taken' + i
      BY <1>0, <1>1 DEF Scalars
    <3>2. stream[n + i] = ByteAt(taken + (n + i))
      BY <3>1 DEF IInv, SenderInv, SentInPlace
    <3>. QED BY <1>1, <3>1, <3>2
  <2>. QED BY <1>2, <2>1 DEF IInv, SenderInv, SentInPlace
<1>4. SentAccounts'
  <2>1. taken' + Len(stream') + Unsent = taken + Len(stream) + Unsent
    BY <1>0, <1>1 DEF Scalars
  <2>. QED BY <1>2, <2>1 DEF IInv, SenderInv, SentAccounts
<1>5. SentCounts'
  BY <1>2 DEF IInv, SenderInv, SentCounts
<1>. QED BY <1>0, <1>1, <1>2, <1>3, <1>4, <1>5 DEF SenderInv, Bytes, Scalars

\* They are in the receiver's buffer then.
LEMMA TakesReceiver ==
  ASSUME IInv, NEW n \in 0..Len(stream), taken' = taken + n,
         rcv.at = "loop", rcv.count < len,
         rcv'.at = "write", rcv'.count = rcv.count, rcv'.buf = SubSeq(stream, 1, n),
         ~Big => n <= len - rcv.count, Big => n <= Block,
         UNCHANGED <<len, stored, faults>>, \A i : ByteAt(i)' = ByteAt(i)
  PROVE  ReceiverInv' /\ rcv'.buf \in Bytes
<1>0. Scalars /\ n \in Nat /\ n <= Len(stream)
  BY Facts DEF Scalars
<1>1. /\ rcv'.buf \in Seq(Int \cup {MSG}) /\ Unwritten' = n
      /\ \A i \in 1..n : rcv'.buf[i] = stream[i]
  <2>1. stream \in Seq(Int \cup {MSG})
    BY Facts
  <2>2. /\ SubSeq(stream, 1, n) \in Seq(Int \cup {MSG}) /\ Len(SubSeq(stream, 1, n)) = n
        /\ \A i \in 1..n : SubSeq(stream, 1, n)[i] = stream[i]
    BY <2>1, FrontPart
  <2>. QED BY <2>2 DEF Unwritten
<1>2. Big' = Big /\ Countable' = Countable /\ Unspoilt' = Unspoilt
  BY DEF Big, Countable, Unspoilt
<1>3. Unwritten = 0
  BY EmptySeq DEF IInv, ReceiverInv, StoredAccounts, Unwritten
<1>4. StoredInPlace'
  <2>1. ASSUME NEW i \in 1..n PROVE rcv'.buf[i] = ByteAt(taken' - n + i)
    <3>1. i \in 1..Len(stream) /\ taken' - n + i = taken + i
      BY <1>0 DEF Scalars
    <3>2. stream[i] = ByteAt(taken + i)
      BY <3>1 DEF IInv, SenderInv, SentInPlace
    <3>. QED BY <1>1, <3>1, <3>2
  <2>2. ASSUME Unspoilt, NEW i \in 1..Len(stored) PROVE stored[i] = ByteAt(i)
    BY <2>2 DEF IInv, ReceiverInv, StoredInPlace
  <2>. QED BY <1>1, <1>2, <2>1, <2>2 DEF StoredInPlace
<1>5. StoredAccounts'
  <2>1. Len(stored) <= taken /\ (Unspoilt => Len(stored) = taken)
    BY <1>0, <1>3 DEF IInv, ReceiverInv, StoredAccounts, Scalars
  <2>2. Len(stored) + n <= taken' /\ (Unspoilt => Len(stored) + n = taken')
    <3>1. Len(stored) \in Nat /\ taken \in Nat /\ n \in Nat
      BY <1>0 DEF Scalars
    <3>2. Len(stored) + n <= taken + n
      BY <2>1, <3>1
    <3>. QED BY <2>1, <3>2
  <2>. QED BY <1>1, <1>2, <2>2 DEF StoredAccounts
<1>6. StoredCounts'
  BY <1>1, <1>2 DEF IInv, ReceiverInv, StoredCounts
<1>. QED BY <1>1, <1>4, <1>5, <1>6 DEF ReceiverInv, Bytes

LEMMA RecvSmallStep == IInv /\ RecvSmall => IInv'
<1> SUFFICES ASSUME IInv, RecvSmall PROVE IInv'
  OBVIOUS
<1>0. Scalars
  BY Facts
<1>. DEFINE n == Least(Wanted, Len(stream))
<1>1. /\ rcv.at = "loop" /\ ~Big /\ rcv.count < len
      /\ rcv' = IF n < Wanted /\ link = "reset" THEN [rcv EXCEPT !.at = "done"]
                ELSE [rcv EXCEPT !.at = "write", !.want = Wanted, !.buf = SubSeq(stream, 1, n)]
      /\ stream' = Drop(stream, n) /\ taken' = taken + n
      /\ UNCHANGED <<len, size, snd, link, stored, followed, faults>>
  BY DEF RecvSmall
<1>2. Wanted \in Nat /\ Wanted <= len - rcv.count
  <2>. DEFINE d == len - rcv.count
  <2>1. d \in Nat /\ Chunk \in Nat
    <3>1. len \in Nat /\ rcv.count \in Int /\ Chunk \in Nat
      BY <1>0 DEF Scalars
    <3>2. rcv.count < len
      BY <1>1
    <3>. QED BY <3>1, <3>2
  <2>2. Wanted = IF d < Chunk THEN d ELSE Chunk
    BY DEF Wanted
  <2>. HIDE DEF d
  <2>3. Wanted \in Nat /\ Wanted <= d
    BY <2>1, <2>2
  <2>. QED BY <2>3 DEF d
<1>3. n \in 0..Len(stream) /\ n <= len - rcv.count
  BY <1>0, <1>2 DEF Least, Scalars
<1>. HIDE DEF n
<1>4. ~ReceiverLost
  BY <1>1 DEF ReceiverLost
<1>5. /\ SenderInv' /\ stream' \in Bytes /\ taken' \in Nat /\ taken <= taken'
      /\ \A i : ByteAt(i)' = ByteAt(i)
  BY <1>1, <1>3, <1>4, TakesSender
<1>6. CASE n < Wanted /\ link = "reset"
  <2>1. /\ rcv' \in [at: {"loop", "write", "done", "gone", "exited"}, count: Int, want: Nat,
                     buf: Bytes]
        /\ rcv'.at = "done" /\ rcv'.buf = rcv.buf /\ Unwritten' = Unwritten
    BY <1>1, <1>6 DEF IInv, TypeOK, Unwritten
  <2>2. TypeOK'
    BY <1>1, <1>5, <2>1 DEF IInv, TypeOK
  <2>3. "reset" \in faults
    BY <1>6 DEF IInv, SenderInv, SentAccounts
  <2>4. Big' = Big /\ Countable' = Countable /\ Unspoilt' = Unspoilt
    BY <1>1 DEF Big, Countable, Unspoilt
  <2>5. StoredInPlace'
    BY <1>1, <1>5, <2>1, <2>4 DEF IInv, ReceiverInv, StoredInPlace
  <2>6. StoredAccounts'
    <3>1. Len(stored) + Unwritten <= taken /\ rcv.buf = <<>>
      BY <1>1 DEF IInv, ReceiverInv, StoredAccounts
    <3>2. Len(stored) + Unwritten <= taken'
      BY <1>0, <1>5, <3>1 DEF Scalars
    <3>. QED BY <1>1, <2>1, <2>3, <2>4, <3>1, <3>2 DEF StoredAccounts
  <2>7. StoredCounts'
    BY <1>1, <2>1, <2>3, <2>4 DEF IInv, ReceiverInv, StoredCounts
  <2>. QED BY <1>5, <2>2, <2>5, <2>6, <2>7 DEF IInv, ReceiverInv
<1>7. CASE ~ (n < Wanted /\ link = "reset")
  <2>1. /\ rcv' = [rcv EXCEPT !.at = "write", !.want = Wanted, !.buf = SubSeq(stream, 1, n)]
        /\ rcv'.at = "write" /\ rcv'.count = rcv.count /\ rcv'.buf = SubSeq(stream, 1, n)
    BY <1>1, <1>7 DEF IInv, TypeOK
  <2>2. ReceiverInv' /\ rcv'.buf \in Bytes
    BY <1>1, <1>3, <1>5, <2>1, TakesReceiver
  <2>3. TypeOK'
    <3>1. rcv' \in [at: {"loop", "write", "done", "gone", "exited"}, count: Int, want: Nat,
                    buf: Bytes]
      BY <1>2, <2>1, <2>2 DEF IInv, TypeOK
    <3>. QED BY <1>1, <1>5, <3>1 DEF IInv, TypeOK
  <2>. QED BY <1>5, <2>2, <2>3 DEF IInv
<1>. QED BY <1>6, <1>7

LEMMA RecvSpliceStep == IInv /\ RecvSplice => IInv'
<1> SUFFICES ASSUME IInv, RecvSplice PROVE IInv'
  OBVIOUS
<1>0. Scalars
  BY Facts
<1>. DEFINE n == Least(Block, Len(stream))
<1>1. /\ rcv.at = "loop" /\ Big /\ rcv.count < len
      /\ rcv' = IF n = 0 /\ link = "reset" THEN [rcv EXCEPT !.at = "exited"]
                ELSE [rcv EXCEPT !.at = "write", !.want = n, !.buf = SubSeq(stream, 1, n)]
      /\ stream' = Drop(stream, n) /\ taken' = taken + n
      /\ UNCHANGED <<len, size, snd, link, stored, followed, faults>>
  BY DEF RecvSplice
<1>3. n \in 0..Len(stream) /\ n \in Nat /\ n <= Block
  BY <1>0 DEF Least, Scalars
<1>. HIDE DEF n
<1>4. ~ReceiverLost
  BY <1>1 DEF ReceiverLost
<1>5. /\ SenderInv' /\ stream' \in Bytes /\ taken' \in Nat /\ taken <= taken'
      /\ \A i : ByteAt(i)' = ByteAt(i)
  BY <1>1, <1>3, <1>4, TakesSender
<1>6. CASE n = 0 /\ link = "reset"
  <2>1. /\ rcv' \in [at: {"loop", "write", "done", "gone", "exited"}, count: Int, want: Nat,
                     buf: Bytes]
        /\ rcv'.at = "exited" /\ rcv'.buf = rcv.buf /\ Unwritten' = Unwritten
    BY <1>1, <1>6 DEF IInv, TypeOK, Unwritten
  <2>2. TypeOK'
    BY <1>1, <1>5, <2>1 DEF IInv, TypeOK
  <2>3. Big' = Big /\ Countable' = Countable /\ Unspoilt' = Unspoilt /\ "reset" \in faults
    BY <1>1, <1>6 DEF Big, Countable, Unspoilt, IInv, SenderInv, SentAccounts
  <2>4. StoredInPlace'
    BY <1>1, <1>5, <2>1, <2>3 DEF IInv, ReceiverInv, StoredInPlace
  <2>5. StoredAccounts'
    <3>1. Len(stored) + Unwritten <= taken
      BY <1>1 DEF IInv, ReceiverInv, StoredAccounts
    <3>2. Len(stored) + Unwritten <= taken'
      BY <1>0, <1>5, <3>1 DEF Scalars
    <3>. QED BY <1>1, <2>1, <2>3, <3>1, <3>2 DEF StoredAccounts
  <2>6. StoredCounts'
    BY <1>1, <2>1, <2>3 DEF IInv, ReceiverInv, StoredCounts
  <2>. QED BY <1>5, <2>2, <2>4, <2>5, <2>6 DEF IInv, ReceiverInv
<1>7. CASE ~ (n = 0 /\ link = "reset")
  <2>1. /\ rcv' = [rcv EXCEPT !.at = "write", !.want = n, !.buf = SubSeq(stream, 1, n)]
        /\ rcv'.at = "write" /\ rcv'.count = rcv.count /\ rcv'.buf = SubSeq(stream, 1, n)
    BY <1>1, <1>7 DEF IInv, TypeOK
  <2>2. ReceiverInv' /\ rcv'.buf \in Bytes
    BY <1>1, <1>3, <1>5, <2>1, TakesReceiver
  <2>3. TypeOK'
    <3>1. rcv' \in [at: {"loop", "write", "done", "gone", "exited"}, count: Int, want: Nat,
                    buf: Bytes]
      BY <1>3, <2>1, <2>2 DEF IInv, TypeOK
    <3>. QED BY <1>1, <1>5, <3>1 DEF IInv, TypeOK
  <2>. QED BY <1>5, <2>2, <2>3 DEF IInv
<1>. QED BY <1>6, <1>7

\* A write of the first k bytes of the buffer, with the result ret.
LEMMA WriteStores ==
  ASSUME IInv, NEW k \in 0..Unwritten, NEW ret \in Int, Write(k, ret), rcv.at = "write"
  PROVE  /\ stored' \in Seq(Int \cup {MSG}) /\ Len(stored') = Len(stored) + k
         /\ \A i \in 1..Len(stored) : stored'[i] = stored[i]
         /\ \A i \in 1..(Len(stored) + k) : i > Len(stored) => stored'[i] = rcv.buf[i - Len(stored)]
         /\ rcv' \in [at: {"loop", "write", "done", "gone", "exited"}, count: Int, want: Nat,
                      buf: Bytes]
         /\ rcv'.at = "loop" /\ rcv'.buf = <<>> /\ Unwritten' = 0
         /\ ~Big \/ rcv.count + ret <= IntMax => rcv'.count = rcv.count + ret
<1>0. Scalars
  BY Facts
<1>. DEFINE u == rcv.buf
            front == SubSeq(u, 1, k)
<1>1. u \in Seq(Int \cup {MSG}) /\ k \in 0..Len(u) /\ stored \in Seq(Int \cup {MSG})
  BY Facts DEF Unwritten
<1>2. /\ stored' = stored \o front
      /\ \E c \in Counted(rcv.count, ret) :
           rcv' = [rcv EXCEPT !.at = "loop", !.count = c, !.buf = <<>>]
  BY DEF Write
<1>. HIDE DEF u
<1>3. /\ front \in Seq(Int \cup {MSG}) /\ Len(front) = k /\ \A i \in 1..k : front[i] = u[i]
  BY <1>1, FrontPart
<1>. HIDE DEF front
<1>4. /\ stored \o front \in Seq(Int \cup {MSG}) /\ Len(stored \o front) = Len(stored) + Len(front)
      /\ \A i \in 1..Len(stored) : (stored \o front)[i] = stored[i]
      /\ \A i \in 1..(Len(stored) + Len(front)) :
           i > Len(stored) => (stored \o front)[i] = front[i - Len(stored)]
  BY <1>1, <1>3, Joined
<1>5. \A i \in 1..(Len(stored) + k) : i > Len(stored) => i - Len(stored) \in 1..k
  BY <1>0 DEF Scalars
<1>6. PICK c \in Counted(rcv.count, ret) :
        rcv' = [rcv EXCEPT !.at = "loop", !.count = c, !.buf = <<>>]
  BY <1>2
<1>7. c \in Int /\ (~Big \/ rcv.count + ret <= IntMax => c = rcv.count + ret)
  BY <1>0, CountedExact DEF Scalars
<1>8. /\ rcv' \in [at: {"loop", "write", "done", "gone", "exited"}, count: Int, want: Nat,
                   buf: Bytes]
      /\ rcv'.at = "loop" /\ rcv'.count = c /\ rcv'.buf = <<>> /\ Unwritten' = 0
  <2>1. <<>> \in Bytes /\ Len(<<>>) = 0
    BY EmptySeq DEF Bytes
  <2>. QED BY <1>6, <1>7, <2>1 DEF IInv, TypeOK, Unwritten
<1>9. /\ stored' \in Seq(Int \cup {MSG}) /\ Len(stored') = Len(stored) + k
      /\ \A i \in 1..Len(stored) : stored'[i] = stored[i]
      /\ \A i \in 1..(Len(stored) + k) : i > Len(stored) => stored'[i] = u[i - Len(stored)]
  BY <1>2, <1>3, <1>4, <1>5
<1>. QED BY <1>7, <1>8, <1>9 DEF u

LEMMA RecvWriteStep == IInv /\ RecvWrite => IInv'
<1> SUFFICES ASSUME IInv, RecvWrite PROVE IInv'
  OBVIOUS
<1>0. Scalars
  BY Facts
<1>1. /\ rcv.at = "write" /\ Write(Unwritten, Unwritten)
      /\ UNCHANGED <<len, size, snd, stream, link, taken, followed, faults>>
  BY DEF RecvWrite, Unwritten
<1>2. Unwritten \in 0..Unwritten /\ Unwritten \in Int
  BY <1>0 DEF Scalars
<1>3. /\ stored' \in Seq(Int \cup {MSG}) /\ Len(stored') = Len(stored) + Unwritten
      /\ \A i \in 1..Len(stored) : stored'[i] = stored[i]
      /\ \A i \in 1..(Len(stored) + Unwritten) :
           i > Len(stored) => stored'[i] = rcv.buf[i - Len(stored)]
      /\ rcv' \in [at: {"loop", "write", "done", "gone", "exited"}, count: Int, want: Nat,
                   buf: Bytes]
      /\ rcv'.at = "loop" /\ rcv'.buf = <<>> /\ Unwritten' = 0
      /\ ~Big \/ rcv.count + Unwritten <= IntMax => rcv'.count = rcv.count + Unwritten
  BY <1>1, <1>2, WriteStores
<1>4. Big' = Big /\ Countable' = Countable /\ Unspoilt' = Unspoilt /\ \A i : ByteAt(i)' = ByteAt(i)
  BY <1>1 DEF Big, Countable, Unspoilt, ByteAt
<1>5. Len(stored) + Unwritten <= taken /\ (Unspoilt => Len(stored) + Unwritten = taken)
  BY <1>1 DEF IInv, ReceiverInv, StoredAccounts
<1>6. TypeOK'
  BY <1>1, <1>3 DEF IInv, TypeOK, Bytes
<1>7. SenderInv'
  <2>1. ReceiverLost => ReceiverLost'
    BY <1>1 DEF ReceiverLost
  <2>. QED BY <1>1, <2>1, SenderFrame DEF IInv
<1>8. StoredInPlace'
  <2>1. ASSUME Unspoilt, NEW i \in 1..Len(stored') PROVE stored'[i] = ByteAt(i)
    <3>1. CASE i <= Len(stored)
      <4>1. i \in 1..Len(stored)
        BY <3>1, <1>0, <1>3 DEF Scalars
      <4>. QED BY <2>1, <4>1, <1>3 DEF IInv, ReceiverInv, StoredInPlace
    <3>2. CASE ~ (i <= Len(stored))
      <4>. DEFINE j == i - Len(stored)
      <4>1. i \in 1..(Len(stored) + Unwritten) /\ i > Len(stored) /\ j \in 1..Unwritten
        BY <3>2, <1>0, <1>3 DEF Scalars
      <4>2. taken - Unwritten + j = i
        <5>1. Len(stored) \in Nat /\ Unwritten \in Nat /\ taken \in Nat /\ i \in Int
          BY <4>1, <1>0 DEF Scalars
        <5>2. Len(stored) + Unwritten = taken
          BY <2>1, <1>5
        <5>. QED BY <5>1, <5>2
      <4>3. stored'[i] = rcv.buf[j]
        BY <1>3, <4>1
      <4>. HIDE DEF j
      <4>4. rcv.buf[j] = ByteAt(taken - Unwritten + j)
        BY <1>1, <4>1 DEF IInv, ReceiverInv, StoredInPlace
      <4>. QED BY <4>2, <4>3, <4>4
    <3>. QED BY <3>1, <3>2
  <2>. QED BY <1>3, <1>4, <2>1 DEF StoredInPlace
<1>9. StoredAccounts'
  <2>1. Len(stored') + Unwritten' <= taken' /\ (Unspoilt => Len(stored') + Unwritten' = taken')
    BY <1>0, <1>1, <1>3, <1>5 DEF Scalars
  <2>. QED BY <1>3, <1>4, <2>1 DEF StoredAccounts
<1>10. StoredCounts'
  <2>1. ASSUME Countable, Unspoilt
        PROVE  /\ rcv'.count = Len(stored')
               /\ ~Big => Len(stored') <= len
               /\ Big => Len(stored') < len + Block
    <3>1. rcv.count = Len(stored)
      BY <1>1, <2>1 DEF IInv, ReceiverInv, StoredCounts
    <3>2. CASE ~Big
      <4>1. Unwritten <= len - rcv.count
        BY <1>1, <3>2 DEF IInv, ReceiverInv, StoredCounts
      <4>. QED BY <1>0, <1>3, <3>1, <3>2, <4>1 DEF Scalars
    <3>3. CASE Big
      <4>1. rcv.count < len /\ Unwritten <= Block /\ len + Block - 1 <= IntMax
        BY <1>1, <2>1, <3>3 DEF IInv, ReceiverInv, StoredCounts, Countable
      <4>2. rcv.count + Unwritten <= IntMax
        BY <1>0, <4>1 DEF Scalars
      <4>. QED BY <1>0, <1>3, <3>1, <3>3, <4>1, <4>2 DEF Scalars
    <3>. QED BY <3>2, <3>3
  <2>. QED BY <1>1, <1>3, <1>4, <2>1 DEF StoredCounts
<1>. QED BY <1>6, <1>7, <1>8, <1>9, <1>10 DEF IInv, ReceiverInv

LEMMA RecvEndStep == IInv /\ RecvEnd => IInv'
<1> SUFFICES ASSUME IInv, RecvEnd PROVE IInv'
  OBVIOUS
<1>1. /\ rcv.at = "loop" /\ rcv.count >= len /\ rcv' = [rcv EXCEPT !.at = "done"]
      /\ UNCHANGED <<len, size, snd, stream, link, stored, taken, followed, faults>>
  BY DEF RecvEnd
<1>2. /\ rcv' \in [at: {"loop", "write", "done", "gone", "exited"}, count: Int, want: Nat,
                   buf: Bytes]
      /\ rcv'.at = "done" /\ rcv'.count = rcv.count /\ rcv'.buf = rcv.buf /\ Unwritten' = Unwritten
  BY <1>1 DEF IInv, TypeOK, Unwritten
<1>3. Big' = Big /\ Countable' = Countable /\ Unspoilt' = Unspoilt /\ \A i : ByteAt(i)' = ByteAt(i)
  BY <1>1 DEF Big, Countable, Unspoilt, ByteAt
<1>4. TypeOK'
  BY <1>1, <1>2 DEF IInv, TypeOK
<1>5. SenderInv'
  <2>1. ReceiverLost => ReceiverLost'
    BY <1>1 DEF ReceiverLost
  <2>. QED BY <1>1, <2>1, SenderFrame DEF IInv
<1>6. StoredInPlace'
  BY <1>1, <1>2, <1>3 DEF IInv, ReceiverInv, StoredInPlace
<1>7. StoredAccounts'
  BY <1>1, <1>2, <1>3 DEF IInv, ReceiverInv, StoredAccounts
<1>8. StoredCounts'
  BY <1>1, <1>2, <1>3 DEF IInv, ReceiverInv, StoredCounts
<1>. QED BY <1>4, <1>5, <1>6, <1>7, <1>8 DEF IInv, ReceiverInv

\* A short file's receiver goes on after the fault, a long one's process ends.
LEMMA DiskFullStep == IInv /\ DiskFull => IInv'
<1> SUFFICES ASSUME IInv, DiskFull PROVE IInv'
  OBVIOUS
<1>0. Scalars
  BY Facts
<1>1. /\ rcv.at = "write" /\ faults' = faults \cup {"full"}
      /\ \/ Big /\ rcv' = [rcv EXCEPT !.at = "exited"] /\ stored' = stored
         \/ ~Big /\ Write(0, -1)
         \/ ~Big /\ \E k \in 1..(Unwritten - 1) : Write(k, k)
      /\ UNCHANGED <<len, size, snd, stream, link, taken, followed>>
  BY DEF DiskFull, Fault, Unwritten
<1>2. Big' = Big /\ Countable' = Countable /\ \A i : ByteAt(i)' = ByteAt(i)
  BY <1>1 DEF Big, Countable, ByteAt
<1>3. SenderInv'
  <2>1. ReceiverLost => ReceiverLost'
    BY <1>1 DEF ReceiverLost
  <2>. QED BY <1>1, <2>1, SenderFrame DEF IInv
<1>4. CASE Big /\ rcv' = [rcv EXCEPT !.at = "exited"] /\ stored' = stored
  <2>1. /\ rcv' \in [at: {"loop", "write", "done", "gone", "exited"}, count: Int, want: Nat,
                     buf: Bytes]
        /\ rcv'.at = "exited" /\ rcv'.buf = rcv.buf /\ Unwritten' = Unwritten
    BY <1>4 DEF IInv, TypeOK, Unwritten
  <2>2. TypeOK'
    BY <1>1, <1>4, <2>1 DEF IInv, TypeOK
  <2>3. Unspoilt /\ Unspoilt'
    BY <1>2, <1>4 DEF Unspoilt
  <2>4. StoredInPlace'
    BY <1>2, <1>4, <2>1, <2>3 DEF IInv, ReceiverInv, StoredInPlace
  <2>5. StoredAccounts'
    BY <1>1, <1>4, <2>1, <2>3 DEF IInv, ReceiverInv, StoredAccounts
  <2>6. StoredCounts'
    BY <1>1, <1>2, <1>4, <2>1, <2>3 DEF IInv, ReceiverInv, StoredCounts
  <2>. QED BY <1>3, <2>2, <2>4, <2>5, <2>6 DEF IInv, ReceiverInv
<1>5. CASE ~Big /\ (Write(0, -1) \/ \E k \in 1..(Unwritten - 1) : Write(k, k))
  <2>1. PICK k \in 0..Unwritten, ret \in Int : Write(k, ret)
    <3>1. CASE Write(0, -1)
      <4>1. 0 \in 0..Unwritten /\ -1 \in Int
        BY <1>0 DEF Scalars
      <4>. QED BY <3>1, <4>1
    <3>2. CASE \E k \in 1..(Unwritten - 1) : Write(k, k)
      <4>1. \A k \in 1..(Unwritten - 1) : k \in 0..Unwritten /\ k \in Int
        BY <1>0 DEF Scalars
      <4>. QED BY <3>2, <4>1
    <3>. QED BY <1>5, <3>1, <3>2
  <2>2. /\ stored' \in Seq(Int \cup {MSG}) /\ Len(stored') = Len(stored) + k
        /\ rcv' \in [at: {"loop", "write", "done", "gone", "exited"}, count: Int, want: Nat,
                     buf: Bytes]
        /\ rcv'.at = "loop" /\ rcv'.buf = <<>> /\ Unwritten' = 0
    BY <1>1, <2>1, WriteStores
  <2>3. TypeOK'
    BY <1>1, <2>2 DEF IInv, TypeOK, Bytes
  <2>4. ~Unspoilt'
    BY <1>1, <1>2, <1>5 DEF Unspoilt
  <2>5. StoredInPlace'
    BY <2>2, <2>4 DEF StoredInPlace
  <2>6. StoredAccounts'
    <3>1. Len(stored) + Unwritten <= taken
      BY DEF IInv, ReceiverInv, StoredAccounts
    <3>2. Len(stored') + Unwritten' <= taken'
      <4>1. Len(stored) \in Nat /\ Unwritten \in Nat /\ taken \in Nat
        BY <1>0 DEF Scalars
      <4>2. Len(stored) + k + 0 <= taken
        BY <2>1, <3>1, <4>1
      <4>. QED BY <1>1, <2>2, <4>2
    <3>. QED BY <2>2, <2>4, <3>2 DEF StoredAccounts
  <2>7. StoredCounts'
    BY <2>2, <2>4 DEF StoredCounts
  <2>. QED BY <1>3, <2>3, <2>5, <2>6, <2>7 DEF IInv, ReceiverInv
<1>. QED BY <1>1, <1>4, <1>5

LEMMA ReceiverHangsUpStep == IInv /\ ReceiverHangsUp => IInv'
<1> SUFFICES ASSUME IInv, ReceiverHangsUp PROVE IInv'
  OBVIOUS
<1>1. /\ rcv' = [rcv EXCEPT !.at = "gone"] /\ faults' = faults \cup {"left"} /\ ~ReceiverLost
      /\ UNCHANGED <<len, size, snd, stream, link, stored, taken, followed>>
  BY DEF ReceiverHangsUp, Fault
<1>2. /\ rcv' \in [at: {"loop", "write", "done", "gone", "exited"}, count: Int, want: Nat,
                   buf: Bytes]
      /\ rcv'.at = "gone" /\ rcv'.buf = rcv.buf /\ Unwritten' = Unwritten
  BY <1>1 DEF IInv, TypeOK, Unwritten
<1>3. /\ Big' = Big /\ Countable' = Countable /\ Unspoilt' = Unspoilt
      /\ \A i : ByteAt(i)' = ByteAt(i)
  BY <1>1 DEF Big, Countable, Unspoilt, ByteAt
<1>4. TypeOK'
  BY <1>1, <1>2 DEF IInv, TypeOK
<1>5. SenderInv'
  BY <1>1, SenderFrame DEF IInv
<1>6. StoredInPlace'
  BY <1>1, <1>2, <1>3 DEF IInv, ReceiverInv, StoredInPlace
<1>7. StoredAccounts'
  BY <1>1, <1>2, <1>3 DEF IInv, ReceiverInv, StoredAccounts
<1>8. StoredCounts'
  BY <1>1, <1>2, <1>3 DEF IInv, ReceiverInv, StoredCounts
<1>. QED BY <1>4, <1>5, <1>6, <1>7, <1>8 DEF IInv, ReceiverInv

LEMMA Stutter == IInv /\ UNCHANGED vars => IInv'
<1> SUFFICES ASSUME IInv, UNCHANGED vars PROVE IInv'
  OBVIOUS
<1>1. TypeOK' /\ SenderInv'
  BY SenderFrame DEF vars, IInv, TypeOK, ReceiverLost
<1>2. ReceiverInv'
  BY ReceiverFrame DEF vars, ByteAt
<1>. QED BY <1>1, <1>2 DEF IInv

-------------------------------------------------------------------------------
(* The theorems *)

\* The counts of both loops are the bytes read and written, and every byte between the
\* two files is at its place, whatever faults there are.
THEOREM Invariance == Spec => []IInv
<1>1. IInv /\ [Next]_vars => IInv'
  BY SendReadStep, SendSomeStep, SendBrokenStep, SendEndStep, FollowStep, RecvSmallStep,
     RecvSpliceStep, RecvWriteStep, RecvEndStep, GrowStep, ShrinkStep, DiskFullStep,
     SenderHangsUpStep, ReceiverHangsUpStep, Stutter
     DEF Next, SenderStep, ReceiverStep, Faults, Rest
<1>. QED BY <1>1, InitIInv, PTL DEF Spec

\* A short file's receiver stores bytes of the file only, without a gap, unless a write
\* failed or the file shrank; behind a long file it stores less than a block of what follows.
THEOREM StoresTheFile == Spec => []StoredInv
<1>1. IInv => StoredInv
  BY PrefixHolds, OvershootHolds DEF IInv, StoredInv
<1>. QED BY <1>1, Invariance, PTL

\* recvfile that returns after no other fault than a growing file or an orderly hang-up
\* has stored the file from its first byte to its last.
THEOREM WholeOnReturn == Spec => []ReturnsWhole
  BY ReturnsHolds, Invariance, PTL

\* A file that is not big, without faults, leaves the next message on the stream, whole.
THEOREM NextMessageIsWhole == Spec => []LeavesTheRest
  BY RestHolds, Invariance, PTL

-------------------------------------------------------------------------------
(* The two processes: ProcessInv is inductive. *)

\* The bounds are numbers.
LEMMA ProcessBounds ==
  NumWorkers \in Nat \ {0} /\ MaxRequests \in Nat /\ MaxSignals \in Nat /\ MaxCrashes \in Nat
  BY ProcessesAssumption


\* Nothing is queued, and no signal has come.
LEMMA ProcessesInit == ServerInit => ProcessInv
<1> SUFFICES ASSUME ServerInit PROVE ProcessInv
  OBVIOUS
<1>. USE ProcessBounds DEF ServerInit, ParentGone, ChildGone
<1>1. ServerTypeOK
  <2>1. listening \in BOOLEAN /\ asleep \in BOOLEAN
    BY Zenon
  <2>. QED BY <2>1 DEF ServerTypeOK
<1>2. ExitsInOrder
  BY DEF ExitsInOrder
<1>3. Accounts
  BY DEF Accounts
<1>. QED BY <1>1, <1>2, <1>3 DEF ProcessInv

\* No step of the parent, the child, a worker or a client breaks it.
LEMMA ProcessesNext == ProcessInv /\ [ServerNext]_serverVars => ProcessInv'
<1> SUFFICES ASSUME ProcessInv, [ServerNext]_serverVars
             PROVE  ProcessInv'
  OBVIOUS
<1>. USE ProcessBounds DEF ProcessInv, ServerTypeOK, ExitsInOrder, Accounts, ParentGone, ChildGone, tasks, counters
<1>1. CASE InstallHandler
  BY <1>1 DEF InstallHandler
<1>2. CASE WaitReturns
  BY <1>2 DEF WaitReturns
<1>3. CASE Signal
  BY <1>3 DEF Signal
<1>4. CASE Start
  BY <1>4 DEF Start
<1>5. CASE ExitRequest
  BY <1>5 DEF ExitRequest, WriteEnds
<1>6. CASE Broadcast
  BY <1>6 DEF Broadcast
<1>7. CASE Join
  BY <1>7 DEF Join
<1>8. CASE Crash
  BY <1>8 DEF Crash
<1>9. CASE Take
  BY <1>9 DEF Take
<1>10. CASE Finish
  BY <1>10 DEF Finish
<1>11. CASE Lose
  BY <1>11 DEF Lose
<1>12. CASE Message
  BY <1>12 DEF Message
<1>13. CASE PartOfHeader
  BY <1>13 DEF PartOfHeader
<1>14. CASE RestOfHeader
  <2>1. CASE queued' = queued
    BY <2>1, <1>14 DEF RestOfHeader
  <2>2. CASE queued' = queued + 1
    BY <2>2, <1>14 DEF RestOfHeader
  <2>. QED BY <2>1, <2>2, <1>14 DEF RestOfHeader
<1>15. CASE UNCHANGED serverVars
  BY <1>15 DEF serverVars
<1>. QED
  <2>. HIDE DEF ProcessInv
  <2>. QED
    BY <1>1, <1>2, <1>3, <1>4, <1>5, <1>6, <1>7, <1>8, <1>9, <1>10, <1>11, <1>12, <1>13,
       <1>14, <1>15 DEF ServerNext, ParentStep, ChildStep, WorkerStep, Clients

\* The child leaves its loop only on a signal, and an orderly exit leaves no
\* accepted task behind, whenever the signal, the broadcast and a crash come.
THEOREM OrderlyEnd == ServerSpec => []ProcessInv
  BY ProcessesInit, ProcessesNext, PTL DEF ServerSpec

-------------------------------------------------------------------------------
(* The queue of path_handler: QueuesInv is inductive. *)

(* Places in a ring *)

\* Going on by one, in the ring of n places.
LEMMA NextOf ==
  ASSUME NEW n \in Nat \ {0}, NEW x \in 0..(2 * n - 2)
  PROVE  ((x % n) + 1) % n = (x + 1) % n
<1>1. CASE x < n - 1
  <2>1. x % n = x /\ (x + 1) % n = x + 1
    BY <1>1
  <2>. QED BY <2>1
<1>2. CASE x = n - 1
  <2>1. x % n = x /\ (x + 1) % n = 0
    BY <1>2
  <2>. QED BY <2>1
<1>3. CASE x >= n
  <2>1. x % n = x - n
    BY <1>3
  <2>2. (x + 1) % n = x + 1 - n
    BY <1>3
  <2>3. (x - n + 1) % n = x - n + 1
    BY <1>3
  <2>. QED BY <2>1, <2>2, <2>3
<1>. QED BY <1>1, <1>2, <1>3

LEMMA RingPlaces ==
  ASSUME NEW n \in Nat \ {0}, NEW a \in 0..(n - 1)
  PROVE  /\ \A b \in 0..n : (a + b) % n \in 0..(n - 1)
         /\ \A b \in 0..(n - 1) : (((a + 1) % n) + b) % n = (a + (b + 1)) % n
         /\ \A b, c \in 0..(n - 1) : b # c => (a + b) % n # (a + c) % n
         /\ \A b \in 0..(n - 1) : (((a + b) % n) + 1) % n = (a + (b + 1)) % n
<1>1. \A x \in 0..(n - 1) : x % n = x
  OBVIOUS
<1>2. \A x \in n..(2 * n - 1) : x % n = x - n
  OBVIOUS
<1>3. \A b \in 0..n : (a + b) % n \in 0..(n - 1)
  OBVIOUS
<1>4. ASSUME NEW b \in 0..(n - 1) PROVE (((a + 1) % n) + b) % n = (a + (b + 1)) % n
  <2>1. PICK x : x = a + (b + 1)
    OBVIOUS
  <2>2. CASE a + 1 < n
    <3>1. (a + 1) % n = a + 1 /\ a + 1 + b = x
      BY <2>1, <2>2
    <3>. QED BY <2>1, <3>1, Zenon
  <2>3. CASE a + 1 = n
    <3>1. (a + 1) % n = 0 /\ 0 + b = b /\ b % n = b /\ x = n + b
      BY <2>1, <2>3
    <3>2. x % n = b
      BY <3>1
    <3>. QED BY <2>1, <3>1, <3>2, Zenon
  <2>. QED BY <2>2, <2>3
<1>5. ASSUME NEW b \in 0..(n - 1), NEW c \in 0..(n - 1), b < c PROVE (a + b) % n # (a + c) % n
  <2>1. CASE a + c < n
    BY <1>1, <1>5, <2>1
  <2>2. CASE a + b < n /\ a + c >= n
    BY <1>1, <1>2, <1>5, <2>2
  <2>3. CASE a + b >= n
    BY <1>2, <1>5, <2>3
  <2>. QED BY <1>5, <2>1, <2>2, <2>3
<1>6. ASSUME NEW b \in 0..(n - 1) PROVE (((a + b) % n) + 1) % n = (a + (b + 1)) % n
  <2>1. PICK x : x = a + b
    OBVIOUS
  <2>2. x \in 0..(2 * n - 2) /\ a + (b + 1) = x + 1
    BY <2>1
  <2>3. ((x % n) + 1) % n = (x + 1) % n
    BY <2>2, NextOf
  <2>. QED BY <2>1, <2>2, <2>3, Zenon
<1>7. ASSUME NEW b \in 0..(n - 1), NEW c \in 0..(n - 1), b # c PROVE (a + b) % n # (a + c) % n
  BY <1>5, <1>7
<1>. QED BY <1>3, <1>4, <1>6, <1>7

\* A place below the number of places is its own remainder.
LEMMA Small ==
  ASSUME NEW n \in Nat \ {0}, NEW x \in 0..(n - 1)
  PROVE  x % n = x
  OBVIOUS

-------------------------------------------------------------------------------
(* The queue *)

Ring(data, front, rear, count, capacity) ==
  [data |-> data, front |-> front, rear |-> rear, size |-> count, capacity |-> capacity]

\* A ring whose places from front to rear hold the sequence of names h; an empty one
\* has its rear in front of its front, or is new.
RingOf(que, h) ==
  /\ que = Ring(que.data, que.front, que.rear, que.size, que.capacity)
  /\ que.capacity \in Nat \ {0} /\ que.size \in 0..que.capacity
  /\ que.front \in 0..(que.capacity - 1) /\ que.rear \in -1..(que.capacity - 1)
  /\ que.data = [i \in 0..(que.capacity - 1) |-> que.data[i]]
  /\ (que.rear + 1) % que.capacity = (que.front + que.size) % que.capacity
  /\ que.size > 0 => que.rear = (que.front + que.size - 1) % que.capacity
  /\ h = [i \in 1..que.size |-> que.data[(que.front + i - 1) % que.capacity]]

LEMMA ResizeIs ==
  ASSUME NEW que, que = Ring(que.data, que.front, que.rear, que.size, que.capacity)
  PROVE  resize_queue(que) =
           Ring([i \in 0..(2 * que.capacity - 1) |->
                   IF i < que.size THEN que.data[(que.front + i) % que.capacity] ELSE NULL],
                0, que.size - 1, que.size, 2 * que.capacity)
<1>. DEFINE D == [i \in 0..(2 * que.capacity - 1) |->
                   IF i < que.size THEN que.data[(que.front + i) % que.capacity] ELSE NULL]
<1>1. resize_queue(que) = [que EXCEPT !.data = D, !.front = 0, !.rear = que.size - 1,
                                      !.capacity = 2 * que.capacity]
  BY DEF resize_queue
<1>. DEFINE a == Ring(D, que.front, que.rear, que.size, que.capacity)
            b == Ring(D, 0, que.rear, que.size, que.capacity)
            c == Ring(D, 0, que.size - 1, que.size, que.capacity)
<1>. HIDE DEF D
<1>2. [que EXCEPT !.data = D] = a
  BY DEF Ring
<1>3. [a EXCEPT !.front = 0] = b
  BY DEF Ring
<1>4. [b EXCEPT !.rear = que.size - 1] = c
  BY DEF Ring
<1>5. [c EXCEPT !.capacity = 2 * que.capacity] = Ring(D, 0, que.size - 1, que.size, 2 * que.capacity)
  BY DEF Ring
<1>. HIDE DEF a, b, c
<1>. QED BY <1>1, <1>2, <1>3, <1>4, <1>5, Zenon DEF D

LEMMA DequeueIs ==
  ASSUME NEW que, que = Ring(que.data, que.front, que.rear, que.size, que.capacity)
  PROVE  dequeue(que) = Ring(que.data, (que.front + 1) % que.capacity, que.rear, que.size - 1,
                             que.capacity)
<1>. DEFINE f == (que.front + 1) % que.capacity
            a == Ring(que.data, f, que.rear, que.size, que.capacity)
<1>1. dequeue(que) = [que EXCEPT !.front = f, !.size = que.size - 1]
  BY DEF dequeue, Ring
<1>. HIDE DEF f
<1>2. [que EXCEPT !.front = f] = a
  BY DEF Ring
<1>3. [a EXCEPT !.size = que.size - 1] = Ring(que.data, f, que.rear, que.size - 1, que.capacity)
  BY DEF Ring
<1>. HIDE DEF a
<1>. QED BY <1>1, <1>2, <1>3, Zenon DEF f

\* enqueue, once there is room.
LEMMA EnqueueIs ==
  ASSUME NEW que, que = Ring(que.data, que.front, que.rear, que.size, que.capacity),
         NEW item, que.size # que.capacity
  PROVE  LET rear == (que.rear + 1) % que.capacity IN
         enqueue(que, item) = Ring([que.data EXCEPT ![rear] = item], que.front, rear,
                                   que.size + 1, que.capacity)
<1>. DEFINE x == (que.rear + 1) % que.capacity
            D == [que.data EXCEPT ![x] = item]
            a == Ring(que.data, que.front, x, que.size, que.capacity)
            b == Ring(D, que.front, x, que.size, que.capacity)
<1>1. enqueue(que, item) = [que EXCEPT !.rear = x, !.data = D, !.size = que.size + 1]
  BY DEF enqueue, Ring
<1>. HIDE DEF x, D
<1>2. [que EXCEPT !.rear = x] = a
  BY DEF Ring
<1>3. [a EXCEPT !.data = D] = b
  BY DEF Ring
<1>4. [b EXCEPT !.size = que.size + 1] = Ring(D, que.front, x, que.size + 1, que.capacity)
  BY DEF Ring
<1>. HIDE DEF a, b
<1>5. enqueue(que, item) = Ring(D, que.front, x, que.size + 1, que.capacity)
  BY <1>1, <1>2, <1>3, <1>4, Zenon
<1>. QED BY <1>5 DEF D, x

-------------------------------------------------------------------------------
(* The names in a queue *)

LEMMA NamesOps ==
  ASSUME NEW n \in Nat, NEW h, h = [i \in 1..n |-> h[i]]
  PROVE  /\ \A item : Append(h, item) = [i \in 1..(n + 1) |-> IF i = n + 1 THEN item ELSE h[i]]
         /\ n > 0 => Tail(h) = [i \in 1..(n - 1) |-> h[i + 1]]
         /\ Len(h) = n
<1>. DEFINE S == { h[i] : i \in 1..n }
<1>1. \A i \in 1..n : h[i] \in S
  OBVIOUS
<1>2. ASSUME NEW T, \A i \in 1..n : h[i] \in T PROVE h \in Seq(T) /\ Len(h) = n
  BY <1>2
<1>3. ASSUME NEW item
      PROVE  Append(h, item) = [i \in 1..(n + 1) |-> IF i = n + 1 THEN item ELSE h[i]]
  <2>. DEFINE T == S \cup {item}
  <2>1. item \in T /\ \A i \in 1..n : h[i] \in T
    BY <1>1
  <2>. HIDE DEF S, T
  <2>2. h \in Seq(T) /\ Len(h) = n
    BY <1>2, <2>1
  <2>. QED BY <2>1, <2>2
<1>4. ASSUME n > 0 PROVE Tail(h) = [i \in 1..(n - 1) |-> h[i + 1]]
  <2>. HIDE DEF S
  <2>2. h \in Seq(S) /\ Len(h) = n
    BY <1>2, <1>1
  <2>. QED BY <1>4, <2>2
<1>5. Len(h) = n
  <2>. HIDE DEF S
  <2>. QED BY <1>2, <1>1
<1>. QED BY <1>3, <1>4, <1>5

-------------------------------------------------------------------------------
(* What the operations keep *)

LEMMA NewRing == RingOf(init_queue, <<>>)
<1>. DEFINE c == INITIAL_CAPACITY
            D == [i \in 0..(c - 1) |-> NULL]
<1>1. c \in Nat \ {0}
  BY PathResolverAssumption
<1>2. init_queue = Ring(D, 0, -1, 0, c)
  BY DEF init_queue, Ring, Array
<1>. HIDE DEF c, D
<1>3. PICK que : que = init_queue
  OBVIOUS
<1>4. que.data = D /\ que.front = 0 /\ que.rear = -1 /\ que.size = 0 /\ que.capacity = c
  BY <1>2, <1>3 DEF Ring
<1>5. D = [i \in 0..(c - 1) |-> D[i]]
  BY DEF D
<1>6. (-1 + 1) % c = (0 + 0) % c
  BY <1>1
<1>7. <<>> = [i \in 1..0 |-> D[(0 + i - 1) % c]]
  OBVIOUS
<1>8. que = Ring(que.data, que.front, que.rear, que.size, que.capacity)
  BY <1>2, <1>3, <1>4
<1>9. RingOf(que, <<>>)
  BY <1>1, <1>4, <1>5, <1>6, <1>7, <1>8 DEF RingOf
<1>. QED BY <1>3, <1>9

\* A full ring, unrolled into twice the room.
LEMMA GrowRing ==
  ASSUME NEW que, NEW h, RingOf(que, h), que.size = que.capacity
  PROVE  RingOf(resize_queue(que), h) /\ resize_queue(que).size # resize_queue(que).capacity
<1>. DEFINE n == que.capacity
            D == [i \in 0..(2 * n - 1) |-> IF i < n THEN que.data[(que.front + i) % n] ELSE NULL]
<1>1. n \in Nat \ {0} /\ que.size = n /\ que.front \in 0..(n - 1)
      /\ que = Ring(que.data, que.front, que.rear, que.size, n)
      /\ h = [i \in 1..n |-> que.data[(que.front + i - 1) % n]]
  BY DEF RingOf
<1>2. resize_queue(que) = Ring(D, 0, n - 1, n, 2 * n)
  BY <1>1, ResizeIs
<1>3. PICK r : r = resize_queue(que)
  OBVIOUS
<1>. HIDE DEF D
<1>4. r.data = D /\ r.front = 0 /\ r.rear = n - 1 /\ r.size = n /\ r.capacity = 2 * n
  BY <1>2, <1>3 DEF Ring
<1>5. D = [i \in 0..(2 * n - 1) |-> D[i]] /\ \A i \in 0..(n - 1) : D[i] = que.data[(que.front + i) % n]
  BY <1>1 DEF D
<1>6. r = Ring(r.data, r.front, r.rear, r.size, r.capacity)
  BY <1>2, <1>3, <1>4, Zenon
<1>. HIDE DEF n
<1>7. 2 * n \in Nat \ {0} /\ n \in 0..(2 * n) /\ 0 \in 0..(2 * n - 1) /\ n - 1 \in -1..(2 * n - 1) /\ n # 2 * n
  BY <1>1
<1>8. (n - 1 + 1) % (2 * n) = (0 + n) % (2 * n) /\ n - 1 = (0 + n - 1) % (2 * n)
  <2>1. n - 1 + 1 = n /\ 0 + n = n /\ 0 + n - 1 = n - 1
    BY <1>1
  <2>2. (n - 1) % (2 * n) = n - 1
    <3>1. PICK c : c = 2 * n
      OBVIOUS
    <3>2. c \in Nat \ {0} /\ n - 1 \in 0..(c - 1)
      BY <1>1, <3>1
    <3>. QED BY <3>1, <3>2, Small
  <2>. QED BY <2>1, <2>2, Zenon
<1>9. h = [i \in 1..n |-> D[(0 + i - 1) % (2 * n)]]
  <2>1. ASSUME NEW i \in 1..n PROVE que.data[(que.front + i - 1) % n] = D[(0 + i - 1) % (2 * n)]
    <3>1. i - 1 \in 0..(n - 1) /\ 0 + i - 1 = i - 1 /\ que.front + i - 1 = que.front + (i - 1)
      BY <1>1
    <3>2. (i - 1) % (2 * n) = i - 1
      <4>1. PICK c : c = 2 * n
        OBVIOUS
      <4>2. c \in Nat \ {0} /\ i - 1 \in 0..(c - 1)
        BY <1>1, <3>1, <4>1
      <4>. QED BY <4>1, <4>2, Small
    <3>3. D[i - 1] = que.data[(que.front + (i - 1)) % n]
      BY <1>5, <3>1
    <3>. QED BY <3>1, <3>2, <3>3, Zenon
  <2>. QED BY <1>1, <2>1
<1>10. RingOf(r, h)
  BY <1>4, <1>5, <1>6, <1>7, <1>8, <1>9 DEF RingOf
<1>. QED BY <1>3, <1>4, <1>7, <1>10

\* There is room: the name goes behind the others.
LEMMA RoomRing ==
  ASSUME NEW que, NEW h, RingOf(que, h), que.size # que.capacity, NEW item
  PROVE  RingOf(enqueue(que, item), Append(h, item))
<1>. DEFINE n == que.capacity
            f == que.front
            m == que.size
            x == (que.rear + 1) % n
            D == [que.data EXCEPT ![x] = item]
<1>1. n \in Nat \ {0} /\ m \in 0..(n - 1) /\ f \in 0..(n - 1)
      /\ que = Ring(que.data, f, que.rear, m, n)
      /\ que.data = [i \in 0..(n - 1) |-> que.data[i]]
      /\ x = (f + m) % n
      /\ h = [i \in 1..m |-> que.data[(f + i - 1) % n]]
  BY DEF RingOf
<1>2. enqueue(que, item) = Ring(D, f, x, m + 1, n)
  BY <1>1, EnqueueIs
<1>3. PICK r : r = enqueue(que, item)
  OBVIOUS
<1>. HIDE DEF D, x
<1>4. r.data = D /\ r.front = f /\ r.rear = x /\ r.size = m + 1 /\ r.capacity = n
  BY <1>2, <1>3 DEF Ring
<1>6. r = Ring(r.data, r.front, r.rear, r.size, r.capacity)
  BY <1>2, <1>3, <1>4, Zenon
<1>. HIDE DEF n, f, m
<1>7. /\ \A b \in 0..n : (f + b) % n \in 0..(n - 1)
      /\ \A b, c \in 0..(n - 1) : b # c => (f + b) % n # (f + c) % n
      /\ \A b \in 0..(n - 1) : (((f + b) % n) + 1) % n = (f + (b + 1)) % n
  BY <1>1, RingPlaces
<1>8. x \in 0..(n - 1) /\ (x + 1) % n = (f + (m + 1)) % n /\ m + 1 \in 0..n /\ m \in 0..n
  BY <1>1, <1>7
<1>5. /\ D = [i \in 0..(n - 1) |-> D[i]] /\ D[x] = item
      /\ \A i \in 0..(n - 1) : i # x => D[i] = que.data[i]
  BY <1>1, <1>8 DEF D
<1>9. x = (f + (m + 1) - 1) % n
  <2>1. f + (m + 1) - 1 = f + m
    BY <1>1
  <2>. QED BY <1>1, <2>1, Zenon
<1>10. Append(h, item) = [i \in 1..(m + 1) |-> D[(f + i - 1) % n]]
  <2>1. h = [i \in 1..m |-> h[i]]
    BY <1>1
  <2>2. m \in Nat
    BY <1>1
  <2>3. Append(h, item) = [i \in 1..(m + 1) |-> IF i = m + 1 THEN item ELSE h[i]]
    BY <2>1, <2>2, NamesOps
  <2>4. ASSUME NEW i \in 1..(m + 1)
        PROVE  (IF i = m + 1 THEN item ELSE h[i]) = D[(f + i - 1) % n]
    <3>1. CASE i = m + 1
      BY <1>5, <1>9, <3>1, Zenon
    <3>2. CASE i # m + 1
      <4>1. PICK b : b = i - 1
        OBVIOUS
      <4>2. i \in 1..m /\ b \in 0..(n - 1) /\ m \in 0..(n - 1) /\ b # m /\ f + i - 1 = f + b
        BY <1>1, <3>2, <4>1
      <4>3. (f + b) % n # x /\ (f + b) % n \in 0..(n - 1)
        <5>1. x = (f + m) % n /\ b \in 0..n
          BY <1>1, <4>2
        <5>. QED BY <1>7, <4>2, <5>1
      <4>4. D[(f + b) % n] = que.data[(f + b) % n]
        BY <1>5, <4>3
      <4>5. h[i] = que.data[(f + i - 1) % n]
        BY <1>1, <4>2
      <4>. QED BY <3>2, <4>2, <4>4, <4>5, Zenon
    <3>. QED BY <3>1, <3>2
  <2>. QED BY <2>3, <2>4
<1>11. x \in -1..(n - 1)
  BY <1>1, <1>8
<1>12. RingOf(r, Append(h, item))
  BY <1>1, <1>4, <1>5, <1>6, <1>8, <1>9, <1>10, <1>11 DEF RingOf
<1>. QED BY <1>3, <1>12

LEMMA EnqueueRing ==
  ASSUME NEW que, NEW h, RingOf(que, h), NEW item
  PROVE  RingOf(enqueue(que, item), Append(h, item))
<1>1. CASE que.size # que.capacity
  BY <1>1, RoomRing
<1>2. CASE que.size = que.capacity
  <2>1. PICK r : r = resize_queue(que)
    OBVIOUS
  <2>2. RingOf(r, h) /\ r.size # r.capacity
    BY <1>2, <2>1, GrowRing
  <2>3. enqueue(que, item) = enqueue(r, item)
    BY <1>2, <2>1, <2>2 DEF enqueue
  <2>4. RingOf(enqueue(r, item), Append(h, item))
    BY <2>2, RoomRing
  <2>. QED BY <2>3, <2>4
<1>. QED BY <1>1, <1>2

\* The first name leaves; rear stays.
LEMMA DequeueRing ==
  ASSUME NEW que, NEW h, RingOf(que, h), que.size # 0
  PROVE  RingOf(dequeue(que), Tail(h))
<1>. DEFINE n == que.capacity
            f == que.front
            m == que.size
            x == (f + 1) % n
<1>1. n \in Nat \ {0} /\ m \in 1..n /\ f \in 0..(n - 1) /\ que.rear \in -1..(n - 1)
      /\ que = Ring(que.data, f, que.rear, m, n)
      /\ que.data = [i \in 0..(n - 1) |-> que.data[i]]
      /\ (que.rear + 1) % n = (f + m) % n
      /\ que.rear = (f + m - 1) % n
      /\ h = [i \in 1..m |-> que.data[(f + i - 1) % n]]
  BY DEF RingOf
<1>2. dequeue(que) = Ring(que.data, x, que.rear, m - 1, n)
  BY <1>1, DequeueIs
<1>3. PICK r : r = dequeue(que)
  OBVIOUS
<1>. HIDE DEF x
<1>4. r.data = que.data /\ r.front = x /\ r.rear = que.rear /\ r.size = m - 1 /\ r.capacity = n
  BY <1>2, <1>3 DEF Ring
<1>5. r = Ring(r.data, r.front, r.rear, r.size, r.capacity)
  BY <1>2, <1>3, <1>4, Zenon
<1>. HIDE DEF n, f, m
<1>6. /\ \A b \in 0..n : (f + b) % n \in 0..(n - 1)
      /\ \A b \in 0..(n - 1) : (x + b) % n = (f + (b + 1)) % n
  BY <1>1, RingPlaces DEF x
<1>13. n \in Nat \ {0} /\ m \in 1..n /\ f \in 0..(n - 1)
  BY <1>1
<1>7. x \in 0..(n - 1) /\ m - 1 \in 0..n
  <2>1. 1 \in 0..n /\ m - 1 \in 0..n
    BY <1>13
  <2>. QED BY <1>6, <2>1 DEF x
<1>8. ASSUME NEW i \in 0..(n - 1) PROVE (x + i) % n = (f + (i + 1)) % n
  BY <1>6
<1>9. (que.rear + 1) % n = (x + (m - 1)) % n
  <2>1. m - 1 \in 0..(n - 1) /\ m - 1 + 1 = m
    BY <1>13
  <2>. QED BY <1>1, <1>8, <2>1, Zenon
<1>10. m - 1 > 0 => que.rear = (x + (m - 1) - 1) % n
  <2>1. ASSUME m - 1 > 0 PROVE que.rear = (x + (m - 1) - 1) % n
    <3>1. PICK b : b = m - 2
      OBVIOUS
    <3>2. b \in 0..(n - 1) /\ x + (m - 1) - 1 = x + b /\ f + m - 1 = f + (b + 1)
      BY <1>13, <1>7, <2>1, <3>1
    <3>. QED BY <1>1, <1>8, <3>2, Zenon
  <2>. QED BY <2>1
<1>11. Tail(h) = [i \in 1..(m - 1) |-> que.data[(x + i - 1) % n]]
  <2>1. h = [i \in 1..m |-> h[i]] 
    BY <1>1
  <2>4. m \in Nat /\ m > 0
    BY <1>13
  <2>2. Tail(h) = [i \in 1..(m - 1) |-> h[i + 1]]
    BY <2>1, <2>4, NamesOps
  <2>3. ASSUME NEW i \in 1..(m - 1) PROVE h[i + 1] = que.data[(x + i - 1) % n]
    <3>1. PICK b : b = i - 1
      OBVIOUS
    <3>2. b \in 0..(n - 1) /\ x + i - 1 = x + b /\ f + (i + 1) - 1 = f + (b + 1) /\ i + 1 \in 1..m
      BY <1>13, <1>7, <3>1
    <3>3. h[i + 1] = que.data[(f + (i + 1) - 1) % n]
      BY <1>1, <3>2
    <3>. QED BY <1>8, <3>2, <3>3, Zenon
  <2>. QED BY <2>2, <2>3
<1>12. RingOf(r, Tail(h))
  BY <1>1, <1>4, <1>5, <1>7, <1>9, <1>10, <1>11 DEF RingOf
<1>. QED BY <1>3, <1>12

-------------------------------------------------------------------------------
(* The invariant *)

QueuesInv ==
  /\ q = [w \in Workers |-> q[w]] /\ items = [w \in Workers |-> items[w]]
  /\ \A w \in Workers : RingOf(q[w], items[w])

LEMMA QueuesInit == ResolverInit => QueuesInv
<1> SUFFICES ASSUME ResolverInit PROVE QueuesInv
  OBVIOUS
<1>1. q = [w \in Workers |-> init_queue] /\ items = [w \in Workers |-> <<>>]
  BY DEF ResolverInit, QueueInit, ResolveInit, Nothing
<1>. QED BY <1>1, NewRing DEF QueuesInv

\* One worker's queue and names change together.
LEMMA QueueChange ==
  ASSUME QueuesInv, NEW w \in Workers, NEW que, NEW h, RingOf(que, h),
         q' = [q EXCEPT ![w] = que], items' = [items EXCEPT ![w] = h]
  PROVE  QueuesInv'
<1>1. q' = [v \in Workers |-> q'[v]] /\ items' = [v \in Workers |-> items'[v]]
  BY DEF QueuesInv
<1>2. ASSUME NEW v \in Workers PROVE RingOf(q'[v], items'[v])
  <2>1. CASE v = w
    <3>1. q'[v] = que /\ items'[v] = h
      BY <2>1 DEF QueuesInv
    <3>. QED BY <3>1
  <2>2. CASE v # w
    <3>1. q'[v] = q[v] /\ items'[v] = items[v]
      BY <2>2 DEF QueuesInv
    <3>. QED BY <3>1 DEF QueuesInv
  <2>. QED BY <2>1, <2>2
<1>. QED BY <1>1, <1>2 DEF QueuesInv

LEMMA QueueEnters ==
  ASSUME QueuesInv, NEW w \in Workers, NEW item,
         q' = [q EXCEPT ![w] = enqueue(@, item)], items' = [items EXCEPT ![w] = Append(@, item)]
  PROVE  QueuesInv'
<1>1. RingOf(enqueue(q[w], item), Append(items[w], item))
  BY EnqueueRing DEF QueuesInv
<1>. QED BY <1>1, QueueChange

LEMMA QueueLeaves ==
  ASSUME QueuesInv, NEW w \in Workers, q[w].size # 0,
         q' = [q EXCEPT ![w] = dequeue(@)], items' = [items EXCEPT ![w] = Tail(@)]
  PROVE  QueuesInv'
<1>1. RingOf(dequeue(q[w]), Tail(items[w]))
  BY DequeueRing DEF QueuesInv
<1>. QED BY <1>1, QueueChange

LEMMA QueuesNext == QueuesInv /\ [ResolverNext]_resolverVars => QueuesInv'
<1> SUFFICES ASSUME QueuesInv, [ResolverNext]_resolverVars PROVE QueuesInv'
  OBVIOUS
<1>1. CASE UNCHANGED <<q, items>>
  BY <1>1 DEF QueuesInv
<1>2. ASSUME NEW w \in Workers, Enqueue(w) PROVE QueuesInv'
  BY <1>2, QueueEnters DEF Enqueue
<1>3. ASSUME NEW w \in Workers, Dequeue(w) PROVE QueuesInv'
  <2>1. q[w].size # 0
    BY <1>3 DEF Dequeue, QueuesInv, RingOf
  <2>. QED BY <1>3, <2>1, QueueLeaves DEF Dequeue
<1>4. ASSUME NEW w \in Workers, Return(w) PROVE QueuesInv'
  <2>1. PICK name : Store(w, name)
    BY <1>4 DEF Return
  <2>2. CASE UNCHANGED <<q, items>>
    BY <1>1, <2>2
  <2>3. CASE /\ q' = [q EXCEPT ![w] = enqueue(@, name)]
             /\ items' = [items EXCEPT ![w] = Append(@, name)]
    BY <2>3, QueueEnters
  <2>. QED BY <2>1, <2>2, <2>3 DEF Store
<1>5. ASSUME NEW w \in Workers, Climb(w) \/ ClimbTooFar(w) PROVE QueuesInv'
  <2>1. q[w].size # 0
    BY <1>5, PathResolverAssumption DEF Climb, ClimbTooFar, peek_que
  <2>. QED BY <1>5, <2>1, QueueLeaves DEF Climb, ClimbTooFar
<1>. QED
  <2>1. ASSUME NEW w \in Workers, ResolveStep(w) PROVE QueuesInv'
    <3>1. CASE Return(w) \/ Climb(w) \/ ClimbTooFar(w)
      BY <1>4, <1>5, <3>1
    <3>2. CASE ~(Return(w) \/ Climb(w) \/ ClimbTooFar(w))
      <4>1. UNCHANGED <<q, items>>
        BY <2>1, <3>2 DEF ResolveStep, Absolute, Begin, NextCall, ReturnNull, ReturnFreed,
                          FreeCopy, ClimbEnd, JoinPaths
      <4>. QED BY <1>1, <4>1
    <3>. QED BY <3>1, <3>2
  <2>2. CASE Done \/ UNCHANGED resolverVars
    BY <1>1, <2>2 DEF Done, resolverVars
  <2>. QED BY <1>2, <1>3, <2>1, <2>2 DEF ResolverNext, QueueNext, ResolveNext

LEMMA QueuesRing == QueuesInv => RingInv
<1> SUFFICES ASSUME QueuesInv, NEW w \in Workers, RingOf(q[w], items[w])
             PROVE  /\ pathFromQueue(q[w]) = items[w]
                    /\ q[w].size \in 0..q[w].capacity
                    /\ q[w].front \in 0..(q[w].capacity - 1)
                    /\ DOMAIN q[w].data = 0..(q[w].capacity - 1)
                    /\ q[w].size > 0 =>
                         q[w].rear = (q[w].front + q[w].size - 1) % q[w].capacity
  BY DEF QueuesInv, RingInv, RingShape, RingIsFifo
<1>1. PICK que : que = q[w]
  OBVIOUS
<1>2. PICK h : h = items[w]
  OBVIOUS
<1>3. RingOf(que, h)
  BY <1>1, <1>2
<1>4. /\ pathFromQueue(que) = h
      /\ que.size \in 0..que.capacity
      /\ que.front \in 0..(que.capacity - 1)
      /\ que.size > 0 => que.rear = (que.front + que.size - 1) % que.capacity
  BY <1>3 DEF RingOf, pathFromQueue
<1>5. DOMAIN que.data = 0..(que.capacity - 1)
  BY <1>3 DEF RingOf
<1>. QED BY <1>1, <1>2, <1>4, <1>5

\* Whatever names come in, in whatever order the workers split, climb and queue: the
\* ring holds them in their order, through every wrap-around and every growth.
THEOREM QueueIsFifo == ResolverSpec => []RingInv
  BY QueuesInit, QueuesNext, QueuesRing, PTL DEF ResolverSpec
===============================================================================
