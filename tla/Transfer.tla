------------------------------ MODULE Transfer ------------------------------
(***************************************************************************)
(* One file on one connection, byte by byte: sendFile of client/puts.c and *)
(* server/gets.c at one end, recvfile of server/puts.c and client/gets.c   *)
(* at the other.  The two ends of a direction are the same code twice.     *)
(*                                                                         *)
(* A file longer than Threshold goes through a pipe with splice, Block     *)
(* bytes at a time, and is counted in an int; a shorter one goes through a *)
(* buffer of Chunk bytes and is counted in an off_t.  Byte i of the file   *)
(* is i.  Behind the file the sender may send a further message (the       *)
(* client's next command): its bytes are MSG.                              *)
(*                                                                         *)
(* Faults, MaxFaults of them in a behaviour: the file grows or shrinks     *)
(* after its length was announced, a write is short or fails (the disk is  *)
(* full), either end hangs up (orderly, or with a reset that loses what    *)
(* was under way).  Bounds: MaxLen, MaxFaults, one message of MsgLen bytes.*)
(***************************************************************************)
EXTENDS Integers, Sequences, FiniteSets

CONSTANTS Chunk,     \* 1000: the buffer of sendFile and recvfile
          Block,     \* 4096: the length given to splice
          Threshold, \* 1024000
          IntMax,    \* 2^31 - 1: total is an int
          MSG, MsgLen, MaxLen, MaxFaults

ASSUME TransferAssumption ==
  /\ Chunk \in Nat \ {0} /\ Block \in Nat \ {0} /\ MsgLen \in Nat \ {0}
  /\ Threshold \in Nat /\ IntMax \in Nat /\ MaxLen \in Nat /\ MaxFaults \in Nat
  /\ MSG \notin Int

VARIABLES
  len,    \* the announced length
  size,   \* the bytes the sender's file has from the announced offset on
  snd,    \* [at |-> , pos |-> , count |-> , n |-> , buf |-> ]: sendFile
  rcv,    \* [at |-> , count |-> , want |-> , buf |-> ]: recvfile
  stream, \* the bytes under way
  link,   \* what the receiver finds behind them: "up", "eof" or "reset"
  stored, \* what the receiver has written
  taken,  \* the number of bytes it has taken from the stream
  followed, \* the message has been sent
  faults  \* the kinds of faults so far

vars == <<len, size, snd, rcv, stream, link, stored, taken, followed, faults>>

Range1(n) == [i \in 1..n |-> i]
Least(a, b) == IF a < b THEN a ELSE b
Drop(s, n) == SubSeq(s, n + 1, Len(s))

Init ==
  /\ len \in 1..MaxLen /\ size = len
  /\ snd = [at |-> "loop", pos |-> 0, count |-> 0, n |-> 0, buf |-> <<>>]
  /\ rcv = [at |-> "loop", count |-> 0, want |-> 0, buf |-> <<>>]
  /\ stream = <<>> /\ link = "up" /\ stored = <<>> /\ taken = 0
  /\ followed = FALSE /\ faults = {}

Big == len > Threshold

\* total += n in an int.  Overflow is undefined: the count wraps around, or it is
\* kept in a wider register.
Counted(count, n) ==
  LET sum == count + n
  IN  {sum} \cup (IF Big /\ sum > IntMax THEN {sum - 2 * IntMax - 2} ELSE {})

SenderLost   == snd.at \in {"gone", "killed"}
ReceiverLost == rcv.at \in {"gone", "exited"}

-------------------------------------------------------------------------------
(* sendFile *)

\* Mutant of SendRead: the whole buffer is sent, not what was read.
SendReadFull ==
  /\ snd.at = "loop" /\ snd.count < len
  /\ LET n == IF Big THEN Block ELSE Chunk IN
       snd' = [snd EXCEPT !.at = "send", !.pos = @ + n, !.n = n,
                          !.buf = [i \in 1..n |-> snd.pos + i]]
  /\ UNCHANGED <<len, size, rcv, stream, link, stored, taken, followed, faults>>

\* read, or splice from the file: neither is limited to what is left of len.  At
\* the end of the file read's 0 ends the loop, splice's 0 adds nothing for ever.
SendRead ==
  /\ snd.at = "loop" /\ snd.count < len
  /\ LET n == Least(IF Big THEN Block ELSE Chunk, size - snd.pos) IN
       snd' = IF n > 0 THEN [snd EXCEPT !.at = "send", !.pos = @ + n, !.n = n,
                               !.buf = [i \in 1..n |-> snd.pos + i]]
              ELSE IF Big THEN snd ELSE [snd EXCEPT !.at = "done"]
  /\ UNCHANGED <<len, size, rcv, stream, link, stored, taken, followed, faults>>

\* sendn, or splice to the socket: the bytes go out in pieces.
SendSome ==
  /\ snd.at = "send" /\ ~ReceiverLost
  /\ \E k \in 1..Len(snd.buf) :
       /\ stream' = stream \o SubSeq(snd.buf, 1, k)
       /\ IF k < Len(snd.buf)
          THEN snd' = [snd EXCEPT !.buf = Drop(@, k)]
          ELSE \E c \in Counted(snd.count, snd.n) :
                 snd' = [snd EXCEPT !.at = "loop", !.count = c, !.buf = <<>>]
  /\ UNCHANGED <<len, size, rcv, link, stored, taken, followed, faults>>

\* The peer is gone.  The first bytes may still be accepted; then sendn returns -1,
\* which is added to cur; a splice that fails ends the process, and so does the
\* SIGPIPE of a further send.
SendBroken ==
  /\ snd.at = "send" /\ ReceiverLost
  /\ \/ snd' = [snd EXCEPT !.at = "killed"]
     \/ \E c \in Counted(snd.count, snd.n) :
          snd' = [snd EXCEPT !.at = "loop", !.count = c, !.buf = <<>>]
     \/ ~Big /\ snd.count >= 0
        /\ snd' = [snd EXCEPT !.at = "loop", !.count = @ - 1, !.buf = <<>>]
  /\ UNCHANGED <<len, size, rcv, stream, link, stored, taken, followed, faults>>

SendEnd ==
  /\ snd.at = "loop" /\ snd.count >= len
  /\ snd' = [snd EXCEPT !.at = "done"]
  /\ UNCHANGED <<len, size, rcv, stream, link, stored, taken, followed, faults>>

\* The client is back at its prompt a second later, and sends its next command.
Follow ==
  /\ snd.at = "done" /\ ~followed /\ link = "up" /\ ~ReceiverLost
  /\ followed' = TRUE
  /\ stream' = stream \o [i \in 1..MsgLen |-> MSG]
  /\ UNCHANGED <<len, size, snd, rcv, link, stored, taken, faults>>

-------------------------------------------------------------------------------
(* recvfile *)

\* Mutant of Wanted: a whole buffer each time.
WantedWhole == Chunk

\* What recvn is asked for: never more than what is left.
Wanted == IF len - rcv.count < Chunk THEN len - rcv.count ELSE Chunk

\* Mutant of RecvSmall: nothing received is the end.
RecvSmallEof ==
  /\ rcv.at = "loop" /\ ~Big /\ rcv.count < len
  /\ \/ Len(stream) >= Wanted
        /\ rcv' = [rcv EXCEPT !.at = "write", !.want = Wanted, !.buf = SubSeq(stream, 1, Wanted)]
        /\ stream' = Drop(stream, Wanted) /\ taken' = taken + Wanted
     \/ link # "up" /\ Len(stream) < Wanted
        /\ rcv' = [rcv EXCEPT !.at = "done"]
        /\ stream' = <<>> /\ taken' = taken + Len(stream)
  /\ UNCHANGED <<len, size, snd, link, stored, followed, faults>>

\* recvn: waits for all it wants.  At the end of the stream it returns less, down
\* to 0; an error loses what it had and ends the loop.
RecvSmall ==
  /\ rcv.at = "loop" /\ ~Big /\ rcv.count < len
  /\ LET n == Least(Wanted, Len(stream)) IN
       /\ n = Wanted \/ link # "up"
       /\ rcv' = IF n < Wanted /\ link = "reset" THEN [rcv EXCEPT !.at = "done"]
                 ELSE [rcv EXCEPT !.at = "write", !.want = Wanted, !.buf = SubSeq(stream, 1, n)]
       /\ stream' = Drop(stream, n) /\ taken' = taken + n
  /\ UNCHANGED <<len, size, snd, link, stored, followed, faults>>

\* Mutant of RecvSplice: <= for <.
RecvSpliceOnce ==
  /\ rcv.at = "loop" /\ Big /\ rcv.count <= len
  /\ LET n == Least(Block, Len(stream)) IN
       /\ n > 0 \/ link # "up"
       /\ rcv' = IF n = 0 /\ link = "reset" THEN [rcv EXCEPT !.at = "exited"]
                 ELSE [rcv EXCEPT !.at = "write", !.want = n, !.buf = SubSeq(stream, 1, n)]
       /\ stream' = Drop(stream, n) /\ taken' = taken + n
  /\ UNCHANGED <<len, size, snd, link, stored, followed, faults>>

\* splice from the socket: what is there, up to a block, whatever is left; an error
\* ends the process.
RecvSplice ==
  /\ rcv.at = "loop" /\ Big /\ rcv.count < len
  /\ LET n == Least(Block, Len(stream)) IN
       /\ n > 0 \/ link # "up"
       /\ rcv' = IF n = 0 /\ link = "reset" THEN [rcv EXCEPT !.at = "exited"]
                 ELSE [rcv EXCEPT !.at = "write", !.want = n, !.buf = SubSeq(stream, 1, n)]
       /\ stream' = Drop(stream, n) /\ taken' = taken + n
  /\ UNCHANGED <<len, size, snd, link, stored, followed, faults>>

\* k bytes are written, ret is what the call returns.
Write(k, ret) ==
  /\ stored' = stored \o SubSeq(rcv.buf, 1, k)
  /\ \E c \in Counted(rcv.count, ret) :
       rcv' = [rcv EXCEPT !.at = "loop", !.count = c, !.buf = <<>>]

RecvWrite ==
  /\ rcv.at = "write"
  /\ Write(Len(rcv.buf), Len(rcv.buf))
  /\ UNCHANGED <<len, size, snd, stream, link, taken, followed, faults>>

RecvEnd ==
  /\ rcv.at = "loop" /\ rcv.count >= len
  /\ rcv' = [rcv EXCEPT !.at = "done"]
  /\ UNCHANGED <<len, size, snd, stream, link, stored, taken, followed, faults>>

-------------------------------------------------------------------------------
(* Faults *)

Fault(kind) == Cardinality(faults) < MaxFaults /\ kind \notin faults /\ faults' = faults \cup {kind}

Grow ==
  /\ ~SenderLost /\ Fault("grown") /\ size' = size + 1
  /\ UNCHANGED <<len, snd, rcv, stream, link, stored, taken, followed>>

Shrink ==
  /\ ~SenderLost /\ Fault("shrunk") /\ size > snd.pos /\ size' = size - 1
  /\ UNCHANGED <<len, snd, rcv, stream, link, stored, taken, followed>>

\* The disk is full: write is short or returns -1, which is taken from len; a splice
\* that fails ends the process.
DiskFull ==
  /\ rcv.at = "write" /\ rcv.buf # <<>> /\ Fault("full")
  /\ \/ Big /\ rcv' = [rcv EXCEPT !.at = "exited"] /\ UNCHANGED stored
     \/ ~Big /\ Write(0, -1)
     \/ ~Big /\ \E k \in 1..(Len(rcv.buf) - 1) : Write(k, k)
  /\ UNCHANGED <<len, size, snd, stream, link, taken, followed>>

SenderHangsUp ==
  /\ ~SenderLost /\ link = "up"
  /\ \/ Fault("eof") /\ link' = "eof" /\ UNCHANGED stream
     \/ Fault("reset") /\ link' = "reset"
        /\ \E k \in 0..Len(stream) : stream' = SubSeq(stream, 1, k)
  /\ snd' = [snd EXCEPT !.at = "gone"]
  /\ UNCHANGED <<len, size, rcv, stored, taken, followed>>

ReceiverHangsUp ==
  /\ ~ReceiverLost /\ Fault("left")
  /\ rcv' = [rcv EXCEPT !.at = "gone"]
  /\ UNCHANGED <<len, size, snd, stream, link, stored, taken, followed>>

-------------------------------------------------------------------------------
SenderStep   == SendRead \/ SendSome \/ SendBroken \/ SendEnd
ReceiverStep == RecvSmall \/ RecvSplice \/ RecvWrite \/ RecvEnd
Faults       == Grow \/ Shrink \/ DiskFull \/ SenderHangsUp \/ ReceiverHangsUp

\* Both ends have come as far as they can; the receiver may wait for bytes that
\* nobody is going to send.
Rest ==
  /\ snd.at \in {"done", "gone", "killed"}
  /\ \/ rcv.at \in {"done", "gone", "exited"}
     \/ rcv.at = "loop" /\ link = "up" /\ Len(stream) < IF Big THEN 1 ELSE Wanted
  /\ UNCHANGED vars

Next == SenderStep \/ Follow \/ ReceiverStep \/ Faults \/ Rest

\* Both loops run in threads of their own that nothing suspends.
Spec == Init /\ [][Next]_vars /\ WF_vars(SenderStep) /\ WF_vars(ReceiverStep)

-------------------------------------------------------------------------------
(* Correctness *)

Bytes == Seq(Int \cup {MSG})

TypeOK ==
  /\ len \in 1..MaxLen /\ size \in 0..(MaxLen + 1)
  /\ snd \in [at: {"loop", "send", "done", "gone", "killed"}, pos: Nat, count: Int,
              n: Nat, buf: Bytes]
  /\ rcv \in [at: {"loop", "write", "done", "gone", "exited"}, count: Int, want: Nat,
              buf: Bytes]
  /\ stream \in Bytes /\ stored \in Bytes /\ taken \in Nat
  /\ link \in {"up", "eof", "reset"} /\ followed \in BOOLEAN

\* Nobody's count can have wrapped around.
Countable == ~Big \/ len + Block - 1 <= IntMax

\* The i-th byte that goes over the connection: of the file as far as the sender has
\* read it, then of the message.
ByteAt(i) == IF i <= snd.pos THEN i ELSE MSG

\* No write has failed that the receiver went on from.
Unspoilt == Big \/ "full" \notin faults

\* What the two ends hold in their buffers.
Unsent == Len(snd.buf)
Unwritten == Len(rcv.buf)

\* What there is to send so far.
Sent == IF followed THEN snd.pos + MsgLen ELSE snd.pos

\* On its way every byte is at its place ...
SentInPlace ==
  /\ \A i \in 1..Unsent : snd.buf[i] = snd.pos - Unsent + i
  /\ \A i \in 1..Len(stream) : stream[i] = ByteAt(taken + i)

\* ... what was read is taken, under way or lost with the connection ...
SentAccounts ==
  /\ taken + Len(stream) + Unsent <= Sent
  /\ link # "reset" /\ ~ReceiverLost => taken + Len(stream) + Unsent = Sent
  /\ snd.at \in {"loop", "done"} \/ followed => snd.buf = <<>>
  /\ followed => snd.at \in {"done", "gone"}
  /\ link # "up" => snd.at = "gone"
  /\ link = "reset" => "reset" \in faults

\* ... the file has the announced length unless it changed, the count is what was
\* read, and the message goes behind the whole file.
SentCounts ==
  /\ snd.pos <= size /\ size <= len + 1
  /\ size <= len \/ "grown" \in faults
  /\ size >= len \/ "shrunk" \in faults
  /\ Countable /\ ~ReceiverLost /\ snd.at = "loop" => snd.count = snd.pos
  /\ Countable /\ ~ReceiverLost /\ snd.at = "send" =>
       snd.count = snd.pos - snd.n /\ snd.count < len /\ (Big => snd.n <= Block)
  /\ Countable /\ ((snd.at = "done" /\ ~ReceiverLost) \/ followed) =>
       snd.pos >= len \/ "shrunk" \in faults

\* Every byte that was taken is at its place ...
StoredInPlace ==
  /\ rcv.at = "write" => \A i \in 1..Unwritten : rcv.buf[i] = ByteAt(taken - Unwritten + i)
  /\ Unspoilt => \A i \in 1..Len(stored) : stored[i] = ByteAt(i)

\* ... it is stored or about to be, unless the connection broke ...
StoredAccounts ==
  /\ Len(stored) + Unwritten <= taken
  /\ Unspoilt /\ (rcv.at \in {"loop", "write"} \/ "reset" \notin faults) =>
       Len(stored) + Unwritten = taken
  /\ rcv.at \in {"loop", "done"} => rcv.buf = <<>>

\* ... and counted; the count passes the file's end by less than a block of splice.
StoredCounts ==
  /\ rcv.at = "write" /\ ~Big => Unwritten <= len - rcv.count
  /\ rcv.at = "write" /\ Big => rcv.count < len /\ Unwritten <= Block
  /\ Countable /\ Unspoilt =>
       /\ rcv.at \in {"loop", "write"} => rcv.count = Len(stored)
       /\ rcv.at = "done" /\ "reset" \notin faults => Len(stored) >= len
       /\ ~Big => Len(stored) <= len
       /\ Big => Len(stored) < len + Block

SenderInv == SentInPlace /\ SentAccounts /\ SentCounts
ReceiverInv == StoredInPlace /\ StoredAccounts /\ StoredCounts

\* A short file's receiver stores bytes of the file only, in their order and without
\* a gap, whatever the sender sends behind them (want is capped), unless a write
\* failed or the file became shorter than announced: then the loops disagree on the
\* number of bytes, and the next command is stored as the file's end.
StoresPrefix ==
  ~Big /\ faults \cap {"full", "shrunk"} = {} => stored = Range1(Len(stored))

\* splice does not know what is left: behind a long file less than one block of
\* what follows it is taken.
OvershootBounded ==
  Big /\ Countable /\ "shrunk" \notin faults =>
    Cardinality({ i \in DOMAIN stored : stored[i] = MSG }) < Block

\* Together: what is stored on either side of the threshold.
StoredInv == TypeOK /\ SenderInv /\ ReceiverInv /\ StoresPrefix /\ OvershootBounded

\* When recvfile returns after no fault but a growing file or a sender's orderly
\* hang-up, the file is there from its first byte to its last.
ReturnsWhole ==
  rcv.at = "done" /\ Countable /\ faults \subseteq {"grown", "eof"} =>
    /\ Len(stored) >= len
    /\ SubSeq(stored, 1, len) = Range1(len)

\* A file that is not big, without faults, leaves both ends at the same byte: all that
\* follows it is still on the stream. (Behind a big one splice may take some of it.)
LeavesTheRest ==
  rcv.at = "done" /\ snd.at = "done" /\ ~Big /\ faults = {} =>
    stream = IF followed THEN [i \in 1..MsgLen |-> MSG] ELSE <<>>

\* Without faults both loops end.
Ends == <>(faults # {} \/ ~Countable \/ (snd.at = "done" /\ rcv.at = "done"))

\* server/puts.c:80 "receive the file and write it": what is written is the file.
StoresOnlyFile == \A i \in DOMAIN stored : stored[i] # MSG

\* server/server.c:104 "when the while loop is left, left is 0": recvn returns with
\* all it was asked for.
RecvnFills == rcv.at = "write" => Len(rcv.buf) = rcv.want
==============================================================================
