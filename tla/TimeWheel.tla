------------------------------ MODULE TimeWheel ------------------------------
(***************************************************************************)
(* The time wheel of server/timeWheel.c, as operators on its state.  Only  *)
(* the reactor thread uses it; Reactor gives it a variable and a caller.   *)
(*                                                                         *)
(* A wheel is a record:                                                    *)
(*   slots[i]      the circular list of slot i, from the node the slot     *)
(*                 points to, as a sequence of list nodes                  *)
(*   fdOf[n]       peerfd of list node n; NULL when n is not allocated     *)
(*   hashTable[b]  bucket b, head first: <<[peerfd |-> , index |-> ], ...>>*)
(*   hashSize, elementCount, currentIndex                                  *)
(***************************************************************************)
EXTENDS Integers, Sequences, SequencesExt

CONSTANTS WheelSize,        \* TIME_WHEEL_SIZE, 60
          Timeout,          \* the 45 that main.c and bussiness.c pass
          InitialHashSize,  \* INITIAL_HASH_SIZE, 128
          Nodes,            \* the list nodes malloc may return (integers)
          NULL

ASSUME TimeWheelAssumption ==
  /\ WheelSize \in Nat /\ Timeout \in 0..(WheelSize - 1)
  /\ InitialHashSize \in Nat \ {0}
  /\ Nodes \subseteq Nat /\ NULL \notin Nat

createTimeWheel ==
  [ slots        |-> [i \in 0..(WheelSize - 1) |-> <<>>],
    fdOf         |-> [n \in Nodes |-> NULL],
    hashTable    |-> [b \in 0..(InitialHashSize - 1) |-> <<>>],
    hashSize     |-> InitialHashSize,
    elementCount |-> 0,
    currentIndex |-> 0 ]

\* What malloc returns: an unused node, the least one for a canonical state.
FreshNode(w) ==
  CHOOSE n \in Nodes : w.fdOf[n] = NULL /\ \A m \in Nodes : m < n => w.fdOf[m] # NULL

hashFunction(peerfd, hashSize) == peerfd % hashSize

-------------------------------------------------------------------------------
(* The hash table: peerfd -> the slot of its list node *)

\* The nodes of an old bucket that go to bucket b of a table of this size: they are
\* taken in order, each one is put in front of the last.
Moved(bucket, size, b) ==
  LET taken[i \in 0..Len(bucket)] ==
        IF i = 0 THEN <<>>
        ELSE IF hashFunction(bucket[i].peerfd, size) = b THEN <<bucket[i]>> \o taken[i - 1]
        ELSE taken[i - 1]
  IN  taken[Len(bucket)]

\* All nodes of the new bucket b come from one old bucket: a number that is b modulo
\* the double size is b % hashSize modulo hashSize.
resizeHashTable(w) ==
  LET size == 2 * w.hashSize
  IN  [w EXCEPT !.hashSize = size,
                !.hashTable = [b \in 0..(size - 1) |->
                                 Moved(w.hashTable[b % w.hashSize], size, b)]]

\* Mutant of insertToHashTable: the table never grows.
insertNoResize(w, peerfd, index) ==
  LET b == hashFunction(peerfd, w.hashSize)
  IN  [w EXCEPT !.hashTable[b] = <<[peerfd |-> peerfd, index |-> index]>> \o @,
                !.elementCount = @ + 1]

\* The table doubles before the insertion when it is three quarters full.
insertToHashTable(w, peerfd, index) ==
  LET r == IF 4 * w.elementCount >= 3 * w.hashSize THEN resizeHashTable(w) ELSE w
      b == hashFunction(peerfd, r.hashSize)
  IN  [r EXCEPT !.hashTable[b] = <<[peerfd |-> peerfd, index |-> index]>> \o @,
                !.elementCount = @ + 1]

\* Mutant of deleteFromHashTable: the count is left alone.
deleteNoCount(w, peerfd) ==
  [w EXCEPT !.hashTable[hashFunction(peerfd, w.hashSize)] =
              RemoveFirstMatch(@, LAMBDA e : e.peerfd = peerfd)]

\* The first node of the bucket with this peerfd goes, if there is one.
deleteFromHashTable(w, peerfd) ==
  LET b == hashFunction(peerfd, w.hashSize)
      k == SelectInSeq(w.hashTable[b], LAMBDA e : e.peerfd = peerfd)
  IN  IF k = 0 THEN w
      ELSE [w EXCEPT !.hashTable[b] = RemoveAt(@, k), !.elementCount = @ - 1]

-------------------------------------------------------------------------------
(* The lists of the slots *)

\* The node after n in its circular list.  A freed node has no successor: its
\* pointers were set to NULL before free.
NextNode(w, n) ==
  LET In == { i \in DOMAIN w.slots : n \in ToSet(w.slots[i]) } IN
  IF In = {} THEN NULL
  ELSE LET s == w.slots[CHOOSE i \in In : TRUE]
           k == CHOOSE k \in DOMAIN s : s[k] = n
       IN  s[(k % Len(s)) + 1]

\* The first node of slot index with this peerfd is unlinked and freed.
removeUserFromList(w, peerfd, index) ==
  LET k == SelectInSeq(w.slots[index], LAMBDA n : w.fdOf[n] = peerfd)
  IN  IF k = 0 THEN w
      ELSE [w EXCEPT !.slots[index] = RemoveAt(@, k), !.fdOf[w.slots[index][k]] = NULL]

\* Mutant of addUser: the node goes one slot too far.
addUserLate(w, peerfd, timeout) ==
  LET index == (w.currentIndex + timeout + 1) % WheelSize
      n     == FreshNode(w)
  IN  insertToHashTable([w EXCEPT !.slots[index] = Append(@, n), !.fdOf[n] = peerfd],
                        peerfd, index)

\* A new node at the tail of the list that is timeout slots ahead.
addUser(w, peerfd, timeout) ==
  LET index == (w.currentIndex + timeout) % WheelSize
      n     == FreshNode(w)
  IN  insertToHashTable([w EXCEPT !.slots[index] = Append(@, n), !.fdOf[n] = peerfd],
                        peerfd, index)

\* The slot is the one of the bucket's first node, whoever that node is for.
BucketHead(w, peerfd) == w.hashTable[hashFunction(peerfd, w.hashSize)]

removeUser(w, peerfd) ==
  LET bucket == BucketHead(w, peerfd)
  IN  IF bucket = <<>> THEN w
      ELSE deleteFromHashTable(removeUserFromList(w, peerfd, bucket[1].index), peerfd)

\* Mutant of updateUserTimeout: the user is not added again.
updateForgets(w, peerfd, timeout) ==
  IF BucketHead(w, peerfd) = <<>> THEN w ELSE removeUser(w, peerfd)

updateUserTimeout(w, peerfd, timeout) ==
  IF BucketHead(w, peerfd) = <<>> THEN w
  ELSE addUser(removeUser(w, peerfd), peerfd, timeout)

-------------------------------------------------------------------------------
(* tick: the loop over the current slot is Reactor's; this is what follows it. *)

\* Mutant of TickAdvance: the index does not wrap around.
TickAdvanceNoWrap(w) ==
  LET s == w.slots[w.currentIndex]
  IN  [w EXCEPT !.slots[w.currentIndex] = <<>>,
                !.fdOf = [n \in Nodes |-> IF n \in ToSet(s) THEN NULL ELSE @[n]],
                !.currentIndex = @ + 1]

\* Mutant of TickAdvance: the index stays.
TickAdvanceStuck(w) ==
  LET s == w.slots[w.currentIndex]
  IN  [w EXCEPT !.slots[w.currentIndex] = <<>>,
                !.fdOf = [n \in Nodes |-> IF n \in ToSet(s) THEN NULL ELSE @[n]]]

\* slots[currentIndex] = NULL; what is still in that list is out of reach.
TickAdvance(w) ==
  LET s == w.slots[w.currentIndex]
  IN  [w EXCEPT !.slots[w.currentIndex] = <<>>,
                !.fdOf = [n \in Nodes |-> IF n \in ToSet(s) THEN NULL ELSE @[n]],
                !.currentIndex = (@ + 1) % WheelSize]

-------------------------------------------------------------------------------
(* What the wheel says, for the properties *)

\* No bucket mixes two descriptors: the bucket's first node is the user's own.
OwnBuckets(w) ==
  \A b \in DOMAIN w.hashTable :
    \A i, j \in DOMAIN w.hashTable[b] : w.hashTable[b][i].peerfd = w.hashTable[b][j].peerfd

\* The places of the hash table's nodes: bucket, and position there.
HashNodes(w) == UNION { {b} \X DOMAIN w.hashTable[b] : b \in DOMAIN w.hashTable }

\* elementCount, on which the resizing depends, is the number of hash nodes.
CountsNodes(w) == w.elementCount = Cardinality(HashNodes(w))

\* peerfd has a list node that a tick will reach, and a hash node.
Registered(w, peerfd) ==
  /\ \E i \in DOMAIN w.slots : \E n \in ToSet(w.slots[i]) : w.fdOf[n] = peerfd
  /\ \E i \in DOMAIN BucketHead(w, peerfd) : BucketHead(w, peerfd)[i].peerfd = peerfd

\* The list that is d ticks ahead of the one whose turn is next.
Ahead(w, d) == w.slots[(w.currentIndex + d) % WheelSize]

\* The number of ticks that close peerfd's slot, the one that is due included.
TicksLeft(w, peerfd) ==
  CHOOSE d \in 1..WheelSize :
    \E n \in ToSet(Ahead(w, d - 1)) : w.fdOf[n] = peerfd
===============================================================================
