----------------------------- MODULE ReactorProofs -----------------------------
(***************************************************************************)
(* The reactor for any number of descriptors, connections, transfers and   *)
(* database connections of the workers, slots and hash buckets.  Inductive *)
(* invariants, each with one lemma per action: OwnInv, of the descriptors  *)
(* that the reactor shares with the workers, says nothing of the wheel,    *)
(* whose visits may close anything; TimedInv, of the wheel, holds next to  *)
(* it; WindowInv and CountdownInv add what holds while the workers hold    *)
(* few numbers, and until the first transfer and the first hang-up.  The   *)
(* lemmas on the operators of TimeWheel come first.                        *)
(***************************************************************************)
EXTENDS Reactor, SequenceTheorems, FiniteSetTheorems, FunctionTheorems,
        WellFoundedInduction, TLAPS

-------------------------------------------------------------------------------
(* Sequences, and what resizing moves *)

\* Induction on numbers, with the set of those for which a fact fails.
LEMMA NoneFails ==
  ASSUME NEW Bad \in SUBSET Nat, 0 \notin Bad, \A n \in Nat : n + 1 \in Bad => n \in Bad
  PROVE  Bad = {}
<1> SUFFICES ASSUME Bad # {} PROVE FALSE
  OBVIOUS
<1>1. PICK m \in Bad : \A n \in Bad : ~ (<<n, m>> \in OpToRel(<, Nat))
  BY NatLessThanWellFounded, WFMin
<1>2. m - 1 \in Nat /\ m = (m - 1) + 1
  OBVIOUS
<1>3. m - 1 \in Bad /\ m - 1 < m
  BY <1>2
<1>. QED BY <1>1, <1>2, <1>3 DEF OpToRel

\* The minimum of the library, for a set of numbers that is not empty.
LEMMA MinOf ==
  ASSUME NEW I \in SUBSET Nat, I # {}
  PROVE  Min(I) \in I /\ \A i \in I : Min(I) <= i
<1>1. PICK f \in I : \A g \in I : ~ (<<g, f>> \in OpToRel(<, Nat))
  BY NatLessThanWellFounded, WFMin
<1>2. ASSUME NEW g \in I PROVE f <= g
  BY <1>1, ~ (g < f) DEF OpToRel
<1>. QED BY <1>2 DEF Min

\* The first place that holds something with property P, in terms of the set of these places.
LEMMA FirstPlace ==
  ASSUME NEW n \in Nat, NEW I \in SUBSET (1..n), NEW k, k = IF I # {} THEN Min(I) ELSE 0
  PROVE  \/ k = 0 /\ I = {}
         \/ k \in I /\ \A i \in I : k <= i
  BY MinOf

\* A sequence without its place k.
LEMMA Without ==
  ASSUME NEW S, NEW s \in Seq(S), NEW k \in 1..Len(s)
  PROVE  /\ RemoveAt(s, k) \in Seq(S) /\ Len(RemoveAt(s, k)) = Len(s) - 1
         /\ \A i \in 1..(Len(s) - 1) : RemoveAt(s, k)[i] = IF i < k THEN s[i] ELSE s[i + 1]
<1>. DEFINE a == SubSeq(s, 1, k - 1)
            b == SubSeq(s, k + 1, Len(s))
<1>1. Len(s) \in Nat /\ k \in Nat /\ 1 <= k /\ k <= Len(s)
  OBVIOUS
<1>2. a \in Seq(S) /\ Len(a) = k - 1 /\ \A i \in 1..(k - 1) : a[i] = s[i]
  BY SubSeqProperties
<1>3. /\ b \in Seq(S) /\ Len(b) = Len(s) - k
      /\ \A i \in 1..(Len(s) - k) : b[i] = s[k + i]
  BY SubSeqProperties
<1>. HIDE DEF a, b
<1>4. a \o b \in Seq(S) /\ Len(a \o b) = Len(s) - 1
  <2>1. a \o b \in Seq(S) /\ Len(a \o b) = Len(a) + Len(b)
    BY <1>2, <1>3, ConcatProperties
  <2>. QED BY <1>1, <1>2, <1>3, <2>1
<1>5. ASSUME NEW i \in 1..(Len(s) - 1) PROVE (a \o b)[i] = IF i < k THEN s[i] ELSE s[i + 1]
  <2>1. i \in 1..(Len(a) + Len(b))
    BY <1>1, <1>2, <1>3
  <2>2. (a \o b)[i] = IF i <= Len(a) THEN a[i] ELSE b[i - Len(a)]
    BY <1>2, <1>3, <2>1, ConcatProperties
  <2>3. CASE i < k
    BY <1>1, <1>2, <2>2, <2>3
  <2>4. CASE ~ (i < k)
    <3>1. i - (k - 1) \in 1..(Len(s) - k) /\ ~ (i <= Len(a)) /\ k + (i - (k - 1)) = i + 1
      BY <1>1, <1>2, <2>4
    <3>. QED BY <1>2, <1>3, <2>2, <2>4, <3>1
  <2>. QED BY <2>3, <2>4
<1>. QED BY <1>4, <1>5 DEF RemoveAt, a, b

\* What two sequences hold together.
LEMMA ToSetConcat ==
  ASSUME NEW S, NEW s \in Seq(S), NEW t \in Seq(S)
  PROVE  ToSet(s \o t) = ToSet(s) \cup ToSet(t)
<1>1. /\ s \o t \in Seq(S) /\ Len(s \o t) = Len(s) + Len(t) /\ Len(s) \in Nat /\ Len(t) \in Nat
      /\ \A i \in 1..(Len(s) + Len(t)) :
           (s \o t)[i] = IF i <= Len(s) THEN s[i] ELSE t[i - Len(s)]
  BY ConcatProperties
<1>2. \A i \in 1..Len(s) : i \in 1..(Len(s) + Len(t)) /\ (s \o t)[i] = s[i]
  BY <1>1
<1>3. \A i \in 1..Len(t) : i + Len(s) \in 1..(Len(s) + Len(t)) /\ (s \o t)[i + Len(s)] = t[i]
  BY <1>1
<1>4. \A i \in 1..(Len(s) + Len(t)) : i \in 1..Len(s) \/ i - Len(s) \in 1..Len(t)
  BY <1>1
<1>5. DOMAIN (s \o t) = 1..(Len(s) + Len(t)) /\ DOMAIN s = 1..Len(s) /\ DOMAIN t = 1..Len(t)
  BY <1>1
<1>. DEFINE st == s \o t
<1>. HIDE DEF st
<1>6. \A i \in DOMAIN st : (\E j \in DOMAIN s : st[i] = s[j]) \/ (\E j \in DOMAIN t : st[i] = t[j])
  <2>. SUFFICES ASSUME NEW i \in DOMAIN st
                PROVE  (\E j \in DOMAIN s : st[i] = s[j]) \/ (\E j \in DOMAIN t : st[i] = t[j])
    OBVIOUS
  <2>1. CASE i \in 1..Len(s)
    BY <1>2, <1>5, <2>1 DEF st
  <2>2. CASE i - Len(s) \in 1..Len(t)
    <3>1. st[i] = t[i - Len(s)]
      BY <1>1, <1>5, <2>2 DEF st
    <3>. QED BY <1>5, <2>2, <3>1
  <2>. QED BY <1>4, <1>5, <2>1, <2>2 DEF st
<1>7. \A j \in DOMAIN s : \E i \in DOMAIN st : st[i] = s[j]
  BY <1>2, <1>5 DEF st
<1>8. \A j \in DOMAIN t : \E i \in DOMAIN st : st[i] = t[j]
  BY <1>3, <1>5 DEF st
<1>9. ToSet(st) = ToSet(s) \cup ToSet(t)
  BY <1>6, <1>7, <1>8 DEF ToSet
<1>. QED BY <1>9 DEF st

\* What is left is the rest of what was there.
LEMMA WithoutSet ==
  ASSUME NEW S, NEW s \in Seq(S), NEW k \in 1..Len(s)
  PROVE  /\ ToSet(RemoveAt(s, k)) \subseteq ToSet(s)
         /\ \A i \in 1..Len(s) : i # k => s[i] \in ToSet(RemoveAt(s, k))
<1>. DEFINE r == RemoveAt(s, k)
<1>1. /\ r \in Seq(S) /\ Len(r) = Len(s) - 1 /\ Len(s) \in Nat
      /\ \A i \in 1..(Len(s) - 1) : r[i] = IF i < k THEN s[i] ELSE s[i + 1]
  BY Without
<1>. HIDE DEF r
<1>2. DOMAIN r = 1..(Len(s) - 1) /\ DOMAIN s = 1..Len(s)
  BY <1>1
<1>3. \A i \in DOMAIN r : \E j \in DOMAIN s : r[i] = s[j]
  <2>1. \A i \in DOMAIN r : i \in DOMAIN s /\ i + 1 \in DOMAIN s
    BY <1>1, <1>2
  <2>. QED BY <1>1, <1>2, <2>1
<1>4. ASSUME NEW i \in 1..Len(s), i # k PROVE \E j \in DOMAIN r : r[j] = s[i]
  <2>1. CASE i < k
    BY <1>1, <1>2, <2>1
  <2>2. CASE i > k
    <3>1. i - 1 \in DOMAIN r /\ ~ (i - 1 < k) /\ (i - 1) + 1 = i
      BY <1>1, <1>2, <2>2
    <3>. QED BY <1>1, <1>2, <3>1
  <2>. QED BY <1>4, <2>1, <2>2
<1>. QED BY <1>3, <1>4 DEF ToSet, r

-------------------------------------------------------------------------------
(* Moved: its recursion is well founded, and what it returns *)

\* The value that the recursion of Moved gives the place i of g.
TakenStep(s, size, b, g, i) ==
  IF i = 0 THEN <<>>
  ELSE IF hashFunction(s[i].peerfd, size) = b THEN <<s[i]>> \o g[i - 1]
  ELSE g[i - 1]

\* The function that Moved takes a bucket's nodes with.
LEMMA TakenExists ==
  ASSUME NEW S, NEW s \in Seq(S), NEW size, NEW b
  PROVE  \E g : g = [i \in 0..Len(s) |-> TakenStep(s, size, b, g, i)]
<1>. DEFINE R(g, i) == TakenStep(s, size, b, g, i)
            Fun(m) == \E g : g = [i \in 0..m |-> R(g, i)]
<1>1. Fun(0)
  <2>1. [i \in 0..0 |-> <<>>] = [i \in 0..0 |-> R([j \in 0..0 |-> <<>>], i)]
    BY DEF TakenStep
  <2>. QED BY <2>1
<1>2. ASSUME NEW m \in Nat, Fun(m) PROVE Fun(m + 1)
  <2>1. PICK g : g = [i \in 0..m |-> R(g, i)]
    BY <1>2
  <2>. DEFINE h == [i \in 0..(m + 1) |-> IF i <= m THEN g[i] ELSE R(g, m + 1)]
  <2>2. \A i \in 0..m : g[i] = R(g, i)
    <3>. HIDE DEF R
    <3>. QED BY <2>1
  <2>3. /\ h = [i \in 0..(m + 1) |-> h[i]] /\ h[m + 1] = R(g, m + 1)
        /\ \A i \in 0..m : h[i] = g[i]
    <3>. HIDE DEF R
    <3>. QED OBVIOUS
  <2>. HIDE DEF h
  <2>4. ASSUME NEW i \in 0..(m + 1) PROVE h[i] = R(h, i)
    <3>1. i # 0 => i - 1 \in 0..m
      OBVIOUS
    <3>2. i # 0 => h[i - 1] = g[i - 1]
      BY <2>3, <3>1
    <3>3. R(h, i) = R(g, i)
      BY <3>2 DEF TakenStep
    <3>4. i \in 0..m \/ i = m + 1
      OBVIOUS
    <3>. HIDE DEF R
    <3>. QED BY <2>2, <2>3, <3>3, <3>4
  <2>5. h = [i \in 0..(m + 1) |-> R(h, i)]
    <3>. HIDE DEF R
    <3>. QED BY <2>3, <2>4
  <2>. QED BY <2>5
<1>. HIDE DEF Fun
<1>3. { m \in Nat : ~Fun(m) } = {}
  <2>. DEFINE Bad == { m \in Nat : ~Fun(m) }
  <2>1. 0 \notin Bad /\ \A m \in Nat : m + 1 \in Bad => m \in Bad
    BY <1>1, <1>2
  <2>2. Bad \in SUBSET Nat
    OBVIOUS
  <2>. HIDE DEF Bad
  <2>3. Bad = {}
    BY <2>1, <2>2, NoneFails
  <2>. QED BY <2>3 DEF Bad
<1>4. Len(s) \in Nat
  OBVIOUS
<1>5. Fun(Len(s))
  BY <1>3, <1>4
<1>. QED BY <1>5 DEF Fun

\* g collects what goes to bucket b of the first i nodes of s, the last one first.
Takes(g, s, size, b) ==
  /\ g[0] = <<>>
  /\ \A i \in 1..Len(s) :
       g[i] = IF hashFunction(s[i].peerfd, size) = b THEN <<s[i]>> \o g[i - 1] ELSE g[i - 1]

\* Moved, as the end of such a collection.
LEMMA TakenSteps ==
  ASSUME NEW S, NEW s \in Seq(S), NEW size, NEW b
  PROVE  \E g : Moved(s, size, b) = g[Len(s)] /\ Takes(g, s, size, b)
<1>. DEFINE R(g, i) == TakenStep(s, size, b, g, i)
            taken == CHOOSE g : g = [i \in 0..Len(s) |-> R(g, i)]
<1>1. Moved(s, size, b) = taken[Len(s)]
  BY DEF Moved, TakenStep
<1>2. taken = [i \in 0..Len(s) |-> R(taken, i)]
  <2>1. \E g : g = [i \in 0..Len(s) |-> R(g, i)]
    BY TakenExists
  <2>. HIDE DEF R
  <2>. QED BY <2>1
<1>. HIDE DEF taken
<1>3. \A i \in 0..Len(s) : taken[i] = R(taken, i)
  <2>. HIDE DEF R
  <2>. QED BY <1>2
<1>4. taken[0] = <<>>
  <2>1. 0 \in 0..Len(s)
    OBVIOUS
  <2>. QED BY <1>3, <2>1 DEF TakenStep
<1>5. ASSUME NEW i \in 1..Len(s) PROVE taken[i] = R(taken, i) /\ i # 0
  BY <1>3
<1>. QED BY <1>1, <1>4, <1>5 DEF TakenStep, Takes

\* The bucket's nodes for bucket b, all of them and no others.
LEMMA MovedSet ==
  ASSUME NEW S, NEW s \in Seq(S), NEW size, NEW b
  PROVE  /\ Moved(s, size, b) \in Seq(S)
         /\ ToSet(Moved(s, size, b)) = { e \in ToSet(s) : hashFunction(e.peerfd, size) = b }
<1>1. PICK g : Moved(s, size, b) = g[Len(s)] /\ Takes(g, s, size, b)
  BY TakenSteps
<1>. DEFINE First(i) == { e \in { s[j] : j \in 1..i } : hashFunction(e.peerfd, size) = b }
            Right(i) == g[i] \in Seq(S) /\ ToSet(g[i]) = First(i)
            Bad == { i \in 0..Len(s) : ~Right(i) }
<1>2. Right(0)
  BY <1>1 DEF ToSet, Takes
<1>3. ASSUME NEW i \in Nat, i + 1 \in 0..Len(s), Right(i) PROVE Right(i + 1)
  <2>1. i + 1 \in 1..Len(s) /\ (i + 1) - 1 = i /\ s[i + 1] \in S
    BY <1>3
  <2>2. { s[j] : j \in 1..(i + 1) } = { s[j] : j \in 1..i } \cup {s[i + 1]}
    OBVIOUS
  <2>3. CASE hashFunction(s[i + 1].peerfd, size) = b
    <3>1. g[i + 1] = <<s[i + 1]>> \o g[i]
      BY <1>1, <2>1, <2>3 DEF Takes
    <3>2. <<s[i + 1]>> \in Seq(S) /\ ToSet(<<s[i + 1]>>) = {s[i + 1]}
      BY <2>1 DEF ToSet
    <3>. DEFINE one == <<s[i + 1]>>
    <3>. HIDE DEF one
    <3>3. one \o g[i] \in Seq(S) /\ ToSet(one \o g[i]) = {s[i + 1]} \cup ToSet(g[i])
      <4>1. one \in Seq(S) /\ ToSet(one) = {s[i + 1]}
        BY <3>2 DEF one
      <4>2. g[i] \in Seq(S)
        BY <1>3
      <4>. QED BY <4>1, <4>2, ToSetConcat, ConcatProperties
    <3>4. g[i + 1] \in Seq(S) /\ ToSet(g[i + 1]) = {s[i + 1]} \cup ToSet(g[i])
      BY <3>1, <3>3 DEF one
    <3>. QED BY <1>3, <2>2, <2>3, <3>4
  <2>4. CASE ~ (hashFunction(s[i + 1].peerfd, size) = b)
    <3>1. g[i + 1] = g[i]
      BY <1>1, <2>1, <2>4 DEF Takes
    <3>. QED BY <1>3, <2>2, <2>4, <3>1
  <2>. QED BY <2>3, <2>4
<1>4. Bad = {}
  <2>1. Bad \in SUBSET Nat /\ 0 \notin Bad
    BY <1>2
  <2>2. \A i \in Nat : i + 1 \in Bad => i \in Bad
    <3>. HIDE DEF Right
    <3>. QED BY <1>3
  <2>. HIDE DEF Bad
  <2>. QED BY <2>1, <2>2, NoneFails
<1>5. Right(Len(s))
  <2>. HIDE DEF Right
  <2>. QED BY <1>4
<1>. QED BY <1>1, <1>5 DEF ToSet

-------------------------------------------------------------------------------
(* Numbers *)

\* Of nodes that all go to one of two buckets, none is lost or taken twice.
LEMMA MovedLengths ==
  ASSUME NEW S, NEW s \in Seq(S), NEW size, NEW b, NEW c, b # c,
         \A i \in 1..Len(s) : hashFunction(s[i].peerfd, size) \in {b, c}
  PROVE  Len(Moved(s, size, b)) + Len(Moved(s, size, c)) = Len(s)
<1>1. PICK g : Moved(s, size, b) = g[Len(s)] /\ Takes(g, s, size, b)
  BY TakenSteps
<1>2. PICK h : Moved(s, size, c) = h[Len(s)] /\ Takes(h, s, size, c)
  BY TakenSteps
<1>. DEFINE Right(i) == g[i] \in Seq(S) /\ h[i] \in Seq(S) /\ Len(g[i]) + Len(h[i]) = i
            Bad == { i \in 0..Len(s) : ~Right(i) }
<1>3. Right(0)
  BY <1>1, <1>2 DEF Takes
<1>4. ASSUME NEW i \in Nat, i + 1 \in 0..Len(s), Right(i) PROVE Right(i + 1)
  <2>1. i + 1 \in 1..Len(s) /\ (i + 1) - 1 = i /\ s[i + 1] \in S
    BY <1>4
  <2>. DEFINE one == <<s[i + 1]>>
  <2>2. one \in Seq(S) /\ Len(one) = 1
    BY <2>1
  <2>3. g[i + 1] = IF hashFunction(s[i + 1].peerfd, size) = b THEN one \o g[i] ELSE g[i]
    BY <1>1, <2>1 DEF Takes
  <2>4. h[i + 1] = IF hashFunction(s[i + 1].peerfd, size) = c THEN one \o h[i] ELSE h[i]
    BY <1>2, <2>1 DEF Takes
  <2>. HIDE DEF one
  <2>5. ASSUME NEW t \in Seq(S) PROVE one \o t \in Seq(S) /\ Len(one \o t) = 1 + Len(t)
    BY <2>2, ConcatProperties
  <2>6. g[i] \in Seq(S) /\ h[i] \in Seq(S) /\ Len(g[i]) + Len(h[i]) = i
    BY <1>4
  <2>. HIDE DEF Right
  <2>7. Len(g[i]) \in Nat /\ Len(h[i]) \in Nat
    BY <2>6
  <2>8. CASE hashFunction(s[i + 1].peerfd, size) = b
    <3>1. g[i + 1] = one \o g[i] /\ h[i + 1] = h[i]
      BY <2>3, <2>4, <2>8
    <3>2. one \o g[i] \in Seq(S) /\ Len(one \o g[i]) = 1 + Len(g[i])
      BY <2>5, <2>6
    <3>3. /\ g[i + 1] \in Seq(S) /\ Len(g[i + 1]) = 1 + Len(g[i])
          /\ h[i + 1] \in Seq(S) /\ Len(h[i + 1]) = Len(h[i])
      BY <2>6, <3>1, <3>2
    <3>. DEFINE x == Len(g[i])
                y == Len(h[i])
    <3>5. x \in Nat /\ y \in Nat /\ x + y = i
      BY <2>6, <2>7
    <3>. HIDE DEF x, y
    <3>6. (1 + x) + y = i + 1 /\ x + (1 + y) = i + 1
      BY <3>5
    <3>4. Len(g[i + 1]) + Len(h[i + 1]) = i + 1
      BY <3>3, <3>6, Zenon DEF x, y
    <3>. QED BY <2>6, <3>1, <3>3, <3>4 DEF Right
  <2>9. CASE hashFunction(s[i + 1].peerfd, size) = c
    <3>1. h[i + 1] = one \o h[i] /\ g[i + 1] = g[i]
      BY <2>3, <2>4, <2>9
    <3>2. one \o h[i] \in Seq(S) /\ Len(one \o h[i]) = 1 + Len(h[i])
      BY <2>5, <2>6
    <3>3. /\ h[i + 1] \in Seq(S) /\ Len(h[i + 1]) = 1 + Len(h[i])
          /\ g[i + 1] \in Seq(S) /\ Len(g[i + 1]) = Len(g[i])
      BY <2>6, <3>1, <3>2
    <3>. DEFINE x == Len(g[i])
                y == Len(h[i])
    <3>5. x \in Nat /\ y \in Nat /\ x + y = i
      BY <2>6, <2>7
    <3>. HIDE DEF x, y
    <3>6. (1 + x) + y = i + 1 /\ x + (1 + y) = i + 1
      BY <3>5
    <3>4. Len(g[i + 1]) + Len(h[i + 1]) = i + 1
      BY <3>3, <3>6, Zenon DEF x, y
    <3>. QED BY <2>6, <3>1, <3>3, <3>4 DEF Right
  <2>. QED BY <2>1, <2>8, <2>9
<1>5. Bad = {}
  <2>1. Bad \in SUBSET Nat /\ 0 \notin Bad
    <3>. HIDE DEF Right
    <3>. QED BY <1>3
  <2>2. \A i \in Nat : i + 1 \in Bad => i \in Bad
    <3>. HIDE DEF Right
    <3>. QED BY <1>4
  <2>. HIDE DEF Bad
  <2>. QED BY <2>1, <2>2, NoneFails
<1>6. Right(Len(s))
  <2>. HIDE DEF Right
  <2>. QED BY <1>5
<1>. QED BY <1>1, <1>2, <1>6

-------------------------------------------------------------------------------
(* Remainders *)

\* Quotient and remainder.
LEMMA Division ==
  ASSUME NEW s \in Nat \ {0}, NEW x \in Nat
  PROVE  \E q \in Nat, r \in 0..(s - 1) : x = s * q + r /\ r = x % s
<1>1. \E q, r \in Int : x = s * q + r /\ q = x \div s /\ r = x % s
  OBVIOUS
<1>2. PICK q, r \in Int : x = s * q + r /\ r = x % s
  BY <1>1
<1>3. r \in 0..(s - 1)
  BY <1>2
<1>4. q >= 0
  <2>1. SUFFICES ASSUME q <= -1 PROVE FALSE
    OBVIOUS
  <2>2. s * q <= s * (-1)
    BY <2>1
  <2>. QED BY <1>2, <1>3, <2>2
<1>5. q \in Nat
  BY <1>4
<1>. QED BY <1>2, <1>3, <1>5

\* The remainder is the only number of its kind.
LEMMA Remainder ==
  ASSUME NEW s \in Nat \ {0}, NEW q \in Nat, NEW t \in 0..(s - 1), NEW x, x = s * q + t
  PROVE  x % s = t
<1>1. x \in Nat
  <2>1. s * q \in Nat
    OBVIOUS
  <2>. QED BY <2>1
<1>2. PICK p \in Nat, r \in 0..(s - 1) : x = s * p + r /\ r = x % s
  BY <1>1, Division
<1>3. s * q + t = s * p + r
  BY <1>2
<1>4. CASE p >= q + 1
  <2>1. s * p >= s * (q + 1) /\ s * (q + 1) = s * q + s
    BY <1>4
  <2>. QED BY <1>3, <2>1
<1>5. CASE q >= p + 1
  <2>1. s * q >= s * (p + 1) /\ s * (p + 1) = s * p + s
    BY <1>5
  <2>. QED BY <1>3, <2>1
<1>6. CASE p = q
  <2>1. r = t
    BY <1>3, <1>6
  <2>. QED BY <1>2, <2>1
<1>. QED BY <1>4, <1>5, <1>6

\* Below the double of s.
LEMMA Below ==
  ASSUME NEW s \in Nat \ {0}, NEW x \in 0..(2 * s - 1)
  PROVE  x % s = IF x < s THEN x ELSE x - s
<1>1. CASE x < s
  <2>1. x = s * 0 + x /\ x \in 0..(s - 1)
    BY <1>1
  <2>. QED BY <1>1, <2>1, Remainder
<1>2. CASE ~ (x < s)
  <2>1. x = s * 1 + (x - s) /\ x - s \in 0..(s - 1)
    BY <1>2
  <2>. QED BY <1>2, <2>1, Remainder
<1>. QED BY <1>1, <1>2

\* A number's bucket in the doubled table decides its bucket in the old one.
LEMMA Doubled ==
  ASSUME NEW s \in Nat \ {0}, NEW x \in Nat
  PROVE  /\ x % (2 * s) \in 0..(2 * s - 1) /\ x % s \in 0..(s - 1)
         /\ (x % (2 * s)) % s = x % s
<1>1. PICK q \in Nat, r \in 0..(2 * s - 1) : x = (2 * s) * q + r /\ r = x % (2 * s)
  <2>. DEFINE d == 2 * s
  <2>1. d \in Nat \ {0}
    OBVIOUS
  <2>. HIDE DEF d
  <2>2. \E q \in Nat, r \in 0..(d - 1) : x = d * q + r /\ r = x % d
    BY <2>1, Division
  <2>. QED BY <2>2 DEF d
<1>2. PICK u \in Nat, t \in 0..(s - 1) : r = s * u + t /\ t = r % s
  <2>1. r \in Nat
    OBVIOUS
  <2>. QED BY <2>1, Division
<1>3. PICK v \in Nat : v = 2 * q + u
  OBVIOUS
<1>4. x = s * v + t
  <2>1. (2 * s) * q = s * (2 * q) /\ s * (2 * q + u) = s * (2 * q) + s * u
    OBVIOUS
  <2>2. PICK m, n \in Nat : m = s * (2 * q) /\ n = s * u
    OBVIOUS
  <2>3. x = m + r /\ r = n + t /\ s * v = m + n
    BY <1>1, <1>2, <1>3, <2>1, <2>2
  <2>. QED BY <2>3
<1>5. x % s = t
  BY <1>4, Remainder
<1>. QED BY <1>1, <1>2, <1>5

-------------------------------------------------------------------------------
(* The hash table *)

\* What is assumed of the wheel's constants.
LEMMA WheelConstants ==
  /\ WheelSize \in Nat \ {0} /\ Timeout \in 0..(WheelSize - 1)
  /\ InitialHashSize \in Nat \ {0} /\ Nodes \subseteq Nat /\ NULL \notin Nat /\ Fds \subseteq Nat
  BY TimeWheelAssumption, ReactorAssumption

\* The slots, and the hash nodes, of the wheel.
Slots == 0..(WheelSize - 1)
Entry == [peerfd : Fds, index : Slots]

\* A wheel with its fields, well formed and rightly counted.
GoodWheel(w) == IsWheel(w) /\ WellFormed(w) /\ CountsNodes(w) /\ IsFiniteSet(HashNodes(w))

\* f has a hash node.
Named(w, f) == \E e \in ToSet(BucketHead(w, f)) : e.peerfd = f

\* No descriptor has a hash node that had none, and the table has not shrunk.
NoneNamed(w, v) ==
  v.hashSize >= w.hashSize /\ \A g \in Fds : Named(v, g) => Named(w, g)

\* Only f may have a hash node that had none, and the table has grown if it was three
\* quarters full.
OnlyNamed(w, v, f) ==
  /\ v.hashSize = IF 4 * w.elementCount >= 3 * w.hashSize THEN 2 * w.hashSize ELSE w.hashSize
  /\ \A g \in Fds : Named(v, g) => g = f \/ Named(w, g)

\* e is the hash node of g that the table has.
InTable(w, g, e) == e \in ToSet(BucketHead(w, g)) /\ e.peerfd = g

\* No hash node is new.
NoneNew(w, v) == \A g \in Fds : \A e : InTable(v, g, e) => InTable(w, g, e)

\* One is, that of f for this slot.
OneNew(w, v, f, index) ==
  /\ v.elementCount = w.elementCount + 1
  /\ \A g \in Fds : \A e : InTable(v, g, e) => InTable(w, g, e) \/ e = [peerfd |-> f, index |-> index]

\* The lists are as they were.
SameLists(w, v) ==
  v.slots = w.slots /\ v.fdOf = w.fdOf /\ v.currentIndex = w.currentIndex

\* The fields of a wheel.
LEMMA Fields ==
  ASSUME NEW w, IsWheel(w)
  PROVE  /\ w.slots \in [Slots -> Seq(Nodes)] /\ w.fdOf \in [Nodes -> Fds \cup {NULL}]
         /\ w.hashTable \in [0..(w.hashSize - 1) -> Seq(Entry)] /\ w.hashSize \in Nat \ {0}
         /\ w.elementCount \in Nat /\ w.currentIndex \in Slots
  BY DEF IsWheel, Slots, Entry

\* p is the place of a node in a hash table of this size.
PlaceIn(h, size, p) == \E b \in 0..(size - 1) : \E i \in 1..Len(h[b]) : p = <<b, i>>

\* The places of the hash nodes, bucket by bucket.
LEMMA HashNodesOf ==
  ASSUME NEW w, IsWheel(w), NEW p
  PROVE  p \in HashNodes(w) <=> PlaceIn(w.hashTable, w.hashSize, p)
<1>1. /\ DOMAIN w.hashTable = 0..(w.hashSize - 1)
      /\ \A b \in 0..(w.hashSize - 1) : DOMAIN w.hashTable[b] = 1..Len(w.hashTable[b])
  BY Fields
<1>. QED BY <1>1 DEF HashNodes, PlaceIn

\* A descriptor hashes into the table.
LEMMA HashOf ==
  ASSUME NEW w, IsWheel(w), NEW f \in Fds
  PROVE  hashFunction(f, w.hashSize) \in 0..(w.hashSize - 1)
<1>1. w.hashSize \in Nat \ {0} /\ f \in Nat
  BY Fields, WheelConstants
<1>2. f % w.hashSize \in 0..(w.hashSize - 1)
  BY <1>1
<1>. QED BY <1>2 DEF hashFunction

\* The wheel with this bucket and this count.
Edited(w, b, q, n) == [w EXCEPT !.hashTable[b] = q, !.elementCount = n]

\* The buckets that an edit leaves alone, and the one it edits.
LEMMA EditBucket ==
  ASSUME NEW w, GoodWheel(w), NEW b \in 0..(w.hashSize - 1), NEW q \in Seq(Entry), NEW n \in Nat,
         \A e \in ToSet(q) : hashFunction(e.peerfd, w.hashSize) = b,
         NEW v, v = Edited(w, b, q, n)
  PROVE  /\ IsWheel(v) /\ WellFormed(v) /\ SameLists(w, v) /\ v.hashSize = w.hashSize
         /\ v.elementCount = n
         /\ v.hashTable = [w.hashTable EXCEPT ![b] = q]
<1>1. /\ w.slots \in [Slots -> Seq(Nodes)] /\ w.fdOf \in [Nodes -> Fds \cup {NULL}]
      /\ w.hashTable \in [0..(w.hashSize - 1) -> Seq(Entry)] /\ w.hashSize \in Nat \ {0}
      /\ w.elementCount \in Nat /\ w.currentIndex \in Slots
  BY Fields DEF GoodWheel
<1>2. /\ v.slots = w.slots /\ v.fdOf = w.fdOf /\ v.currentIndex = w.currentIndex
      /\ v.hashSize = w.hashSize /\ v.elementCount = n
      /\ v.hashTable = [w.hashTable EXCEPT ![b] = q]
  BY DEF GoodWheel, IsWheel, Edited
<1>3. v = [slots |-> v.slots, fdOf |-> v.fdOf, hashTable |-> v.hashTable, hashSize |-> v.hashSize,
           elementCount |-> v.elementCount, currentIndex |-> v.currentIndex]
  BY DEF GoodWheel, IsWheel, Edited
<1>4. v.hashTable \in [0..(v.hashSize - 1) -> Seq(Entry)]
  BY <1>1, <1>2
<1>5. IsWheel(v)
  BY <1>1, <1>2, <1>3, <1>4 DEF IsWheel, Entry, Slots
<1>6. ASSUME NEW c \in DOMAIN v.hashTable, NEW e \in ToSet(v.hashTable[c])
      PROVE  hashFunction(e.peerfd, v.hashSize) = c
  <2>1. c \in DOMAIN w.hashTable /\ v.hashTable[c] = IF c = b THEN q ELSE w.hashTable[c]
    BY <1>1, <1>2
  <2>. QED BY <1>2, <1>6, <2>1 DEF GoodWheel, WellFormed
<1>7. WellFormed(v)
  BY <1>2, <1>6 DEF GoodWheel, WellFormed
<1>. QED BY <1>2, <1>5, <1>7 DEF SameLists

\* deleteFromHashTable keeps the wheel good and every other descriptor's hash node.
LEMMA DeleteStep ==
  ASSUME NEW w, GoodWheel(w), NEW f \in Fds, NEW v, v = deleteFromHashTable(w, f)
  PROVE  /\ GoodWheel(v) /\ SameLists(w, v)
         /\ \A g \in Fds : g # f /\ Named(w, g) => Named(v, g)
         /\ NoneNamed(w, v) /\ NoneNew(w, v)
         /\ Named(w, f) => v.elementCount = w.elementCount - 1
<1>. DEFINE b == hashFunction(f, w.hashSize)
            s == w.hashTable[b]
            I == { i \in 1..Len(s) : s[i].peerfd = f }
            k == SelectInSeq(s, LAMBDA e : e.peerfd = f)
<1>1. b \in 0..(w.hashSize - 1)
  BY HashOf DEF GoodWheel
<1>2. s \in Seq(Entry) /\ Len(s) \in Nat /\ w.elementCount \in Nat
  BY <1>1, Fields DEF GoodWheel
<1>3. k = IF I # {} THEN Min(I) ELSE 0
  BY DEF SelectInSeq
<1>4. v = IF k = 0 THEN w
          ELSE [w EXCEPT !.hashTable[b] = RemoveAt(s, k), !.elementCount = w.elementCount - 1]
  BY DEF deleteFromHashTable
<1>5. CASE k = 0
  <2>1. NoneNamed(w, w)
    BY Fields DEF NoneNamed, GoodWheel
  <2>2. ~ Named(w, f)
    <3>1. I \in SUBSET (1..Len(s))
      OBVIOUS
    <3>2. I = {}
      <4>. HIDE DEF I, k
      <4>1. (k = 0 /\ I = {}) \/ k \in I
        BY <1>2, <1>3, <3>1, FirstPlace
      <4>2. 0 \notin I
        BY <3>1
      <4>. QED BY <1>5, <4>1, <4>2
    <3>. QED BY <1>2, <3>2 DEF Named, BucketHead, ToSet
  <2>. HIDE DEF I, k
  <2>. QED BY <1>4, <1>5, <2>1, <2>2 DEF SameLists, NoneNew
<1>6. CASE k # 0
  <2>1. k \in 1..Len(s) /\ s[k].peerfd = f
    <3>1. I \in SUBSET (1..Len(s))
      OBVIOUS
    <3>2. k \in I
      <4>. HIDE DEF I, k
      <4>. QED BY <1>2, <1>3, <1>6, <3>1, FirstPlace
    <3>. QED BY <3>2
  <2>. HIDE DEF k
  <2>. DEFINE q == RemoveAt(s, k)
              n == w.elementCount - 1
  <2>. HIDE DEF b
  <2>2. /\ q \in Seq(Entry) /\ Len(q) = Len(s) - 1 /\ ToSet(q) \subseteq ToSet(s)
        /\ \A i \in 1..Len(s) : i # k => s[i] \in ToSet(q)
    BY <1>2, <2>1, Without, WithoutSet
  <2>. DEFINE last == <<b, Len(s)>>
  <2>3. last \in HashNodes(w)
    <3>1. PlaceIn(w.hashTable, w.hashSize, last)
      BY <1>1, <1>2, <2>1 DEF PlaceIn
    <3>. QED BY <3>1, HashNodesOf DEF GoodWheel
  <2>4. n \in Nat
    <3>1. HashNodes(w) # {}
      BY <2>3
    <3>2. Cardinality(HashNodes(w)) # 0
      BY <3>1, FS_EmptySet DEF GoodWheel
    <3>. QED BY <1>2, <3>2 DEF GoodWheel, CountsNodes
  <2>. HIDE DEF q, n
  <2>5. v = Edited(w, b, q, n)
    BY <1>4, <1>6 DEF q, n, Edited
  <2>6. /\ IsWheel(v) /\ WellFormed(v) /\ SameLists(w, v) /\ v.hashSize = w.hashSize
        /\ v.elementCount = n /\ v.hashTable = [w.hashTable EXCEPT ![b] = q]
    <3>1. \A e \in ToSet(q) : hashFunction(e.peerfd, w.hashSize) = b
      <4>1. b \in DOMAIN w.hashTable
        BY <1>1, Fields DEF GoodWheel
      <4>. QED BY <2>2, <4>1 DEF GoodWheel, WellFormed
    <3>2. q \in Seq(Entry)
      BY <2>2
    <3>. QED BY <1>1, <2>4, <2>5, <3>1, <3>2, EditBucket
  <2>7. \A c \in 0..(w.hashSize - 1) : v.hashTable[c] = IF c = b THEN q ELSE w.hashTable[c]
    BY <2>6, Fields DEF GoodWheel
  <2>8. HashNodes(v) = HashNodes(w) \ {last}
    <3>1. ASSUME NEW p PROVE p \in HashNodes(v) <=> p \in HashNodes(w) /\ p # last
      <4>1. p \in HashNodes(v) <=> PlaceIn(v.hashTable, w.hashSize, p)
        BY <2>6, HashNodesOf
      <4>2. p \in HashNodes(w) <=> PlaceIn(w.hashTable, w.hashSize, p)
        BY HashNodesOf DEF GoodWheel
      <4>3. 1..Len(q) = (1..Len(s)) \ {Len(s)}
        BY <1>2, <2>1, <2>2
      <4>4. PlaceIn(v.hashTable, w.hashSize, p) <=> PlaceIn(w.hashTable, w.hashSize, p) /\ p # last
        BY <1>1, <2>7, <4>3 DEF PlaceIn
      <4>. QED BY <4>1, <4>2, <4>4
    <3>. QED BY <3>1
  <2>9. CountsNodes(v) /\ IsFiniteSet(HashNodes(v))
    <3>1. IsFiniteSet(HashNodes(w)) /\ w.elementCount = Cardinality(HashNodes(w))
      BY DEF GoodWheel, CountsNodes
    <3>2. IsFiniteSet(HashNodes(v)) /\ Cardinality(HashNodes(v)) = Cardinality(HashNodes(w)) - 1
      BY <2>3, <2>8, <3>1, FS_RemoveElement
    <3>. QED BY <2>6, <3>1, <3>2 DEF CountsNodes, n
  <2>10. ASSUME NEW g \in Fds, g # f, Named(w, g) PROVE Named(v, g)
    <3>. DEFINE c == hashFunction(g, w.hashSize)
    <3>1. c \in 0..(w.hashSize - 1)
      BY HashOf DEF GoodWheel
    <3>2. BucketHead(w, g) = w.hashTable[c] /\ BucketHead(v, g) = v.hashTable[c]
      BY <2>6 DEF BucketHead
    <3>3. PICK e \in ToSet(w.hashTable[c]) : e.peerfd = g
      BY <2>10, <3>2 DEF Named
    <3>. HIDE DEF c
    <3>4. CASE c = b
      <4>1. PICK i \in 1..Len(s) : s[i] = e
        BY <1>2, <3>3, <3>4 DEF ToSet
      <4>2. i # k
        BY <2>1, <2>10, <3>3, <4>1
      <4>3. e \in ToSet(q)
        BY <2>2, <4>1, <4>2
      <4>. QED BY <2>7, <3>1, <3>2, <3>3, <3>4, <4>3 DEF Named
    <3>5. CASE c # b
      BY <2>7, <3>1, <3>2, <3>3, <3>5 DEF Named
    <3>. QED BY <3>4, <3>5
  <2>11. ASSUME NEW g \in Fds, NEW e, InTable(v, g, e) PROVE InTable(w, g, e)
    <3>. DEFINE c == hashFunction(g, w.hashSize)
    <3>1. c \in 0..(w.hashSize - 1)
      BY HashOf DEF GoodWheel
    <3>2. BucketHead(w, g) = w.hashTable[c] /\ BucketHead(v, g) = v.hashTable[c]
      BY <2>6 DEF BucketHead
    <3>3. e \in ToSet(v.hashTable[c]) /\ e.peerfd = g
      BY <2>11, <3>2 DEF InTable
    <3>. HIDE DEF c
    <3>4. e \in ToSet(w.hashTable[c])
      BY <2>2, <2>7, <3>1, <3>3
    <3>. QED BY <3>2, <3>3, <3>4 DEF InTable
  <2>12. NoneNamed(w, v) /\ NoneNew(w, v)
    <3>1. v.hashSize = w.hashSize /\ w.hashSize \in Nat
      BY <2>6, Fields DEF GoodWheel
    <3>2. \A g \in Fds : Named(v, g) => Named(w, g)
      BY <2>11 DEF Named, InTable
    <3>. QED BY <2>11, <3>1, <3>2 DEF NoneNamed, NoneNew
  <2>13. v.elementCount = w.elementCount - 1
    BY <2>6 DEF n
  <2>. QED BY <2>6, <2>9, <2>10, <2>12, <2>13 DEF GoodWheel
<1>. QED BY <1>5, <1>6

\* A hash node that is put in front of its bucket keeps the wheel good.
LEMMA PutStep ==
  ASSUME NEW w, GoodWheel(w), NEW f \in Fds, NEW index \in Slots, NEW v,
         v = Edited(w, hashFunction(f, w.hashSize),
                    <<[peerfd |-> f, index |-> index]>> \o w.hashTable[hashFunction(f, w.hashSize)],
                    w.elementCount + 1)
  PROVE  /\ GoodWheel(v) /\ SameLists(w, v) /\ Named(v, f)
         /\ \A g \in Fds : Named(w, g) => Named(v, g)
         /\ v.hashSize = w.hashSize /\ \A g \in Fds : Named(v, g) => g = f \/ Named(w, g)
         /\ OneNew(w, v, f, index)
<1>. DEFINE b == hashFunction(f, w.hashSize)
            s == w.hashTable[b]
            e == [peerfd |-> f, index |-> index]
            one == <<e>>
            q == one \o s
            n == w.elementCount + 1
            last == <<b, Len(s) + 1>>
<1>1. b \in 0..(w.hashSize - 1)
  BY HashOf DEF GoodWheel
<1>2. s \in Seq(Entry) /\ Len(s) \in Nat /\ w.elementCount \in Nat /\ n \in Nat
  BY <1>1, Fields DEF GoodWheel
<1>3. e \in Entry /\ e.peerfd = f
  BY DEF Entry
<1>. HIDE DEF e
<1>4. one \in Seq(Entry) /\ Len(one) = 1 /\ ToSet(one) = {e}
  BY <1>3 DEF ToSet
<1>. HIDE DEF one
<1>5. q \in Seq(Entry) /\ Len(q) = Len(s) + 1 /\ ToSet(q) = {e} \cup ToSet(s)
  <2>1. q \in Seq(Entry) /\ Len(q) = Len(one) + Len(s)
    BY <1>2, <1>4, ConcatProperties
  <2>2. ToSet(q) = ToSet(one) \cup ToSet(s)
    BY <1>2, <1>4, ToSetConcat
  <2>. QED BY <1>2, <1>4, <2>1, <2>2
<1>6. v = Edited(w, b, q, n)
  BY DEF one, e
<1>. HIDE DEF b, q, n
<1>7. /\ IsWheel(v) /\ WellFormed(v) /\ SameLists(w, v) /\ v.hashSize = w.hashSize
      /\ v.elementCount = n /\ v.hashTable = [w.hashTable EXCEPT ![b] = q]
  <2>1. b \in DOMAIN w.hashTable
    BY <1>1, Fields DEF GoodWheel
  <2>2. \A x \in ToSet(q) : hashFunction(x.peerfd, w.hashSize) = b
    BY <1>3, <1>5, <2>1 DEF GoodWheel, WellFormed, b
  <2>3. q \in Seq(Entry) /\ n \in Nat
    BY <1>2, <1>5
  <2>. QED BY <1>1, <1>6, <2>2, <2>3, EditBucket
<1>8. \A c \in 0..(w.hashSize - 1) : v.hashTable[c] = IF c = b THEN q ELSE w.hashTable[c]
  BY <1>7, Fields DEF GoodWheel
<1>9. HashNodes(v) = HashNodes(w) \cup {last} /\ last \notin HashNodes(w)
  <2>1. 1..Len(q) = (1..Len(s)) \cup {Len(s) + 1} /\ Len(s) + 1 \notin 1..Len(s)
    BY <1>2, <1>5
  <2>2. ASSUME NEW p PROVE p \in HashNodes(v) <=> p \in HashNodes(w) \/ p = last
    <3>1. p \in HashNodes(v) <=> PlaceIn(v.hashTable, w.hashSize, p)
      BY <1>7, HashNodesOf
    <3>2. p \in HashNodes(w) <=> PlaceIn(w.hashTable, w.hashSize, p)
      BY HashNodesOf DEF GoodWheel
    <3>3. PlaceIn(v.hashTable, w.hashSize, p) <=> PlaceIn(w.hashTable, w.hashSize, p) \/ p = last
      BY <1>1, <1>8, <2>1 DEF PlaceIn
    <3>. QED BY <3>1, <3>2, <3>3
  <2>3. ~ PlaceIn(w.hashTable, w.hashSize, last)
    BY <2>1 DEF PlaceIn
  <2>4. last \notin HashNodes(w)
    BY <2>3, HashNodesOf DEF GoodWheel
  <2>. QED BY <2>2, <2>4
<1>10. CountsNodes(v) /\ IsFiniteSet(HashNodes(v))
  <2>1. IsFiniteSet(HashNodes(w)) /\ w.elementCount = Cardinality(HashNodes(w))
    BY DEF GoodWheel, CountsNodes
  <2>2. IsFiniteSet(HashNodes(v)) /\ Cardinality(HashNodes(v)) = Cardinality(HashNodes(w)) + 1
    BY <1>9, <2>1, FS_AddElement
  <2>. QED BY <1>7, <2>1, <2>2 DEF CountsNodes, n
<1>11. ASSUME NEW g \in Fds, g = f \/ Named(w, g) PROVE Named(v, g)
  <2>. DEFINE c == hashFunction(g, w.hashSize)
  <2>1. c \in 0..(w.hashSize - 1)
    BY HashOf DEF GoodWheel
  <2>2. BucketHead(w, g) = w.hashTable[c] /\ BucketHead(v, g) = v.hashTable[c]
    BY <1>7 DEF BucketHead
  <2>3. CASE g = f
    <3>1. c = b
      BY <2>3 DEF b
    <3>. QED BY <1>3, <1>5, <1>8, <2>1, <2>2, <2>3, <3>1 DEF Named
  <2>4. CASE Named(w, g)
    <3>1. PICK x \in ToSet(w.hashTable[c]) : x.peerfd = g
      BY <2>2, <2>4 DEF Named
    <3>. HIDE DEF c
    <3>2. x \in ToSet(v.hashTable[c])
      BY <1>5, <1>8, <2>1, <3>1
    <3>. QED BY <2>2, <3>1, <3>2 DEF Named
  <2>. QED BY <1>11, <2>3, <2>4
<1>12. ASSUME NEW g \in Fds, NEW x, InTable(v, g, x), x # e PROVE InTable(w, g, x)
  <2>. DEFINE c == hashFunction(g, w.hashSize)
  <2>1. c \in 0..(w.hashSize - 1)
    BY HashOf DEF GoodWheel
  <2>2. BucketHead(w, g) = w.hashTable[c] /\ BucketHead(v, g) = v.hashTable[c]
    BY <1>7 DEF BucketHead
  <2>3. x \in ToSet(v.hashTable[c]) /\ x.peerfd = g
    BY <1>12, <2>2 DEF InTable
  <2>. HIDE DEF c
  <2>4. x \in ToSet(w.hashTable[c])
    BY <1>5, <1>8, <1>12, <2>1, <2>3
  <2>. QED BY <2>2, <2>3, <2>4 DEF InTable
<1>13. \A g \in Fds : Named(v, g) => g = f \/ Named(w, g)
  BY <1>3, <1>12 DEF Named, InTable
<1>14. OneNew(w, v, f, index)
  BY <1>7, <1>12 DEF OneNew, n, e
<1>. QED BY <1>7, <1>10, <1>11, <1>13, <1>14 DEF GoodWheel

\* Doubling the table moves every node, and loses none.
LEMMA ResizeStep ==
  ASSUME NEW w, GoodWheel(w), NEW v, v = resizeHashTable(w)
  PROVE  /\ GoodWheel(v) /\ SameLists(w, v) /\ v.elementCount = w.elementCount
         /\ \A g \in Fds : Named(w, g) => Named(v, g)
         /\ v.hashSize = 2 * w.hashSize /\ \A g \in Fds : Named(v, g) => Named(w, g)
         /\ NoneNew(w, v)
<1>. DEFINE s == w.hashSize
            size == 2 * s
            To(b) == Moved(w.hashTable[b % s], size, b)
<1>1. /\ w.slots \in [Slots -> Seq(Nodes)] /\ w.fdOf \in [Nodes -> Fds \cup {NULL}]
      /\ w.hashTable \in [0..(s - 1) -> Seq(Entry)] /\ s \in Nat \ {0}
      /\ w.elementCount \in Nat /\ w.currentIndex \in Slots
  BY Fields DEF GoodWheel
<1>2. /\ v.slots = w.slots /\ v.fdOf = w.fdOf /\ v.currentIndex = w.currentIndex
      /\ v.hashSize = size /\ v.elementCount = w.elementCount
      /\ v.hashTable = [b \in 0..(size - 1) |-> To(b)]
  BY DEF GoodWheel, IsWheel, resizeHashTable
<1>3. v = [slots |-> v.slots, fdOf |-> v.fdOf, hashTable |-> v.hashTable, hashSize |-> v.hashSize,
           elementCount |-> v.elementCount, currentIndex |-> v.currentIndex]
  BY DEF GoodWheel, IsWheel, resizeHashTable
<1>. HIDE DEF s
<1>4. size \in Nat \ {0} /\ s \in Nat \ {0}
  BY <1>1
<1>5. ASSUME NEW b \in 0..(size - 1)
      PROVE  b % s \in 0..(s - 1) /\ b % s = IF b < s THEN b ELSE b - s
  <2>1. b % s = IF b < s THEN b ELSE b - s
    BY <1>4, Below
  <2>. QED BY <1>4, <2>1
<1>6. ASSUME NEW b \in 0..(size - 1)
      PROVE  /\ To(b) \in Seq(Entry)
             /\ ToSet(To(b)) = { e \in ToSet(w.hashTable[b % s]) : hashFunction(e.peerfd, size) = b }
  <2>1. w.hashTable[b % s] \in Seq(Entry)
    BY <1>1, <1>5
  <2>. HIDE DEF size
  <2>. QED BY <2>1, MovedSet
<1>. HIDE DEF To
<1>7. IsWheel(v)
  <2>1. v.hashTable \in [0..(v.hashSize - 1) -> Seq(Entry)]
    BY <1>2, <1>6
  <2>. QED BY <1>1, <1>2, <1>3, <1>4, <2>1 DEF IsWheel, Entry, Slots
<1>8. WellFormed(v)
  <2>1. ASSUME NEW b \in DOMAIN v.hashTable, NEW e \in ToSet(v.hashTable[b])
        PROVE  hashFunction(e.peerfd, v.hashSize) = b
    BY <1>2, <1>6, <2>1
  <2>. QED BY <1>2, <2>1 DEF GoodWheel, WellFormed
<1>9. ASSUME NEW g \in Fds PROVE \A e : InTable(w, g, e) <=> InTable(v, g, e)
  <2>1. g \in Nat
    BY WheelConstants
  <2>. DEFINE c == hashFunction(g, s)
              d == hashFunction(g, size)
  <2>2. c \in 0..(s - 1) /\ d \in 0..(size - 1) /\ d % s = c
    BY <1>4, <2>1, Doubled DEF hashFunction
  <2>3. BucketHead(w, g) = w.hashTable[c] /\ BucketHead(v, g) = v.hashTable[d]
    BY <1>2 DEF BucketHead, s
  <2>4. v.hashTable[d] = To(d)
    BY <1>2, <2>2
  <2>5. \A e : e \in ToSet(To(d)) <=> e \in ToSet(w.hashTable[c]) /\ hashFunction(e.peerfd, size) = d
    BY <1>6, <2>2
  <2>6. ASSUME NEW e, e.peerfd = g PROVE e \in ToSet(w.hashTable[c]) <=> e \in ToSet(v.hashTable[d])
    BY <2>4, <2>5, <2>6
  <2>. HIDE DEF c, d
  <2>. QED BY <2>3, <2>6 DEF InTable
<1>10. ASSUME NEW c \in 0..(s - 1)
       PROVE  /\ c \in 0..(size - 1) /\ c + s \in 0..(size - 1)
              /\ Len(To(c)) \in Nat /\ Len(To(c + s)) \in Nat
              /\ Len(To(c)) + Len(To(c + s)) = Len(w.hashTable[c])
  <2>1. c \in 0..(size - 1) /\ c + s \in 0..(size - 1) /\ c # c + s
    BY <1>4
  <2>2. c % s = c /\ (c + s) % s = c
    BY <1>4, <1>5, <2>1
  <2>3. Len(To(c)) \in Nat /\ Len(To(c + s)) \in Nat
    BY <1>6, <2>1
  <2>4. w.hashTable[c] \in Seq(Entry)
    BY <1>1
  <2>5. ASSUME NEW i \in 1..Len(w.hashTable[c])
        PROVE  hashFunction(w.hashTable[c][i].peerfd, size) \in {c, c + s}
    <3>. DEFINE e == w.hashTable[c][i]
                d == e.peerfd % size
    <3>1. e \in ToSet(w.hashTable[c]) /\ e.peerfd \in Nat
      <4>1. e \in Entry
        BY <2>4
      <4>2. e.peerfd \in Fds
        BY <4>1 DEF Entry
      <4>3. e \in ToSet(w.hashTable[c])
        BY <2>4 DEF ToSet
      <4>. QED BY <4>2, <4>3, WheelConstants
    <3>2. c \in DOMAIN w.hashTable
      BY <1>1
    <3>3. e.peerfd % s = c
      BY <3>1, <3>2 DEF GoodWheel, WellFormed, hashFunction, s
    <3>. HIDE DEF e
    <3>4. d \in 0..(size - 1) /\ d % s = c
      BY <1>4, <3>1, <3>3, Doubled
    <3>. HIDE DEF d
    <3>6. d % s = IF d < s THEN d ELSE d - s
      BY <1>5, <3>4
    <3>5. d = c \/ d = c + s
      BY <1>4, <3>4, <3>6
    <3>. QED BY <3>5 DEF d, e, hashFunction
  <2>6. To(c) = Moved(w.hashTable[c], size, c) /\ To(c + s) = Moved(w.hashTable[c], size, c + s)
    BY <2>2 DEF To
  <2>. HIDE DEF size
  <2>7. Len(To(c)) + Len(To(c + s)) = Len(w.hashTable[c])
    <3>1. PICK b, t : b = c + s /\ t = w.hashTable[c]
      OBVIOUS
    <3>2. t \in Seq(Entry) /\ c # b /\ \A i \in 1..Len(t) : hashFunction(t[i].peerfd, size) \in {c, b}
      BY <2>1, <2>4, <2>5, <3>1
    <3>3. Len(Moved(t, size, c)) + Len(Moved(t, size, b)) = Len(t)
      BY <3>2, MovedLengths
    <3>. QED BY <2>6, <3>1, <3>3
  <2>. QED BY <2>1, <2>3, <2>7
<1>11. IsFiniteSet(HashNodes(v)) /\ Cardinality(HashNodes(v)) = Cardinality(HashNodes(w))
  <2>. DEFINE H == HashNodes(v)
              G == HashNodes(w)
              Old(b, i) == IF b < s THEN <<b, i>> ELSE <<b - s, Len(To(b - s)) + i>>
              F == [p \in H |-> Old(p[1], p[2])]
  <2>1. ASSUME NEW p
        PROVE  p \in H <=> \E b \in 0..(size - 1) : \E i \in 1..Len(To(b)) : p = <<b, i>>
    <3>1. p \in H <=> PlaceIn(v.hashTable, size, p)
      BY <1>2, <1>7, HashNodesOf
    <3>2. \A b \in 0..(size - 1) : v.hashTable[b] = To(b)
      BY <1>2
    <3>. QED BY <3>1, <3>2 DEF PlaceIn
  <2>2. ASSUME NEW p
        PROVE  p \in G <=> \E c \in 0..(s - 1) : \E i \in 1..Len(w.hashTable[c]) : p = <<c, i>>
    <3>1. p \in G <=> PlaceIn(w.hashTable, s, p)
      BY HashNodesOf DEF GoodWheel, s
    <3>. QED BY <3>1 DEF PlaceIn
  <2>. HIDE DEF G, H
  <2>3. ASSUME NEW b \in 0..(size - 1), NEW i \in 1..Len(To(b)) PROVE Old(b, i) \in G
    <3>1. i \in Nat /\ i >= 1 /\ Len(To(b)) \in Nat /\ i <= Len(To(b))
      BY <1>6
    <3>2. CASE b < s
      <4>1. b \in 0..(s - 1) /\ i \in 1..Len(w.hashTable[b])
        <5>1. b \in 0..(s - 1)
          BY <1>4, <3>2
        <5>2. Len(To(b)) <= Len(w.hashTable[b])
          BY <1>10, <5>1
        <5>. QED BY <1>10, <3>1, <5>1, <5>2
      <4>. QED BY <2>2, <3>2, <4>1
    <3>3. CASE ~ (b < s)
      <4>. DEFINE c == b - s
                  j == Len(To(c)) + i
      <4>1. c \in 0..(s - 1) /\ c + s = b
        BY <1>4, <3>3
      <4>. HIDE DEF c
      <4>2. j \in 1..Len(w.hashTable[c])
        BY <1>10, <3>1, <4>1
      <4>3. Old(b, i) = <<c, j>>
        BY <3>3 DEF c
      <4>. HIDE DEF j
      <4>. QED BY <2>2, <4>1, <4>2, <4>3
    <3>. QED BY <3>2, <3>3
  <2>4. F \in [H -> G]
    <3>1. \A p \in H : Old(p[1], p[2]) \in G
      <4>. HIDE DEF Old
      <4>. QED BY <2>1, <2>3
    <3>. HIDE DEF Old
    <3>. QED BY <3>1
  <2>5. ASSUME NEW b \in 0..(size - 1), NEW i \in 1..Len(To(b)),
               NEW c \in 0..(size - 1), NEW j \in 1..Len(To(c)), Old(b, i) = Old(c, j)
        PROVE  b = c /\ i = j
    <3>1. i \in Nat /\ i >= 1 /\ Len(To(b)) \in Nat /\ i <= Len(To(b))
          /\ j \in Nat /\ j >= 1 /\ Len(To(c)) \in Nat /\ j <= Len(To(c))
      BY <1>6
    <3>2. CASE b < s /\ c < s
      BY <2>5, <3>2
    <3>3. CASE b < s /\ ~ (c < s)
      <4>1. b = c - s /\ i = Len(To(c - s)) + j
        BY <2>5, <3>3
      <4>. QED BY <3>1, <4>1
    <3>4. CASE ~ (b < s) /\ c < s
      <4>1. c = b - s /\ j = Len(To(b - s)) + i
        BY <2>5, <3>4
      <4>. QED BY <3>1, <4>1
    <3>5. CASE ~ (b < s) /\ ~ (c < s)
      <4>1. b - s = c - s /\ Len(To(b - s)) + i = Len(To(c - s)) + j
        BY <2>5, <3>5
      <4>2. b = c
        BY <1>4, <4>1
      <4>3. b - s \in 0..(s - 1)
        BY <1>4, <3>5
      <4>4. Len(To(b - s)) \in Nat
        BY <1>10, <4>3
      <4>. QED BY <3>1, <4>1, <4>2, <4>4
    <3>. QED BY <3>2, <3>3, <3>4, <3>5
  <2>6. \A p, q \in H : F[p] = F[q] => p = q
    <3>. HIDE DEF Old
    <3>. SUFFICES ASSUME NEW p \in H, NEW q \in H, Old(p[1], p[2]) = Old(q[1], q[2]) PROVE p = q
      OBVIOUS
    <3>1. PICK b \in 0..(size - 1) : \E i \in 1..Len(To(b)) : p = <<b, i>>
      BY <2>1
    <3>2. PICK i \in 1..Len(To(b)) : p = <<b, i>>
      BY <3>1
    <3>3. PICK c \in 0..(size - 1) : \E j \in 1..Len(To(c)) : q = <<c, j>>
      BY <2>1
    <3>4. PICK j \in 1..Len(To(c)) : q = <<c, j>>
      BY <3>3
    <3>5. Old(b, i) = Old(c, j)
      BY <3>2, <3>4
    <3>. QED BY <2>5, <3>2, <3>4, <3>5
  <2>7. ASSUME NEW t \in G PROVE \E p \in H : F[p] = t
    <3>1. PICK c \in 0..(s - 1) : \E i \in 1..Len(w.hashTable[c]) : t = <<c, i>>
      BY <2>2
    <3>2. PICK i \in 1..Len(w.hashTable[c]) : t = <<c, i>>
      BY <3>1
    <3>3. i \in Nat /\ i >= 1 /\ i <= Len(To(c)) + Len(To(c + s))
      BY <1>10, <3>2
    <3>4. CASE i <= Len(To(c))
      <4>1. i \in 1..Len(To(c)) /\ c < s
        BY <1>4, <1>10, <3>3, <3>4
      <4>2. <<c, i>> \in H
        BY <1>10, <2>1, <4>1
      <4>3. F[<<c, i>>] = <<c, i>>
        BY <4>1, <4>2
      <4>. QED BY <3>2, <4>2, <4>3
    <3>5. CASE ~ (i <= Len(To(c)))
      <4>. DEFINE b == c + s
                  j == i - Len(To(c))
      <4>1. j \in 1..Len(To(b)) /\ ~ (b < s) /\ b - s = c /\ Len(To(c)) + j = i
        BY <1>4, <1>10, <3>3, <3>5
      <4>2. b \in 0..(size - 1)
        BY <1>10
      <4>. HIDE DEF b, j
      <4>3. <<b, j>> \in H
        BY <2>1, <4>1, <4>2
      <4>4. F[<<b, j>>] = <<c, i>>
        BY <4>1, <4>3
      <4>. QED BY <3>2, <4>3, <4>4
    <3>. QED BY <3>4, <3>5
  <2>. HIDE DEF F
  <2>8. F \in Bijection(H, G)
    BY <2>4, <2>6, <2>7, Fun_IsBij
  <2>9. F \in Injection(H, G) /\ F \in Surjection(H, G)
    BY <2>8 DEF Bijection
  <2>10. IsFiniteSet(G)
    BY DEF GoodWheel, G
  <2>11. IsFiniteSet(H) /\ Cardinality(H) = Cardinality(G)
    BY <2>9, <2>10, FS_Injection
  <2>. QED BY <2>11 DEF G, H
<1>12. CountsNodes(v)
  BY <1>2, <1>11 DEF CountsNodes, GoodWheel
<1>13. v.hashSize = 2 * w.hashSize
  BY <1>2 DEF s
<1>14. NoneNew(w, v) /\ \A g \in Fds : Named(w, g) <=> Named(v, g)
  BY <1>9 DEF NoneNew, Named, InTable
<1>. QED BY <1>2, <1>7, <1>8, <1>11, <1>12, <1>13, <1>14 DEF GoodWheel, SameLists

-------------------------------------------------------------------------------
(* The lists of the slots *)

\* The places of the lists: no node has two.
OnceListed(w) ==
  \A i, j \in Slots : \A k \in 1..Len(w.slots[i]), l \in 1..Len(w.slots[j]) :
    w.slots[i][k] = w.slots[j][l] => i = j /\ k = l

\* n is in list i.
Listed(w, i, n) == \E k \in 1..Len(w.slots[i]) : w.slots[i][k] = n

\* The nodes of the lists are allocated.
Allocated(w) == \A i \in Slots : \A n : Listed(w, i, n) => w.fdOf[n] # NULL

\* The lists, and what they hold.
LEMMA ListsOf ==
  ASSUME NEW w, IsWheel(w)
  PROVE  /\ DOMAIN w.slots = Slots /\ DOMAIN w.fdOf = Nodes
         /\ \A i \in Slots : /\ w.slots[i] \in Seq(Nodes) /\ Len(w.slots[i]) \in Nat
                             /\ DOMAIN w.slots[i] = 1..Len(w.slots[i])
                             /\ \A n : n \in ToSet(w.slots[i]) <=> Listed(w, i, n)
                             /\ \A k \in 1..Len(w.slots[i]) : w.slots[i][k] \in Nodes
<1>1. w.slots \in [Slots -> Seq(Nodes)] /\ w.fdOf \in [Nodes -> Fds \cup {NULL}]
  BY Fields
<1>2. ASSUME NEW i \in Slots
      PROVE  /\ w.slots[i] \in Seq(Nodes) /\ Len(w.slots[i]) \in Nat
             /\ DOMAIN w.slots[i] = 1..Len(w.slots[i])
             /\ \A k \in 1..Len(w.slots[i]) : w.slots[i][k] \in Nodes
  BY <1>1
<1>. QED BY <1>1, <1>2 DEF ToSet, Listed

\* WellFormed, in terms of what the lists hold.
LEMMA WellFormedOf ==
  ASSUME NEW w, IsWheel(w)
  PROVE  WellFormed(w) <=>
           /\ OnceListed(w)
           /\ \A i \in Slots : \A n : Listed(w, i, n) => w.fdOf[n] # NULL
           /\ \A b \in DOMAIN w.hashTable : \A e \in ToSet(w.hashTable[b]) :
                hashFunction(e.peerfd, w.hashSize) = b
  BY ListsOf DEF WellFormed, OnceListed

\* The hash table is as it was.
SameTable(w, v) ==
  v.hashTable = w.hashTable /\ v.hashSize = w.hashSize /\ v.elementCount = w.elementCount

\* The wheel with these lists.
Relisted(w, v, slots, fdOf, index) ==
  v = [w EXCEPT !.slots = slots, !.fdOf = fdOf, !.currentIndex = index]

\* v is a good wheel, if its lists are.
GoodButLists(w, v, slots, fdOf, index) ==
  /\ IsWheel(v) /\ v.slots = slots /\ v.fdOf = fdOf /\ v.currentIndex = index
  /\ SameTable(w, v)
  /\ OnceListed(v) /\ Allocated(v) => GoodWheel(v)
  /\ \A g \in Fds : Named(w, g) <=> Named(v, g)
  /\ NoneNamed(w, v)

\* What a change of the lists alone leaves of a good wheel.
LEMMA RelistStep ==
  ASSUME NEW w, GoodWheel(w), NEW slots \in [Slots -> Seq(Nodes)],
         NEW fdOf \in [Nodes -> Fds \cup {NULL}], NEW index \in Slots,
         NEW v, Relisted(w, v, slots, fdOf, index)
  PROVE  GoodButLists(w, v, slots, fdOf, index)
<1>1. /\ w.hashTable \in [0..(w.hashSize - 1) -> Seq(Entry)] /\ w.hashSize \in Nat \ {0}
      /\ w.elementCount \in Nat
  BY Fields DEF GoodWheel
<1>2. /\ v.slots = slots /\ v.fdOf = fdOf /\ v.currentIndex = index /\ SameTable(w, v)
      /\ v = [slots |-> v.slots, fdOf |-> v.fdOf, hashTable |-> v.hashTable, hashSize |-> v.hashSize,
              elementCount |-> v.elementCount, currentIndex |-> v.currentIndex]
  BY DEF GoodWheel, IsWheel, Relisted, SameTable
<1>3. IsWheel(v)
  BY <1>1, <1>2 DEF IsWheel, SameTable, Slots, Entry
<1>4. \A g \in Fds : Named(w, g) <=> Named(v, g)
  BY <1>2 DEF Named, BucketHead, SameTable
<1>5. CountsNodes(v) /\ IsFiniteSet(HashNodes(v))
  <2>1. HashNodes(v) = HashNodes(w)
    BY <1>2 DEF HashNodes, SameTable
  <2>. QED BY <1>2, <2>1 DEF GoodWheel, CountsNodes, SameTable
<1>6. ASSUME OnceListed(v), Allocated(v)
      PROVE  GoodWheel(v)
  <2>1. \A b \in DOMAIN w.hashTable : \A e \in ToSet(w.hashTable[b]) :
          hashFunction(e.peerfd, w.hashSize) = b
    BY DEF GoodWheel, WellFormed
  <2>2. WellFormed(v)
    BY <1>2, <1>3, <1>6, <2>1, WellFormedOf DEF SameTable, Allocated
  <2>. QED BY <1>3, <1>5, <2>2 DEF GoodWheel
<1>7. NoneNamed(w, v)
  BY <1>1, <1>2, <1>4 DEF NoneNamed, SameTable
<1>. QED BY <1>2, <1>3, <1>4, <1>6, <1>7 DEF GoodButLists

-------------------------------------------------------------------------------
(* Removal *)

\* The node at place k of list i, the first of f there, has been unlinked and freed.
UnlinkedAt(w, v, f, i, k) ==
  /\ w.fdOf[w.slots[i][k]] = f
  /\ \A l \in 1..Len(w.slots[i]) : w.fdOf[w.slots[i][l]] = f => k <= l
  /\ v.slots = [w.slots EXCEPT ![i] = RemoveAt(w.slots[i], k)]
  /\ v.fdOf = [w.fdOf EXCEPT ![w.slots[i][k]] = NULL]
  /\ v.currentIndex = w.currentIndex

\* At most one list node of f went, the first one of its list.
Removed(w, v, f) ==
  \/ SameLists(w, v)
  \/ \E i \in Slots : \E k \in 1..Len(w.slots[i]) : UnlinkedAt(w, v, f, i, k)

\* Where a place of the new lists was in the old ones.
Was(i, k, j, l) == IF j = i /\ l >= k THEN l + 1 ELSE l

\* The lists when the place k of list i is gone.
Places(w, v, i, k) ==
  /\ v.slots[i] \in Seq(Nodes) /\ Len(v.slots[i]) = Len(w.slots[i]) - 1
  /\ \A j \in Slots \ {i} : v.slots[j] = w.slots[j]
  /\ \A j \in Slots : \A l \in 1..Len(v.slots[j]) :
       /\ Was(i, k, j, l) \in 1..Len(w.slots[j])
       /\ v.slots[j][l] = w.slots[j][Was(i, k, j, l)]
       /\ ~ (j = i /\ Was(i, k, j, l) = k)
  /\ \A l \in 1..Len(w.slots[i]) : l # k => Listed(v, i, w.slots[i][l])

\* Unlinking takes one place away and nothing else.
LEMMA UnlinkedPlaces ==
  ASSUME NEW w, IsWheel(w), NEW v, NEW f, NEW i \in Slots, NEW k \in 1..Len(w.slots[i]),
         UnlinkedAt(w, v, f, i, k)
  PROVE  Places(w, v, i, k)
<1>. DEFINE s == w.slots[i]
<1>1. s \in Seq(Nodes) /\ Len(s) \in Nat /\ w.slots \in [Slots -> Seq(Nodes)]
  BY Fields
<1>2. \A j \in Slots : v.slots[j] = IF j = i THEN RemoveAt(s, k) ELSE w.slots[j]
  BY <1>1 DEF UnlinkedAt
<1>. DEFINE r == RemoveAt(s, k)
<1>3. /\ r \in Seq(Nodes) /\ Len(r) = Len(s) - 1
      /\ \A l \in 1..(Len(s) - 1) : r[l] = IF l < k THEN s[l] ELSE s[l + 1]
  BY <1>1, Without
<1>4. \A l \in 1..Len(s) : l # k => s[l] \in ToSet(r)
  BY <1>1, WithoutSet
<1>. HIDE DEF s, r
<1>5. v.slots[i] = r
  BY <1>2 DEF r
<1>6. \A l \in 1..Len(s) : l # k => Listed(v, i, s[l])
  <2>1. DOMAIN r = 1..Len(r)
    BY <1>3
  <2>. QED BY <1>4, <1>5, <2>1 DEF ToSet, Listed
<1>7. ASSUME NEW j \in Slots, NEW l \in 1..Len(v.slots[j])
      PROVE  /\ Was(i, k, j, l) \in 1..Len(w.slots[j])
             /\ v.slots[j][l] = w.slots[j][Was(i, k, j, l)]
             /\ ~ (j = i /\ Was(i, k, j, l) = k)
  <2>1. CASE j # i
    BY <1>2, <2>1, <1>7 DEF Was
  <2>2. CASE j = i
    <3>1. l \in 1..(Len(s) - 1) /\ k \in 1..Len(s) /\ Len(s) \in Nat
      BY <1>1, <1>3, <1>5, <1>7, <2>2 DEF s
    <3>2. Was(i, k, j, l) = IF l < k THEN l ELSE l + 1
      BY <2>2, <3>1 DEF Was
    <3>3. Was(i, k, j, l) \in 1..Len(s) /\ Was(i, k, j, l) # k
      BY <3>1, <3>2
    <3>4. r[l] = s[Was(i, k, j, l)]
      BY <1>3, <3>1, <3>2
    <3>. QED BY <1>5, <2>2, <3>3, <3>4 DEF s
  <2>. QED BY <2>1, <2>2
<1>8. \A j \in Slots \ {i} : v.slots[j] = w.slots[j]
  BY <1>2
<1>. QED BY <1>3, <1>5, <1>6, <1>7, <1>8 DEF s, Places

\* What a removal leaves: all that is not f's, and nothing that was not there.
LEMMA RemovedLists ==
  ASSUME NEW w, GoodWheel(w), NEW v, NEW f \in Fds, Removed(w, v, f)
  PROVE  /\ v.currentIndex = w.currentIndex
         /\ \A i \in Slots : \A n : Listed(w, i, n) /\ w.fdOf[n] # f =>
              Listed(v, i, n) /\ v.fdOf[n] = w.fdOf[n]
         /\ \A i \in Slots : \A n : Listed(v, i, n) =>
              Listed(w, i, n) /\ v.fdOf[n] = w.fdOf[n]
         /\ OnceListed(v)
         /\ \A n \in Nodes : v.fdOf[n] # NULL => w.fdOf[n] # NULL
<1>0. OnceListed(w) /\ \A i \in Slots : \A n : Listed(w, i, n) => w.fdOf[n] # NULL
  BY WellFormedOf DEF GoodWheel
<1>1. CASE SameLists(w, v)
  BY <1>0, <1>1 DEF SameLists, Listed, OnceListed
<1>2. ASSUME NEW i \in Slots, NEW k \in 1..Len(w.slots[i]), UnlinkedAt(w, v, f, i, k)
      PROVE  /\ v.currentIndex = w.currentIndex
             /\ \A j \in Slots : \A n : Listed(w, j, n) /\ w.fdOf[n] # f =>
                  Listed(v, j, n) /\ v.fdOf[n] = w.fdOf[n]
             /\ \A j \in Slots : \A n : Listed(v, j, n) =>
                  Listed(w, j, n) /\ v.fdOf[n] = w.fdOf[n]
             /\ OnceListed(v)
             /\ \A n \in Nodes : v.fdOf[n] # NULL => w.fdOf[n] # NULL
  <2>. DEFINE gone == w.slots[i][k]
  <2>1. IsWheel(w)
    BY DEF GoodWheel
  <2>2. /\ \A j \in Slots \ {i} : v.slots[j] = w.slots[j]
        /\ \A j \in Slots : \A l \in 1..Len(v.slots[j]) :
             /\ Was(i, k, j, l) \in 1..Len(w.slots[j])
             /\ v.slots[j][l] = w.slots[j][Was(i, k, j, l)]
             /\ ~ (j = i /\ Was(i, k, j, l) = k)
        /\ \A l \in 1..Len(w.slots[i]) : l # k => Listed(v, i, w.slots[i][l])
    <3>1. Places(w, v, i, k)
      BY <1>2, <2>1, UnlinkedPlaces
    <3>. QED BY <3>1 DEF Places
  <2>3. \A n \in Nodes : v.fdOf[n] = IF n = gone THEN NULL ELSE w.fdOf[n]
    BY <1>2, <2>1, Fields DEF UnlinkedAt
  <2>4. \A j \in Slots : \A l \in 1..Len(w.slots[j]) : w.slots[j][l] \in Nodes
    BY <2>1, ListsOf
  <2>5. w.fdOf[gone] = f /\ v.currentIndex = w.currentIndex
    BY <1>2 DEF UnlinkedAt
  <2>6. ASSUME NEW j \in Slots, NEW n, Listed(w, j, n), w.fdOf[n] # f
        PROVE  Listed(v, j, n) /\ v.fdOf[n] = w.fdOf[n]
    <3>1. n # gone /\ n \in Nodes
      BY <2>4, <2>5, <2>6 DEF Listed
    <3>2. Listed(v, j, n)
      <4>1. PICK l \in 1..Len(w.slots[j]) : w.slots[j][l] = n
        BY <2>6 DEF Listed
      <4>2. CASE j = i
        <5>1. l # k
          BY <3>1, <4>1, <4>2
        <5>. QED BY <2>2, <4>1, <4>2, <5>1
      <4>3. CASE j # i
        BY <2>2, <4>1, <4>3 DEF Listed
      <4>. QED BY <4>2, <4>3
    <3>. QED BY <2>3, <3>1, <3>2
  <2>7. ASSUME NEW j \in Slots, NEW n, Listed(v, j, n)
        PROVE  Listed(w, j, n) /\ v.fdOf[n] = w.fdOf[n]
    <3>1. PICK l \in 1..Len(v.slots[j]) : v.slots[j][l] = n
      BY <2>7 DEF Listed
    <3>2. PICK m \in 1..Len(w.slots[j]) : w.slots[j][m] = n /\ ~ (j = i /\ m = k)
      BY <2>2, <3>1
    <3>3. n # gone
      BY <1>0, <3>2 DEF OnceListed
    <3>. QED BY <2>3, <2>4, <3>2, <3>3 DEF Listed
  <2>8. OnceListed(v)
    <3>0. SUFFICES ASSUME NEW j \in Slots, NEW h \in Slots, NEW l \in 1..Len(v.slots[j]),
                         NEW m \in 1..Len(v.slots[h]), v.slots[j][l] = v.slots[h][m]
                  PROVE  j = h /\ l = m
      BY DEF OnceListed
    <3>1. j = h /\ Was(i, k, j, l) = Was(i, k, h, m)
      <4>1. PICK a \in 1..Len(w.slots[j]) : a = Was(i, k, j, l) /\ v.slots[j][l] = w.slots[j][a]
        BY <2>2
      <4>2. PICK b \in 1..Len(w.slots[h]) : b = Was(i, k, h, m) /\ v.slots[h][m] = w.slots[h][b]
        BY <2>2
      <4>3. w.slots[j][a] = w.slots[h][b]
        BY <3>0, <4>1, <4>2
      <4>. QED BY <1>0, <4>1, <4>2, <4>3 DEF OnceListed
    <3>. QED BY <3>1 DEF Was
  <2>9. \A n \in Nodes : v.fdOf[n] # NULL => w.fdOf[n] # NULL
    BY <2>3
  <2>. QED BY <2>5, <2>6, <2>7, <2>8, <2>9
<1>. QED BY <1>1, <1>2 DEF Removed

\* removeUserFromList keeps the wheel good and the hash nodes.
LEMMA RemoveFromListStep ==
  ASSUME NEW w, GoodWheel(w), NEW f \in Fds, NEW index \in Slots, NEW v,
         v = removeUserFromList(w, f, index)
  PROVE  /\ GoodWheel(v) /\ Removed(w, v, f)
         /\ \A g \in Fds : Named(w, g) => Named(v, g)
         /\ NoneNamed(w, v) /\ SameTable(w, v)
         /\ \A n : Listed(w, index, n) /\ w.fdOf[n] = f =>
              \E l \in 1..Len(w.slots[index]) : UnlinkedAt(w, v, f, index, l)
<1>. DEFINE s == w.slots[index]
            I == { l \in 1..Len(s) : w.fdOf[s[l]] = f }
            k == SelectInSeq(s, LAMBDA n : w.fdOf[n] = f)
<1>1. s \in Seq(Nodes) /\ Len(s) \in Nat
  BY Fields DEF GoodWheel
<1>2. k = IF I # {} THEN Min(I) ELSE 0
  BY DEF SelectInSeq
<1>3. v = IF k = 0 THEN w
          ELSE [w EXCEPT !.slots[index] = RemoveAt(s, k), !.fdOf[s[k]] = NULL]
  BY DEF removeUserFromList
<1>4. CASE k = 0
  <2>1. NoneNamed(w, w)
    BY Fields DEF NoneNamed, GoodWheel
  <2>2. \A n : ~ (Listed(w, index, n) /\ w.fdOf[n] = f)
    <3>1. I \in SUBSET (1..Len(s))
      OBVIOUS
    <3>2. I = {}
      <4>. HIDE DEF I, k
      <4>1. (k = 0 /\ I = {}) \/ k \in I
        BY <1>1, <1>2, <3>1, FirstPlace
      <4>2. 0 \notin I
        BY <3>1
      <4>. QED BY <1>4, <4>1, <4>2
    <3>. QED BY <3>2 DEF Listed
  <2>. HIDE DEF I, k
  <2>. QED BY <1>3, <1>4, <2>1, <2>2 DEF Removed, SameLists, SameTable
<1>5. CASE k # 0
  <2>1. k \in I /\ \A l \in I : k <= l
    <3>1. I \in SUBSET (1..Len(s))
      OBVIOUS
    <3>. HIDE DEF I, k
    <3>. QED BY <1>1, <1>2, <1>5, <3>1, FirstPlace
  <2>2. k \in 1..Len(s) /\ w.fdOf[s[k]] = f /\ \A l \in 1..Len(s) : w.fdOf[s[l]] = f => k <= l
    <3>. HIDE DEF k
    <3>. QED BY <2>1
  <2>. HIDE DEF k, I
  <2>. DEFINE slots == [w.slots EXCEPT ![index] = RemoveAt(s, k)]
              fdOf == [w.fdOf EXCEPT ![s[k]] = NULL]
  <2>3. w.slots \in [Slots -> Seq(Nodes)] /\ w.fdOf \in [Nodes -> Fds \cup {NULL}] /\ w.currentIndex \in Slots
    BY Fields DEF GoodWheel
  <2>4. slots \in [Slots -> Seq(Nodes)]
    <3>1. RemoveAt(s, k) \in Seq(Nodes)
      BY <1>1, <2>2, Without
    <3>. QED BY <2>3, <3>1
  <2>5. fdOf \in [Nodes -> Fds \cup {NULL}]
    BY <2>3
  <2>6. Relisted(w, v, slots, fdOf, w.currentIndex)
    <3>1. v = [w EXCEPT !.slots = slots, !.fdOf = fdOf]
      BY <1>3, <1>5
    <3>2. w = [slots |-> w.slots, fdOf |-> w.fdOf, hashTable |-> w.hashTable, hashSize |-> w.hashSize,
               elementCount |-> w.elementCount, currentIndex |-> w.currentIndex]
      BY DEF GoodWheel, IsWheel
    <3>. HIDE DEF slots, fdOf
    <3>. QED BY <3>1, <3>2 DEF Relisted
  <2>. HIDE DEF slots, fdOf
  <2>7. /\ v.slots = slots /\ v.fdOf = fdOf /\ v.currentIndex = w.currentIndex /\ IsWheel(v)
        /\ OnceListed(v) /\ Allocated(v) => GoodWheel(v)
        /\ \A g \in Fds : Named(w, g) => Named(v, g)
        /\ NoneNamed(w, v) /\ SameTable(w, v)
    <3>1. GoodButLists(w, v, slots, fdOf, w.currentIndex)
      BY <2>3, <2>4, <2>5, <2>6, RelistStep
    <3>. QED BY <3>1 DEF GoodButLists
  <2>8. Removed(w, v, f) /\ \E l \in 1..Len(w.slots[index]) : UnlinkedAt(w, v, f, index, l)
    BY <2>2, <2>7 DEF Removed, UnlinkedAt, slots, fdOf
  <2>9. OnceListed(v) /\ Allocated(v)
    <3>1. \A i \in Slots : \A n : Listed(w, i, n) => w.fdOf[n] # NULL
      BY WellFormedOf DEF GoodWheel
    <3>. QED BY <2>8, <3>1, RemovedLists DEF Allocated
  <2>. QED BY <2>7, <2>8, <2>9
<1>. QED BY <1>4, <1>5

\* removeUser takes at most a list node of f, and no other descriptor's hash node.
LEMMA RemoveUserStep ==
  ASSUME NEW w, GoodWheel(w), NEW f \in Fds, NEW v, v = removeUser(w, f)
  PROVE  /\ GoodWheel(v) /\ Removed(w, v, f)
         /\ \A g \in Fds : g # f /\ Named(w, g) => Named(v, g)
         /\ NoneNamed(w, v)
<1>. DEFINE bucket == BucketHead(w, f)
<1>1. CASE bucket = <<>>
  <2>1. NoneNamed(w, w)
    BY Fields DEF NoneNamed, GoodWheel
  <2>. QED BY <1>1, <2>1 DEF removeUser, Removed, SameLists
<1>2. CASE bucket # <<>>
  <2>. DEFINE u == removeUserFromList(w, f, bucket[1].index)
  <2>1. bucket[1].index \in Slots
    <3>1. bucket \in Seq(Entry)
      BY HashOf, Fields DEF GoodWheel, BucketHead
    <3>2. bucket[1] \in Entry
      BY <1>2, <3>1
    <3>. QED BY <3>2 DEF Entry
  <2>2. v = deleteFromHashTable(u, f)
    BY <1>2 DEF removeUser
  <2>. HIDE DEF bucket
  <2>3. /\ GoodWheel(u) /\ Removed(w, u, f) /\ \A g \in Fds : Named(w, g) => Named(u, g)
        /\ NoneNamed(w, u)
    BY <2>1, RemoveFromListStep
  <2>. HIDE DEF u
  <2>4. /\ GoodWheel(v) /\ SameLists(u, v)
        /\ \A g \in Fds : g # f /\ Named(u, g) => Named(v, g)
        /\ NoneNamed(u, v)
    BY <2>2, <2>3, DeleteStep
  <2>5. Removed(w, v, f)
    BY <2>3, <2>4 DEF Removed, SameLists, UnlinkedAt
  <2>6. NoneNamed(w, v)
    <3>1. w.hashSize \in Nat /\ u.hashSize \in Nat /\ v.hashSize \in Nat
      BY <2>3, <2>4, Fields DEF GoodWheel
    <3>2. w.hashSize <= u.hashSize /\ u.hashSize <= v.hashSize
      BY <2>3, <2>4, <3>1 DEF NoneNamed
    <3>3. v.hashSize >= w.hashSize
      BY <3>1, <3>2
    <3>. QED BY <2>3, <2>4, <3>3 DEF NoneNamed
  <2>. QED BY <2>3, <2>4, <2>5, <2>6
<1>. QED BY <1>1, <1>2

-------------------------------------------------------------------------------
(* Addition *)

\* The nodes in use.
NodesInUse(w) == { n \in Nodes : w.fdOf[n] # NULL }

\* malloc finds a node as long as fewer are allocated than accepts and messages can ask for.
LEMMA FreshNodeStep ==
  ASSUME NEW w, IsWheel(w), IsFiniteSet(NodesInUse(w)),
         Cardinality(NodesInUse(w)) < MaxConns + MaxMessages
  PROVE  FreshNode(w) \in Nodes /\ w.fdOf[FreshNode(w)] = NULL
<1>. DEFINE Free == { n \in Nodes : w.fdOf[n] = NULL }
<1>1. Free # {}
  <2>. SUFFICES ASSUME Free = {} PROVE FALSE
    OBVIOUS
  <2>1. NodesInUse(w) = Nodes
    BY DEF NodesInUse
  <2>2. Cardinality(Nodes) \in Nat /\ Cardinality(Nodes) < MaxConns + MaxMessages
    BY <2>1, FS_CardinalityType
  <2>3. IsFiniteSet(Nodes) /\ MaxConns \in Nat /\ MaxMessages \in Nat
    BY <2>1, ReactorAssumption
  <2>. QED BY <2>2, <2>3, ReactorAssumption
<1>2. Free \in SUBSET Nat
  BY WheelConstants
<1>. HIDE DEF Free
<1>3. Min(Free) \in Free /\ \A i \in Free : Min(Free) <= i
  BY <1>1, <1>2, MinOf
<1>4. \E n \in Nodes : w.fdOf[n] = NULL /\ \A m \in Nodes : m < n => w.fdOf[m] # NULL
  <2>1. PICK n \in Free : \A i \in Free : n <= i
    BY <1>3
  <2>2. n \in Nodes /\ w.fdOf[n] = NULL /\ n \in Nat
    BY <1>2, <2>1 DEF Free
  <2>3. ASSUME NEW m \in Nodes, m < n PROVE w.fdOf[m] # NULL
    BY <2>1, <2>2, <2>3, WheelConstants DEF Free
  <2>. QED BY <2>2, <2>3
<1>. QED BY <1>4 DEF FreshNode

\* n, which was not allocated, is f's at the end of list i.
AddedAt(w, v, f, i, n) ==
  /\ w.fdOf[n] = NULL
  /\ v.slots = [w.slots EXCEPT ![i] = Append(w.slots[i], n)]
  /\ v.fdOf = [w.fdOf EXCEPT ![n] = f]
  /\ v.currentIndex = w.currentIndex

\* The lists with a new node at the end of list i.
LEMMA AddedPlaces ==
  ASSUME NEW w, GoodWheel(w), NEW v, NEW f \in Fds, NEW i \in Slots, NEW n \in Nodes,
         AddedAt(w, v, f, i, n)
  PROVE  /\ \A j \in Slots : \A m : Listed(v, j, m) <=> Listed(w, j, m) \/ (j = i /\ m = n)
         /\ OnceListed(v)
         /\ \A j \in Slots : ~ Listed(w, j, n)
<1>. DEFINE s == w.slots[i]
<1>1. IsWheel(w) /\ OnceListed(w) /\ Allocated(w)
  BY WellFormedOf DEF GoodWheel, Allocated
<1>2. s \in Seq(Nodes) /\ Len(s) \in Nat /\ w.slots \in [Slots -> Seq(Nodes)]
  BY <1>1, Fields
<1>3. \A j \in Slots : v.slots[j] = IF j = i THEN Append(s, n) ELSE w.slots[j]
  BY <1>2 DEF AddedAt
<1>4. /\ Append(s, n) \in Seq(Nodes) /\ Len(Append(s, n)) = Len(s) + 1
      /\ \A l \in 1..Len(s) : Append(s, n)[l] = s[l]
      /\ Append(s, n)[Len(s) + 1] = n
  BY <1>2, AppendProperties
<1>5. \A j \in Slots : ~ Listed(w, j, n)
  BY <1>1 DEF Allocated, AddedAt
<1>. DEFINE t == Append(s, n)
            last == Len(s) + 1
<1>. HIDE DEF t
<1>6. /\ v.slots[i] = t /\ Len(t) = last /\ t[last] = n /\ \A l \in 1..Len(s) : t[l] = w.slots[i][l]
  BY <1>3, <1>4 DEF t
<1>7. \A j \in Slots \ {i} : v.slots[j] = w.slots[j]
  BY <1>3
<1>8. last \in Nat /\ last \in 1..last /\ 1..last = (1..Len(s)) \cup {last}
  BY <1>2
<1>9. ASSUME NEW j \in Slots, NEW m
      PROVE  Listed(v, j, m) <=> Listed(w, j, m) \/ (j = i /\ m = n)
  <2>1. CASE j = i
    <3>1. Listed(v, i, m) <=> (\E l \in 1..Len(s) : t[l] = m) \/ t[last] = m
      BY <1>6, <1>8 DEF Listed
    <3>. QED BY <1>6, <2>1, <3>1 DEF Listed
  <2>2. CASE j # i
    BY <1>7, <2>2 DEF Listed
  <2>. QED BY <2>1, <2>2
<1>10. OnceListed(v)
  <2>0. SUFFICES ASSUME NEW j \in Slots, NEW h \in Slots, NEW l \in 1..Len(v.slots[j]),
                        NEW m \in 1..Len(v.slots[h]), v.slots[j][l] = v.slots[h][m]
                 PROVE  j = h /\ l = m
    BY DEF OnceListed
  <2>1. ASSUME NEW g \in Slots, NEW p \in 1..Len(v.slots[g])
        PROVE  \/ g = i /\ p = last /\ v.slots[g][p] = n
               \/ p \in 1..Len(w.slots[g]) /\ v.slots[g][p] = w.slots[g][p] /\ w.slots[g][p] # n
    <3>1. CASE g = i /\ p = last
      BY <1>6, <3>1
    <3>2. CASE g = i /\ p # last
      <4>1. p \in 1..Len(s)
        BY <1>6, <1>8, <2>1, <3>2
      <4>2. v.slots[g][p] = w.slots[g][p] /\ p \in 1..Len(w.slots[g])
        BY <1>6, <3>2, <4>1
      <4>. QED BY <1>5, <4>2 DEF Listed
    <3>3. CASE g # i
      <4>1. p \in 1..Len(w.slots[g]) /\ v.slots[g][p] = w.slots[g][p]
        BY <1>7, <2>1, <3>3
      <4>. QED BY <1>5, <4>1 DEF Listed
    <3>. QED BY <3>1, <3>2, <3>3
  <2>2. \/ j = i /\ l = last /\ v.slots[j][l] = n
        \/ l \in 1..Len(w.slots[j]) /\ v.slots[j][l] = w.slots[j][l] /\ w.slots[j][l] # n
    BY <2>1
  <2>3. \/ h = i /\ m = last /\ v.slots[h][m] = n
        \/ m \in 1..Len(w.slots[h]) /\ v.slots[h][m] = w.slots[h][m] /\ w.slots[h][m] # n
    BY <2>1
  <2>4. CASE v.slots[j][l] = n
    BY <2>0, <2>2, <2>3, <2>4
  <2>5. CASE v.slots[j][l] # n
    <3>1. /\ l \in 1..Len(w.slots[j]) /\ m \in 1..Len(w.slots[h])
          /\ w.slots[j][l] = w.slots[h][m]
      BY <2>0, <2>2, <2>3, <2>5
    <3>. QED BY <1>1, <3>1 DEF OnceListed
  <2>. QED BY <2>4, <2>5
<1>. QED BY <1>5, <1>9, <1>10

\* insertToHashTable, resizing included, keeps the wheel good and all hash nodes.
LEMMA InsertStep ==
  ASSUME NEW w, GoodWheel(w), NEW f \in Fds, NEW index \in Slots, NEW v,
         v = insertToHashTable(w, f, index)
  PROVE  /\ GoodWheel(v) /\ SameLists(w, v) /\ Named(v, f)
         /\ \A g \in Fds : Named(w, g) => Named(v, g)
         /\ OnlyNamed(w, v, f) /\ OneNew(w, v, f, index)
<1>. DEFINE r == IF 4 * w.elementCount >= 3 * w.hashSize THEN resizeHashTable(w) ELSE w
<1>1. GoodWheel(r) /\ SameLists(w, r) /\ \A g \in Fds : Named(w, g) => Named(r, g)
  BY ResizeStep DEF SameLists
<1>2. /\ r.hashSize = IF 4 * w.elementCount >= 3 * w.hashSize THEN 2 * w.hashSize ELSE w.hashSize
      /\ \A g \in Fds : Named(r, g) => Named(w, g)
      /\ NoneNew(w, r) /\ r.elementCount = w.elementCount
  BY ResizeStep DEF NoneNew
<1>3. v = Edited(r, hashFunction(f, r.hashSize),
                 <<[peerfd |-> f, index |-> index]>> \o r.hashTable[hashFunction(f, r.hashSize)],
                 r.elementCount + 1)
  BY DEF insertToHashTable, Edited
<1>. HIDE DEF r
<1>4. /\ GoodWheel(v) /\ SameLists(r, v) /\ Named(v, f)
      /\ \A g \in Fds : Named(r, g) => Named(v, g)
      /\ v.hashSize = r.hashSize /\ \A g \in Fds : Named(v, g) => g = f \/ Named(r, g)
      /\ OneNew(r, v, f, index)
  BY <1>1, <1>3, PutStep
<1>5. OnlyNamed(w, v, f)
  BY <1>2, <1>4 DEF OnlyNamed
<1>6. OneNew(w, v, f, index)
  BY <1>2, <1>4 DEF OneNew, NoneNew
<1>. QED BY <1>1, <1>4, <1>5, <1>6 DEF SameLists

\* The slot that is d ticks ahead.
SlotAt(w, d) == (w.currentIndex + d) % WheelSize

\* addUser finds a fresh node and puts it into the slot that is timeout ahead.
LEMMA AddUserStep ==
  ASSUME NEW w, GoodWheel(w), IsFiniteSet(NodesInUse(w)),
         Cardinality(NodesInUse(w)) < MaxConns + MaxMessages,
         NEW f \in Fds, NEW timeout \in Nat, NEW v, v = addUser(w, f, timeout)
  PROVE  /\ GoodWheel(v) /\ Named(v, f)
         /\ \E n \in Nodes : AddedAt(w, v, f, SlotAt(w, timeout), n)
         /\ \A g \in Fds : Named(w, g) => Named(v, g)
         /\ OnlyNamed(w, v, f) /\ OneNew(w, v, f, SlotAt(w, timeout))
<1>. DEFINE index == SlotAt(w, timeout)
            n == FreshNode(w)
            slots == [w.slots EXCEPT ![index] = Append(w.slots[index], n)]
            fdOf == [w.fdOf EXCEPT ![n] = f]
            u == [w EXCEPT !.slots[index] = Append(@, n), !.fdOf[n] = f]
<1>1. n \in Nodes /\ w.fdOf[n] = NULL
  BY FreshNodeStep DEF GoodWheel
<1>2. /\ w.slots \in [Slots -> Seq(Nodes)] /\ w.fdOf \in [Nodes -> Fds \cup {NULL}]
      /\ w.currentIndex \in Slots
  BY Fields DEF GoodWheel
<1>3. index \in Slots
  <2>1. \E x \in Nat : x = w.currentIndex + timeout
    BY <1>2, WheelConstants DEF Slots
  <2>. QED BY <2>1, WheelConstants DEF Slots, SlotAt
<1>4. v = insertToHashTable(u, f, index)
  BY DEF addUser, SlotAt
<1>. HIDE DEF n, index
<1>5. slots \in [Slots -> Seq(Nodes)] /\ fdOf \in [Nodes -> Fds \cup {NULL}]
  BY <1>1, <1>2, <1>3
<1>6. Relisted(w, u, slots, fdOf, w.currentIndex)
  <2>1. u = [w EXCEPT !.slots = slots, !.fdOf = fdOf]
    OBVIOUS
  <2>2. w = [slots |-> w.slots, fdOf |-> w.fdOf, hashTable |-> w.hashTable, hashSize |-> w.hashSize,
             elementCount |-> w.elementCount, currentIndex |-> w.currentIndex]
    BY DEF GoodWheel, IsWheel
  <2>. HIDE DEF slots, fdOf, u
  <2>. QED BY <2>1, <2>2 DEF Relisted
<1>. HIDE DEF u
<1>7. GoodButLists(w, u, slots, fdOf, w.currentIndex)
  <2>. HIDE DEF slots, fdOf
  <2>. QED BY <1>2, <1>5, <1>6, RelistStep
<1>8. AddedAt(w, u, f, index, n)
  BY <1>1, <1>7 DEF AddedAt, GoodButLists
<1>9. GoodWheel(u)
  <2>1. /\ \A j \in Slots : \A m : Listed(u, j, m) <=> Listed(w, j, m) \/ (j = index /\ m = n)
        /\ OnceListed(u)
        /\ \A j \in Slots : ~ Listed(w, j, n)
    BY <1>1, <1>3, <1>8, AddedPlaces
  <2>2. Allocated(u)
    <3>1. \A i \in Slots : \A m : Listed(w, i, m) => w.fdOf[m] # NULL
      BY WellFormedOf DEF GoodWheel
    <3>2. \A j \in Slots : \A m : Listed(w, j, m) => m \in Nodes
      BY ListsOf DEF Listed, GoodWheel
    <3>3. f # NULL
      BY WheelConstants
    <3>4. \A m \in Nodes : u.fdOf[m] = IF m = n THEN f ELSE w.fdOf[m]
      BY <1>2, <1>8 DEF AddedAt
    <3>. QED BY <1>1, <2>1, <3>1, <3>2, <3>3, <3>4 DEF Allocated
  <2>. QED BY <1>7, <2>1, <2>2 DEF GoodButLists
<1>10. /\ GoodWheel(v) /\ SameLists(u, v) /\ Named(v, f)
       /\ \A g \in Fds : Named(u, g) => Named(v, g)
       /\ OnlyNamed(u, v, f) /\ OneNew(u, v, f, index)
  BY <1>3, <1>4, <1>9, InsertStep
<1>11. \A g \in Fds : Named(w, g) => Named(v, g)
  BY <1>7, <1>10 DEF GoodButLists
<1>12. AddedAt(w, v, f, index, n)
  BY <1>8, <1>10 DEF AddedAt, SameLists
<1>13. OnlyNamed(w, v, f)
  BY <1>7, <1>10 DEF OnlyNamed, GoodButLists, SameTable
<1>14. OneNew(w, v, f, index)
  BY <1>7, <1>10 DEF OneNew, InTable, BucketHead, GoodButLists, SameTable
<1>. QED BY <1>1, <1>10, <1>11, <1>12, <1>13, <1>14 DEF index

\* What an addition leaves, and what it brings.
LEMMA AddedLists ==
  ASSUME NEW w, GoodWheel(w), NEW v, NEW f \in Fds, NEW i \in Slots, NEW n \in Nodes,
         AddedAt(w, v, f, i, n)
  PROVE  /\ v.currentIndex = w.currentIndex
         /\ \A j \in Slots : \A m : Listed(w, j, m) => Listed(v, j, m) /\ v.fdOf[m] = w.fdOf[m]
         /\ Listed(v, i, n) /\ v.fdOf[n] = f
         /\ \A j \in Slots : \A m : Listed(v, j, m) =>
              (Listed(w, j, m) /\ v.fdOf[m] = w.fdOf[m]) \/ (j = i /\ m = n)
         /\ NodesInUse(v) = NodesInUse(w) \cup {n}
<1>1. /\ \A j \in Slots : \A m : Listed(v, j, m) <=> Listed(w, j, m) \/ (j = i /\ m = n)
      /\ \A j \in Slots : ~ Listed(w, j, n)
  BY AddedPlaces
<1>2. w.fdOf \in [Nodes -> Fds \cup {NULL}] /\ f # NULL
  BY Fields, WheelConstants DEF GoodWheel
<1>3. v.fdOf \in [Nodes -> Fds \cup {NULL}] /\ \A m \in Nodes : v.fdOf[m] = IF m = n THEN f ELSE w.fdOf[m]
  BY <1>2 DEF AddedAt
<1>4. \A j \in Slots : \A m : Listed(w, j, m) => m \in Nodes
  BY ListsOf DEF Listed, GoodWheel
<1>5. NodesInUse(v) = NodesInUse(w) \cup {n}
  BY <1>2, <1>3 DEF NodesInUse
<1>. QED BY <1>1, <1>3, <1>4, <1>5 DEF AddedAt

-------------------------------------------------------------------------------
(* The slots ahead *)

\* The slots ahead are all the slots, each one once.
LEMMA SlotsAhead ==
  ASSUME NEW w, IsWheel(w)
  PROVE  /\ SlotAt(w, 0) = w.currentIndex
         /\ \A d \in Slots : SlotAt(w, d) \in Slots
         /\ \A d, e \in Slots : SlotAt(w, d) = SlotAt(w, e) => d = e
         /\ \A i \in Slots : \E d \in Slots : SlotAt(w, d) = i
         /\ \A d \in Slots : Ahead(w, d) = w.slots[SlotAt(w, d)]
<1>. DEFINE W == WheelSize
            x == w.currentIndex
<1>1. W \in Nat \ {0} /\ x \in 0..(W - 1)
  BY Fields, WheelConstants DEF Slots
<1>2. ASSUME NEW d \in 0..(W - 1) PROVE SlotAt(w, d) = IF x + d < W THEN x + d ELSE (x + d) - W
  <2>1. x + d \in 0..(2 * W - 1)
    BY <1>1
  <2>. QED BY <1>1, <2>1, Below DEF SlotAt
<1>. HIDE DEF W, x
<1>3. ASSUME NEW d \in 0..(W - 1) PROVE SlotAt(w, d) \in 0..(W - 1)
  BY <1>1, <1>2
<1>4. ASSUME NEW d \in 0..(W - 1), NEW e \in 0..(W - 1), SlotAt(w, d) = SlotAt(w, e) PROVE d = e
  BY <1>1, <1>2, <1>4
<1>5. ASSUME NEW i \in 0..(W - 1) PROVE \E d \in 0..(W - 1) : SlotAt(w, d) = i
  <2>1. CASE i >= x
    <3>1. i - x \in 0..(W - 1) /\ x + (i - x) = i /\ i < W
      BY <1>1, <2>1
    <3>. QED BY <1>2, <3>1
  <2>2. CASE ~ (i >= x)
    <3>1. (i - x) + W \in 0..(W - 1) /\ x + ((i - x) + W) = i + W /\ ~ (i + W < W) /\ (i + W) - W = i
      BY <1>1, <2>2
    <3>. QED BY <1>2, <3>1
  <2>. QED BY <2>1, <2>2
<1>6. SlotAt(w, 0) = x
  <2>1. 0 \in 0..(W - 1) /\ x + 0 = x /\ x < W
    BY <1>1
  <2>. QED BY <1>2, <2>1
<1>. QED BY <1>3, <1>4, <1>5, <1>6 DEF Slots, W, x, Ahead, SlotAt

\* After a tick every slot is one nearer.
LEMMA SlotsNearer ==
  ASSUME NEW w, IsWheel(w), NEW v, IsWheel(v), v.currentIndex = (w.currentIndex + 1) % WheelSize
  PROVE  /\ \A d \in Slots : d + 1 \in Slots => SlotAt(v, d) = SlotAt(w, d + 1)
         /\ SlotAt(v, WheelSize - 1) = w.currentIndex
<1>. DEFINE W == WheelSize
            x == w.currentIndex
            y == v.currentIndex
<1>1. W \in Nat \ {0} /\ x \in 0..(W - 1) /\ y \in 0..(W - 1)
  BY Fields, WheelConstants DEF Slots
<1>2. y = IF x + 1 < W THEN x + 1 ELSE (x + 1) - W
  <2>1. x + 1 \in 0..(2 * W - 1)
    BY <1>1
  <2>. QED BY <1>1, <2>1, Below
<1>3. ASSUME NEW d \in 0..(W - 1)
      PROVE  /\ SlotAt(w, d) = IF x + d < W THEN x + d ELSE (x + d) - W
             /\ SlotAt(v, d) = IF y + d < W THEN y + d ELSE (y + d) - W
  <2>1. x + d \in 0..(2 * W - 1) /\ y + d \in 0..(2 * W - 1)
    BY <1>1
  <2>. QED BY <1>1, <2>1, Below DEF SlotAt
<1>. HIDE DEF W, x, y
<1>4. ASSUME NEW d \in 0..(W - 1), d + 1 \in 0..(W - 1) PROVE SlotAt(v, d) = SlotAt(w, d + 1)
  <2>1. SlotAt(v, d) = IF y + d < W THEN y + d ELSE (y + d) - W
    BY <1>3
  <2>2. SlotAt(w, d + 1) = IF x + (d + 1) < W THEN x + (d + 1) ELSE (x + (d + 1)) - W
    BY <1>3, <1>4
  <2>. QED BY <1>1, <1>2, <1>4, <2>1, <2>2
<1>5. SlotAt(v, W - 1) = x
  <2>1. W - 1 \in 0..(W - 1)
    BY <1>1
  <2>2. SlotAt(v, W - 1) = IF y + (W - 1) < W THEN y + (W - 1) ELSE (y + (W - 1)) - W
    BY <1>3, <2>1
  <2>. QED BY <1>1, <1>2, <2>2
<1>. QED BY <1>4, <1>5 DEF Slots, W, x

-------------------------------------------------------------------------------
(* A timer is renewed *)

\* f has a new node Timeout slots ahead; what is not f's is where it was.
Renewed(w, v, f) ==
  /\ v.currentIndex = w.currentIndex
  /\ \A j \in Slots : \A m : Listed(w, j, m) /\ w.fdOf[m] # f =>
       Listed(v, j, m) /\ v.fdOf[m] = w.fdOf[m]
  /\ \E n \in Nodes :
       /\ Listed(v, SlotAt(w, Timeout), n) /\ v.fdOf[n] = f
       /\ \A j \in Slots : \A m : Listed(v, j, m) =>
            (Listed(w, j, m) /\ v.fdOf[m] = w.fdOf[m]) \/ (j = SlotAt(w, Timeout) /\ m = n)
       /\ NodesInUse(v) \subseteq NodesInUse(w) \cup {n}

\* Fewer nodes are allocated than accepts and messages can ask for.
Roomy(w) ==
  IsFiniteSet(NodesInUse(w)) /\ Cardinality(NodesInUse(w)) < MaxConns + MaxMessages

\* The slot a renewed timer goes to.
LEMMA TimeoutSlot == ASSUME NEW w, IsWheel(w) PROVE SlotAt(w, Timeout) \in Slots /\ Timeout \in Nat
  BY SlotsAhead, WheelConstants DEF Slots

\* addUser with Timeout gives f a node there.
LEMMA AddUserRenews ==
  ASSUME NEW w, GoodWheel(w), Roomy(w), NEW f \in Fds, NEW v, v = addUser(w, f, Timeout)
  PROVE  /\ GoodWheel(v) /\ Named(v, f) /\ Renewed(w, v, f)
         /\ \A g \in Fds : Named(w, g) => Named(v, g)
         /\ OnlyNamed(w, v, f) /\ OneNew(w, v, f, SlotAt(w, Timeout))
<1>1. Timeout \in Nat /\ SlotAt(w, Timeout) \in Slots
  BY TimeoutSlot DEF GoodWheel
<1>2. /\ GoodWheel(v) /\ Named(v, f)
      /\ \E n \in Nodes : AddedAt(w, v, f, SlotAt(w, Timeout), n)
      /\ \A g \in Fds : Named(w, g) => Named(v, g)
      /\ OnlyNamed(w, v, f) /\ OneNew(w, v, f, SlotAt(w, Timeout))
  BY <1>1, AddUserStep DEF Roomy
<1>3. PICK n \in Nodes : AddedAt(w, v, f, SlotAt(w, Timeout), n)
  BY <1>2
<1>. DEFINE i == SlotAt(w, Timeout)
<1>. HIDE DEF i
<1>4. /\ v.currentIndex = w.currentIndex
      /\ \A j \in Slots : \A m : Listed(w, j, m) => Listed(v, j, m) /\ v.fdOf[m] = w.fdOf[m]
      /\ Listed(v, i, n) /\ v.fdOf[n] = f
      /\ \A j \in Slots : \A m : Listed(v, j, m) =>
           (Listed(w, j, m) /\ v.fdOf[m] = w.fdOf[m]) \/ (j = i /\ m = n)
      /\ NodesInUse(v) = NodesInUse(w) \cup {n}
  BY <1>1, <1>3, AddedLists DEF i
<1>5. Renewed(w, v, f)
  BY <1>4 DEF Renewed, i
<1>. QED BY <1>2, <1>5

\* updateUserTimeout does the same for a descriptor with a hash node.
LEMMA UpdateRenews ==
  ASSUME NEW w, GoodWheel(w), Roomy(w), NEW f \in Fds, Named(w, f),
         NEW v, v = updateUserTimeout(w, f, Timeout)
  PROVE  /\ GoodWheel(v) /\ Named(v, f) /\ Renewed(w, v, f)
         /\ \A g \in Fds : Named(w, g) => Named(v, g)
         /\ NoneNamed(w, v)
<1>. DEFINE u == removeUser(w, f)
<1>1. BucketHead(w, f) # <<>>
  BY DEF Named, ToSet
<1>2. v = addUser(u, f, Timeout)
  BY <1>1 DEF updateUserTimeout
<1>3. /\ GoodWheel(u) /\ Removed(w, u, f) /\ NoneNamed(w, u)
      /\ \A g \in Fds : g # f /\ Named(w, g) => Named(u, g)
  BY RemoveUserStep
<1>. HIDE DEF u
<1>4. /\ u.currentIndex = w.currentIndex
      /\ \A i \in Slots : \A n : Listed(w, i, n) /\ w.fdOf[n] # f =>
           Listed(u, i, n) /\ u.fdOf[n] = w.fdOf[n]
      /\ \A i \in Slots : \A n : Listed(u, i, n) => Listed(w, i, n) /\ u.fdOf[n] = w.fdOf[n]
      /\ \A n \in Nodes : u.fdOf[n] # NULL => w.fdOf[n] # NULL
  BY <1>3, RemovedLists
<1>5. NodesInUse(u) \subseteq NodesInUse(w)
  BY <1>4 DEF NodesInUse
<1>6. Roomy(u)
  <2>1. /\ IsFiniteSet(NodesInUse(u)) /\ Cardinality(NodesInUse(u)) <= Cardinality(NodesInUse(w))
        /\ Cardinality(NodesInUse(u)) \in Nat /\ Cardinality(NodesInUse(w)) \in Nat
    BY <1>5, FS_Subset, FS_CardinalityType DEF Roomy
  <2>2. MaxConns \in Nat /\ MaxMessages \in Nat
    BY ReactorAssumption
  <2>. QED BY <2>1, <2>2 DEF Roomy
<1>7. /\ GoodWheel(v) /\ Named(v, f) /\ Renewed(u, v, f)
      /\ \A g \in Fds : Named(u, g) => Named(v, g)
      /\ OnlyNamed(u, v, f)
  BY <1>2, <1>3, <1>6, AddUserRenews
<1>8. Renewed(w, v, f)
  <2>1. SlotAt(u, Timeout) = SlotAt(w, Timeout)
    BY <1>4 DEF SlotAt
  <2>2. PICK n \in Nodes :
       /\ Listed(v, SlotAt(w, Timeout), n) /\ v.fdOf[n] = f
       /\ \A j \in Slots : \A m : Listed(v, j, m) =>
            (Listed(u, j, m) /\ v.fdOf[m] = u.fdOf[m]) \/ (j = SlotAt(w, Timeout) /\ m = n)
       /\ NodesInUse(v) \subseteq NodesInUse(u) \cup {n}
    BY <1>7, <2>1 DEF Renewed
  <2>3. NodesInUse(v) \subseteq NodesInUse(w) \cup {n}
    BY <1>5, <2>2
  <2>4. \A j \in Slots : \A m : Listed(v, j, m) =>
            (Listed(w, j, m) /\ v.fdOf[m] = w.fdOf[m]) \/ (j = SlotAt(w, Timeout) /\ m = n)
    BY <1>4, <2>2
  <2>5. \A j \in Slots : \A m : Listed(w, j, m) /\ w.fdOf[m] # f =>
          Listed(v, j, m) /\ v.fdOf[m] = w.fdOf[m]
    BY <1>4, <1>7 DEF Renewed
  <2>6. v.currentIndex = w.currentIndex
    BY <1>4, <1>7 DEF Renewed
  <2>. QED BY <2>2, <2>3, <2>4, <2>5, <2>6 DEF Renewed
<1>9. NoneNamed(w, v)
  <2>1. PICK x \in Nat, y \in Nat : x = w.hashSize /\ y = u.hashSize
    BY <1>3, Fields DEF GoodWheel
  <2>2. x <= y /\ (v.hashSize = y \/ v.hashSize = 2 * y)
    BY <1>3, <1>7, <2>1 DEF NoneNamed, OnlyNamed
  <2>3. v.hashSize >= x
    BY <2>2
  <2>. QED BY <1>3, <1>7, <2>1, <2>3 DEF NoneNamed, OnlyNamed
<1>. QED BY <1>3, <1>7, <1>8, <1>9

-------------------------------------------------------------------------------
(* A tick is over *)

\* The list whose turn it was is empty, and the others are as they were.
Advanced(w, v) ==
  /\ v.currentIndex = (w.currentIndex + 1) % WheelSize
  /\ \A m : ~ Listed(v, w.currentIndex, m)
  /\ \A j \in Slots \ {w.currentIndex} : \A m :
       (Listed(v, j, m) <=> Listed(w, j, m)) /\ (Listed(w, j, m) => v.fdOf[m] = w.fdOf[m])
  /\ NodesInUse(v) \subseteq NodesInUse(w)

\* TickAdvance empties the list whose turn it was and brings the others nearer.
LEMMA TickAdvanceStep ==
  ASSUME NEW w, GoodWheel(w), NEW v, v = TickAdvance(w)
  PROVE  /\ GoodWheel(v) /\ Advanced(w, v) /\ NoneNamed(w, v) /\ SameTable(w, v)
         /\ \A g \in Fds : Named(w, g) => Named(v, g)
<1>. DEFINE x == w.currentIndex
            s == w.slots[x]
            slots == [w.slots EXCEPT ![x] = <<>>]
            fdOf == [n \in Nodes |-> IF n \in ToSet(s) THEN NULL ELSE w.fdOf[n]]
            index == (x + 1) % WheelSize
<1>1. /\ w.slots \in [Slots -> Seq(Nodes)] /\ w.fdOf \in [Nodes -> Fds \cup {NULL}]
      /\ x \in Slots /\ IsWheel(w)
  BY Fields DEF GoodWheel
<1>2. index \in Slots
  <2>1. \E y \in Nat : y = x + 1
    BY <1>1 DEF Slots
  <2>. QED BY <2>1, WheelConstants DEF Slots
<1>3. slots \in [Slots -> Seq(Nodes)] /\ fdOf \in [Nodes -> Fds \cup {NULL}]
  BY <1>1
<1>4. Relisted(w, v, slots, fdOf, index)
  <2>1. v = [w EXCEPT !.slots = slots, !.fdOf = fdOf, !.currentIndex = index]
    BY DEF TickAdvance, GoodWheel, IsWheel
  <2>. HIDE DEF slots, fdOf, index
  <2>. QED BY <2>1 DEF Relisted
<1>5. GoodButLists(w, v, slots, fdOf, index)
  <2>. HIDE DEF slots, fdOf, index
  <2>. QED BY <1>2, <1>3, <1>4, RelistStep
<1>6. /\ \A j \in Slots : v.slots[j] = IF j = x THEN <<>> ELSE w.slots[j]
      /\ \A n \in Nodes : v.fdOf[n] = IF n \in ToSet(s) THEN NULL ELSE w.fdOf[n]
      /\ v.currentIndex = index
  BY <1>1, <1>5 DEF GoodButLists
<1>7. OnceListed(w) /\ Allocated(w)
  BY WellFormedOf DEF GoodWheel, Allocated
<1>. HIDE DEF s, x, slots, fdOf, index
<1>8. \A n : n \in ToSet(s) <=> Listed(w, x, n)
  BY <1>1, ListsOf DEF s
<1>9. \A m : ~ Listed(v, x, m)
  BY <1>1, <1>6 DEF Listed
<1>10. ASSUME NEW j \in Slots \ {x}, NEW m
       PROVE  (Listed(v, j, m) <=> Listed(w, j, m)) /\ (Listed(w, j, m) => v.fdOf[m] = w.fdOf[m])
  <2>1. Listed(v, j, m) <=> Listed(w, j, m)
    BY <1>6 DEF Listed
  <2>2. ASSUME Listed(w, j, m) PROVE v.fdOf[m] = w.fdOf[m]
    <3>1. ~ Listed(w, x, m)
      BY <1>1, <1>7, <2>2 DEF OnceListed, Listed
    <3>2. m \in Nodes
      BY <1>1, <2>2, ListsOf DEF Listed
    <3>. QED BY <1>6, <1>8, <3>1, <3>2
  <2>. QED BY <2>1, <2>2
<1>11. OnceListed(v)
  <2>0. SUFFICES ASSUME NEW i \in Slots, NEW j \in Slots, NEW k \in 1..Len(v.slots[i]),
                        NEW l \in 1..Len(v.slots[j]), v.slots[i][k] = v.slots[j][l]
                 PROVE  i = j /\ k = l
    BY DEF OnceListed
  <2>1. i # x /\ j # x
    BY <1>9 DEF Listed
  <2>2. v.slots[i] = w.slots[i] /\ v.slots[j] = w.slots[j]
    BY <1>6, <2>1
  <2>3. k \in 1..Len(w.slots[i]) /\ l \in 1..Len(w.slots[j]) /\ w.slots[i][k] = w.slots[j][l]
    BY <2>0, <2>2
  <2>. QED BY <1>7, <2>3 DEF OnceListed
<1>12. Allocated(v)
  <2>. SUFFICES ASSUME NEW i \in Slots, NEW n, Listed(v, i, n) PROVE v.fdOf[n] # NULL
    BY DEF Allocated
  <2>1. i # x
    BY <1>9
  <2>2. Listed(w, i, n) /\ v.fdOf[n] = w.fdOf[n]
    BY <1>10, <2>1
  <2>. QED BY <1>7, <2>2 DEF Allocated
<1>13. GoodWheel(v) /\ NoneNamed(w, v) /\ SameTable(w, v) /\ \A g \in Fds : Named(w, g) => Named(v, g)
  BY <1>5, <1>11, <1>12 DEF GoodButLists
<1>14. NodesInUse(v) \subseteq NodesInUse(w)
  BY <1>6 DEF NodesInUse
<1>. QED BY <1>6, <1>9, <1>10, <1>13, <1>14 DEF Advanced, x, index

-------------------------------------------------------------------------------
(* The descriptors *)

\* What is assumed of the constants.
LEMMA Constants ==
  /\ Fds \subseteq Nat /\ IsFiniteSet(Fds) /\ Listen \notin Fds
  /\ MaxConns \in Nat /\ MaxTransfers \in Nat /\ MaxOpens \in Nat
  /\ NULL \notin {"conn"} \X ConnIds /\ NULL \notin {"file"} \X TransferIds
  /\ NULL \notin {"own"} \X OwnIds /\ NULL \notin Nat
  BY ReactorAssumption, TimeWheelAssumption DEF ConnIds, TransferIds, OwnIds

USE Constants DEF clients, workers

\* What the reactor and the workers know of descriptors: their types, whose they
\* are, and the last node of userList for each.
OwnInv == DescriptorsOK /\ TransferOwnUntilCut /\ CurrentNodeListed

\* What transfers holds.
Transfers == [id : TransferIds, fd : Fds, conn : {"conn"} \X ConnIds, file : Fds \cup {NULL},
              at : {"open", "copy", "close", "repoll", "stray"}]

\* The descriptor that the kernel gives out is free.
LEMMA LowestIsFree ==
  ASSUME FreeFds # {}
  PROVE  LowestFd \in Fds /\ fdTab[LowestFd] = NULL
<1>1. FreeFds \subseteq Nat
  BY DEF FreeFds
<1>2. PICK f \in FreeFds : \A g \in FreeFds : ~ (<<g, f>> \in OpToRel(<, Nat))
  BY <1>1, NatLessThanWellFounded, WFMin
<1>3. ASSUME NEW g \in FreeFds PROVE f <= g
  <2>1. f \in Nat /\ g \in Nat
    BY <1>1
  <2>2. ~ (g < f)
    BY <1>2, <2>1 DEF OpToRel
  <2>. QED BY <2>1, <2>2
<1>4. LowestFd \in FreeFds
  BY <1>3 DEF LowestFd
<1>. QED BY <1>4 DEF FreeFds, Open

LEMMA InitInv == Init => OwnInv
<1> SUFFICES ASSUME Init PROVE OwnInv
  OBVIOUS
<1>. USE DEF Init
<1>1. cut \in BOOLEAN
  BY Zenon
<1>2. DescriptorsOK
  BY <1>1 DEF DescriptorsOK
<1>3. TransferOwnUntilCut /\ CurrentNodeListed
  BY DEF TransferOwnUntilCut, CurrentNodeListed, IsConn, Open
<1>. QED BY <1>2, <1>3 DEF OwnInv

\* A step that leaves the descriptors, the transfers and userList alone, and takes
\* ready descriptors from epoll.
LEMMA NothingOpens ==
  ASSUME OwnInv, UNCHANGED <<fdTab, epoll, transfers, userList, accepted, started, cut, own, opened, peak>>,
         batch' \subseteq batch \cup epoll \cup {Listen},
         closing' \in Fds \cup {NULL}, pc' = "unlist" => pc = "unlist" /\ closing' = closing
  PROVE  OwnInv'
<1>1. cut' \in BOOLEAN
  BY Zenon DEF OwnInv, DescriptorsOK
<1>2. DescriptorsOK'
  BY <1>1 DEF OwnInv, DescriptorsOK
<1>3. TransferOwnUntilCut'
  <2>1. \A t \in transfers : t.fd \in Fds /\ t.fd # Listen
    BY DEF OwnInv, DescriptorsOK
  <2>2. \A t \in transfers : t.fd \notin epoll \cup batch => t.fd \notin epoll' \cup batch'
    BY <2>1
  <2>. QED BY <2>2 DEF OwnInv, TransferOwnUntilCut
<1>4. CurrentNodeListed'
  BY DEF OwnInv, CurrentNodeListed, IsConn, Open
<1>. QED BY <1>2, <1>3, <1>4 DEF OwnInv

LEMMA EpollWaitInv == ASSUME OwnInv, EpollWait PROVE OwnInv'
  BY NothingOpens DEF EpollWait, OwnInv, DescriptorsOK

LEMMA AcceptInv == ASSUME OwnInv, Accept PROVE OwnInv'
<1>. DEFINE f == LowestFd
            c == accepted + 1
            node == [sockfd |-> f, conn |-> c]
<1>1. /\ accepted < MaxConns /\ FreeFds # {}
      /\ fdTab' = [fdTab EXCEPT ![f] = Conn(c)] /\ epoll' = epoll \cup {f}
      /\ userList' = Append(userList, node) /\ accepted' = c
      /\ batch' = batch \ {Listen} /\ pc' \in {"tick", "events"}
      /\ UNCHANGED <<cut, closing, transfers, started, own, opened, peak>>
  BY DEF Accept, Handled
<1>2. /\ f \in Fds /\ fdTab[f] = NULL /\ c \in ConnIds /\ Conn(c) \in {"conn"} \X ConnIds
      /\ node \in [sockfd : Fds, conn : ConnIds]
  BY <1>1, LowestIsFree DEF OwnInv, DescriptorsOK, ConnIds, Conn
<1>. HIDE DEF f
<1>3. cut' \in BOOLEAN
  BY <1>1, Zenon DEF OwnInv, DescriptorsOK
<1>4. DescriptorsOK'
  <2>1. fdTab' \in [Fds -> {NULL} \cup ({"conn"} \X ConnIds) \cup ({"file"} \X TransferIds)
                                   \cup ({"own"} \X OwnIds)]
    BY <1>1, <1>2 DEF OwnInv, DescriptorsOK
  <2>2. userList' \in Seq([sockfd : Fds, conn : ConnIds])
    BY <1>1, <1>2 DEF OwnInv, DescriptorsOK
  <2>3. accepted' \in 0..MaxConns
    BY <1>1 DEF OwnInv, DescriptorsOK
  <2>. QED BY <1>1, <1>2, <1>3, <2>1, <2>2, <2>3 DEF OwnInv, DescriptorsOK
<1>5. TransferOwnUntilCut'
  <2>1. ASSUME ~cut, NEW t \in transfers
        PROVE  /\ t.at \in Reading => t.fd # f
               /\ t.file # NULL => t.file # f
    BY <1>2, <2>1 DEF OwnInv, DescriptorsOK, TransferOwnUntilCut
  <2>2. ASSUME ~cut, NEW o \in own PROVE fdTab'[o.fd] = <<"own", o.id>>
    BY <1>1, <1>2, <2>2 DEF OwnInv, DescriptorsOK, TransferOwnUntilCut
  <2>. QED BY <1>1, <1>2, <2>1, <2>2 DEF OwnInv, DescriptorsOK, TransferOwnUntilCut
<1>6. CurrentNodeListed'
  <2>1. /\ Len(userList') = Len(userList) + 1 /\ Len(userList) \in Nat
        /\ \A i \in 1..Len(userList) : userList'[i] = userList[i]
        /\ userList'[Len(userList) + 1] = node
    BY <1>1, <1>2 DEF OwnInv, DescriptorsOK
  <2>2. ASSUME NEW g \in Fds, IsConn(g)'
        PROVE  \E i \in 1..Len(userList') :
                 /\ userList'[i].sockfd = g /\ Conn(userList'[i].conn) = fdTab'[g]
                 /\ \A j \in (i + 1)..Len(userList') : userList'[j].sockfd # g
    <3>1. CASE g = f
      <4>1. fdTab'[g] = Conn(c)
        BY <1>1, <1>2, <3>1 DEF OwnInv, DescriptorsOK
      <4>2. (Len(userList) + 1 + 1)..Len(userList') = {}
        BY <2>1
      <4>. QED BY <1>2, <2>1, <3>1, <4>1, <4>2
    <3>2. CASE g # f
      <4>1. IsConn(g) /\ fdTab'[g] = fdTab[g]
        BY <1>1, <2>2, <3>2 DEF OwnInv, DescriptorsOK, IsConn, Open
      <4>2. PICK i \in 1..Len(userList) :
              /\ userList[i].sockfd = g /\ Conn(userList[i].conn) = fdTab[g]
              /\ \A j \in (i + 1)..Len(userList) : userList[j].sockfd # g
        BY <4>1 DEF OwnInv, CurrentNodeListed
      <4>3. \A j \in (i + 1)..Len(userList') : j \in (i + 1)..Len(userList) \/ j = Len(userList) + 1
        BY <2>1, <4>2
      <4>4. \A j \in (i + 1)..Len(userList') : userList'[j].sockfd # g
        BY <2>1, <3>2, <4>2, <4>3
      <4>. QED BY <2>1, <4>1, <4>2, <4>4
    <3>. QED BY <3>1, <3>2
  <2>. QED BY <1>1, <2>2 DEF CurrentNodeListed
<1>. QED BY <1>4, <1>5, <1>6 DEF OwnInv

LEMMA AcceptFailedInv == ASSUME OwnInv, AcceptFailed PROVE OwnInv'
  BY NothingOpens DEF AcceptFailed, OwnInv, DescriptorsOK

LEMMA AcceptNothingInv == ASSUME OwnInv, AcceptNothing PROVE OwnInv'
  BY NothingOpens DEF AcceptNothing, Handled, OwnInv, DescriptorsOK

LEMMA CommandInv == ASSUME OwnInv, NEW f \in Fds, Command(f) PROVE OwnInv'
  BY NothingOpens DEF Command, Handled, OwnInv, DescriptorsOK

LEMMA ShortCommandInv == ASSUME OwnInv, NEW f \in Fds, ShortCommand(f) PROVE OwnInv'
  BY NothingOpens DEF ShortCommand, Handled, OwnInv, DescriptorsOK

\* A descriptor is closed that no transfer has, or tick cuts a transfer by it.
LEMMA Closes ==
  ASSUME OwnInv, NEW f, fdTab' = TabWithout(f), epoll' = epoll \ {f},
         batch' \subseteq batch,
         UNCHANGED <<transfers, userList, accepted, started, own, opened, peak>>,
         cut' \in BOOLEAN, cut => cut',
         ~cut' => \A t \in transfers : /\ t.at \in Reading => t.fd # f
                                       /\ t.file # NULL => t.file # f,
         ~cut' => \A o \in own : o.fd # f,
         closing' \in Fds \cup {NULL},
         pc' = "unlist" => \/ pc = "unlist" /\ closing' = closing
                           \/ closing' = f /\ f \in Fds
  PROVE  OwnInv'
<1>1. DescriptorsOK'
  BY DEF OwnInv, DescriptorsOK, TabWithout
<1>2. ASSUME NEW g, g # f PROVE fdTab'[g] = fdTab[g]
  BY <1>2 DEF OwnInv, DescriptorsOK, TabWithout
<1>3. TransferOwnUntilCut'
  <2>1. CASE cut'
    BY <2>1 DEF OwnInv, TransferOwnUntilCut
  <2>2. CASE ~cut'
    <3>1. ~cut
      BY <2>2, Zenon
    <3>2. \A t \in transfers : /\ t.at \in Reading => t.fd # f
                               /\ t.file # NULL => t.file # f
      BY <2>2, Zenon
    <3>3. \A t \in transfers :
            /\ t.at \in Reading =>
                 /\ fdTab[t.fd] = t.conn /\ t.fd \notin epoll \cup batch
                 /\ \A u \in transfers : u.at # "close" /\ u.fd = t.fd => u = t
            /\ t.file # NULL => fdTab[t.file] = <<"file", t.id>>
      BY <3>1, Zenon DEF OwnInv, TransferOwnUntilCut
    <3>4. ASSUME NEW t \in transfers, t.at \in Reading
          PROVE  /\ fdTab'[t.fd] = t.conn /\ t.fd \notin epoll' \cup batch'
                 /\ \A u \in transfers : u.at # "close" /\ u.fd = t.fd => u = t
      BY <1>2, <3>4, <3>2, <3>3
    <3>5. ASSUME NEW t \in transfers, t.file # NULL
          PROVE  fdTab'[t.file] = <<"file", t.id>>
      BY <1>2, <3>5, <3>2, <3>3
    <3>6. /\ \A t, u \in transfers : t.id <= started /\ (t.id = u.id => t = u)
          /\ \A o, p \in own : o.id <= opened /\ (o.id = p.id => o = p)
      BY DEF OwnInv, TransferOwnUntilCut
    <3>7. ASSUME NEW o \in own PROVE fdTab'[o.fd] = <<"own", o.id>>
      <4>1. o.fd # f /\ fdTab[o.fd] = <<"own", o.id>>
        BY <2>2, <3>1, Zenon DEF OwnInv, TransferOwnUntilCut
      <4>. QED BY <1>2, <4>1
    <3>. QED BY <3>4, <3>5, <3>6, <3>7 DEF TransferOwnUntilCut
  <2>. QED BY <2>1, <2>2
<1>4. CurrentNodeListed'
  <2>1. f \in Fds => fdTab'[f] = NULL
    BY DEF OwnInv, DescriptorsOK, TabWithout
  <2>2. \A g \in Fds : IsConn(g)' => IsConn(g) /\ g # f /\ fdTab'[g] = fdTab[g]
    BY <1>2, <2>1 DEF IsConn, Open
  <2>. QED BY <2>1, <2>2 DEF OwnInv, CurrentNodeListed, IsConn, Open
<1>. QED BY <1>1, <1>3, <1>4 DEF OwnInv

\* A task is added, of a connection that the reactor has been reading; no other task
\* reads it, or the transfer counts as cut.
LEMMA Begins ==
  ASSUME OwnInv, NEW f \in Fds, NEW at \in {"open", "stray"}, f \in batch, IsConn(f),
         started < MaxTransfers, started' = started + 1,
         transfers' = transfers \cup {Task(f, at)}, batch' = batch \ {f},
         epoll' = IF at = "open" THEN epoll \ {f} ELSE epoll,
         cut' \in BOOLEAN, cut => cut',
         at = "open" /\ ~cut' => \A t \in transfers : t.at = "stray" => t.fd # f,
         pc' \in {"tick", "events"},
         UNCHANGED <<fdTab, userList, closing, accepted, own, opened, peak>>
  PROVE  OwnInv'
<1>. DEFINE new == Task(f, at)
<1>2. fdTab[f] \in {"conn"} \X ConnIds /\ started + 1 \in TransferIds
  BY DEF OwnInv, DescriptorsOK, IsConn, Open, TransferIds
<1>3. /\ new.id = started + 1 /\ new.fd = f /\ new.conn = fdTab[f] /\ new.file = NULL
      /\ new.at = at /\ (new.at \in Reading <=> at = "open") /\ new.at # "close"
      /\ new \in Transfers
  BY <1>2 DEF Task, Reading, Transfers
<1>4. transfers' = transfers \cup {new}
  OBVIOUS
<1>. HIDE DEF new
<1>5. DescriptorsOK'
  BY <1>3, <1>4 DEF OwnInv, DescriptorsOK, Transfers
<1>6. TransferOwnUntilCut'
  <2>1. \A t, u \in transfers' : t.id <= started' /\ (t.id = u.id => t = u)
    <3>1. \A t \in transfers : t.id \in Nat /\ t.id <= started
      BY DEF OwnInv, DescriptorsOK, TransferOwnUntilCut, TransferIds
    <3>2. started \in Nat
      BY DEF OwnInv, DescriptorsOK
    <3>. QED BY <1>3, <1>4, <3>1, <3>2 DEF OwnInv, TransferOwnUntilCut
  <2>2. ASSUME ~cut, NEW t \in transfers, t.at \in Reading PROVE t.fd # f
    BY <2>2 DEF OwnInv, TransferOwnUntilCut
  <2>3. ASSUME ~cut', at = "open", NEW t \in transfers, t.at # "close" PROVE t.fd # f
    <3>1. t.at \in Reading \/ t.at = "stray"
      BY <2>3 DEF OwnInv, DescriptorsOK, Reading
    <3>2. ~cut
      BY <2>3
    <3>3. CASE t.at \in Reading
      BY <2>2, <3>2, <3>3
    <3>4. CASE t.at = "stray"
      BY <2>3, <3>4
    <3>. QED BY <3>1, <3>3, <3>4
  <2>4. ASSUME ~cut', NEW t \in transfers', t.at \in Reading
        PROVE  /\ fdTab[t.fd] = t.conn /\ t.fd \notin epoll' \cup batch'
               /\ \A u \in transfers' : u.at # "close" /\ u.fd = t.fd => u = t
    <3>1. CASE t \in transfers
      <4>1. ~cut /\ t.fd # f
        BY <2>2, <2>4, <3>1
      <4>2. /\ fdTab[t.fd] = t.conn /\ t.fd \notin epoll \cup batch
            /\ \A u \in transfers : u.at # "close" /\ u.fd = t.fd => u = t
        BY <2>4, <3>1, <4>1 DEF OwnInv, TransferOwnUntilCut
      <4>. QED BY <1>3, <1>4, <2>4, <4>1, <4>2 DEF Reading
    <3>2. CASE t = new /\ at = "open"
      <4>1. f \notin epoll' \cup batch'
        BY <3>2
      <4>2. \A u \in transfers' : u.at # "close" /\ u.fd = f => u = new
        BY <1>4, <2>3, <2>4, <3>2
      <4>. QED BY <1>3, <3>2, <4>1, <4>2
    <3>. QED BY <1>3, <1>4, <2>4, <3>1, <3>2
  <2>5. ASSUME ~cut', NEW t \in transfers', t.file # NULL PROVE fdTab[t.file] = <<"file", t.id>>
    <3>1. t \in transfers /\ ~cut
      BY <1>3, <1>4, <2>5
    <3>. QED BY <2>5, <3>1 DEF OwnInv, TransferOwnUntilCut
  <2>6. ~cut' => \A o \in own : fdTab[o.fd] = <<"own", o.id>>
    BY DEF OwnInv, TransferOwnUntilCut
  <2>7. \A o, p \in own : o.id <= opened /\ (o.id = p.id => o = p)
    BY DEF OwnInv, TransferOwnUntilCut
  <2>. QED BY <2>1, <2>4, <2>5, <2>6, <2>7 DEF TransferOwnUntilCut
<1>7. CurrentNodeListed'
  BY DEF OwnInv, CurrentNodeListed, IsConn, Open
<1>. QED BY <1>5, <1>6, <1>7 DEF OwnInv

LEMMA TransferInv == ASSUME OwnInv, NEW f \in Fds, Transfer(f) PROVE OwnInv'
<1>1. /\ f \in batch /\ IsConn(f) /\ started < MaxTransfers
      /\ epoll' = epoll \ {f} /\ transfers' = transfers \cup {Task(f, "open")}
      /\ started' = started + 1 /\ batch' = batch \ {f} /\ pc' \in {"tick", "events"}
      /\ UNCHANGED <<fdTab, userList, closing, accepted, own, opened, peak>>
  BY DEF Transfer, Received, Ready, Handled
<1>2. cut' = (cut \/ \E t \in transfers : t.at = "stray" /\ t.fd = f)
  BY DEF Transfer
<1>3. cut' \in BOOLEAN /\ (cut => cut') /\ (~cut' => \A t \in transfers : t.at = "stray" => t.fd # f)
  <2>1. cut \in BOOLEAN
    BY Zenon DEF OwnInv, DescriptorsOK
  <2>. QED BY <1>2, <2>1, Zenon
<1>. QED BY <1>1, <1>3, Begins

LEMMA StrayTransferInv == ASSUME OwnInv, NEW f \in Fds, StrayTransfer(f) PROVE OwnInv'
<1>1. /\ f \in batch /\ IsConn(f) /\ started < MaxTransfers
      /\ epoll' = epoll /\ transfers' = transfers \cup {Task(f, "stray")}
      /\ started' = started + 1 /\ batch' = batch \ {f} /\ pc' \in {"tick", "events"}
      /\ UNCHANGED <<fdTab, userList, closing, accepted, own, opened, peak>>
  BY DEF StrayTransfer, Ready, Handled
<1>2. cut' \in BOOLEAN /\ (cut => cut')
  BY Zenon DEF StrayTransfer, OwnInv, DescriptorsOK
<1>. QED BY <1>1, <1>2, Begins

LEMMA HangupInv == ASSUME OwnInv, NEW f \in Fds, Hangup(f) PROVE OwnInv'
<1>1. /\ f \in batch /\ IsConn(f) /\ batch' \subseteq batch
      /\ epoll' = epoll \ {f} /\ fdTab' = TabWithout(f) /\ closing' = f
      /\ UNCHANGED <<cut, transfers, userList, accepted, started, own, opened, peak>>
  BY DEF Hangup, Ready
<1>2. cut' \in BOOLEAN
  BY <1>1, Zenon DEF OwnInv, DescriptorsOK
<1>3. ASSUME ~cut, NEW t \in transfers
      PROVE  (t.at \in Reading => t.fd # f) /\ (t.file # NULL => t.file # f)
  BY <1>1, <1>3 DEF OwnInv, DescriptorsOK, TransferOwnUntilCut, IsConn
<1>4. pc' = "unlist" => closing' = f /\ f \in Fds
  BY <1>1
<1>5. ASSUME ~cut, NEW o \in own PROVE o.fd # f
  BY <1>1, <1>5 DEF OwnInv, DescriptorsOK, TransferOwnUntilCut, IsConn
<1>. QED BY <1>1, <1>2, <1>3, <1>4, <1>5, Closes

LEMMA UnlistInv == ASSUME OwnInv, Unlist PROVE OwnInv'
<1>1. /\ pc = "unlist" /\ closing' = NULL /\ pc' \in {"tick", "events"}
      /\ userList' = IF userList # <<>> /\ userList[1].sockfd = closing
                     THEN Tail(userList) ELSE userList
      /\ UNCHANGED <<cut, fdTab, epoll, batch, transfers, accepted, started, own, opened, peak>>
  BY DEF Unlist
<1>2. CASE userList = <<>> \/ userList[1].sockfd # closing
  <2>1. userList' = userList
    BY <1>1, <1>2
  <2>. QED BY <1>1, <2>1, NothingOpens DEF OwnInv, DescriptorsOK
<1>3. CASE userList # <<>> /\ userList[1].sockfd = closing
  <2>1. /\ userList' = Tail(userList) /\ Len(userList') = Len(userList) - 1
        /\ Len(userList) \in Nat
        /\ \A i \in 1..Len(userList') : userList'[i] = userList[i + 1]
        /\ userList' \in Seq([sockfd : Fds, conn : ConnIds])
    BY <1>1, <1>3 DEF OwnInv, DescriptorsOK
  <2>2. cut' \in BOOLEAN
    BY <1>1, Zenon DEF OwnInv, DescriptorsOK
  <2>3. DescriptorsOK'
    BY <1>1, <2>1, <2>2 DEF OwnInv, DescriptorsOK
  <2>4. TransferOwnUntilCut'
    BY <1>1 DEF OwnInv, TransferOwnUntilCut
  <2>5. ASSUME NEW f \in Fds, IsConn(f)
        PROVE  \E i \in 1..Len(userList') :
                 /\ userList'[i].sockfd = f /\ Conn(userList'[i].conn) = fdTab[f]
                 /\ \A j \in (i + 1)..Len(userList') : userList'[j].sockfd # f
    <3>1. f # closing
      BY <1>1, <2>5 DEF OwnInv, CurrentNodeListed
    <3>2. PICK i \in 1..Len(userList) :
            /\ userList[i].sockfd = f /\ Conn(userList[i].conn) = fdTab[f]
            /\ \A j \in (i + 1)..Len(userList) : userList[j].sockfd # f
      BY <2>5 DEF OwnInv, CurrentNodeListed
    <3>3. i # 1
      BY <1>3, <3>1, <3>2
    <3>4. i - 1 \in 1..Len(userList') /\ userList'[i - 1] = userList[i]
      BY <2>1, <3>2, <3>3
    <3>5. ASSUME NEW j \in (i - 1 + 1)..Len(userList') PROVE userList'[j].sockfd # f
      <4>1. j + 1 \in (i + 1)..Len(userList) /\ j \in 1..Len(userList')
        BY <2>1, <3>2
      <4>. QED BY <2>1, <3>2, <4>1
    <3>. QED BY <3>2, <3>4, <3>5
  <2>6. CurrentNodeListed'
    <3>1. pc' # "unlist" /\ fdTab' = fdTab
      BY <1>1
    <3>2. \A f \in Fds : IsConn(f)' => IsConn(f)
      BY <3>1 DEF IsConn, Open
    <3>. QED BY <2>5, <3>1, <3>2 DEF CurrentNodeListed
  <2>. QED BY <2>3, <2>4, <2>6 DEF OwnInv
<1>. QED BY <1>2, <1>3

LEMMA TickStartInv == ASSUME OwnInv, TickStart PROVE OwnInv'
  BY NothingOpens DEF TickStart, TickDone, OwnInv, DescriptorsOK

LEMMA TickVisitInv == ASSUME OwnInv, TickVisit PROVE OwnInv'
<1>. DEFINE f == wheel.fdOf[current]
<1>1. /\ fdTab' = TabWithout(f) /\ epoll' = epoll \ {f}
      /\ cut' = (cut \/ (\E t \in transfers : Uses(t, f)) \/ (\E o \in own : Holds(o, f)))
      /\ pc' \in {"ticked", "visit"}
      /\ UNCHANGED <<batch, closing, transfers, userList, accepted, started, own, opened, peak>>
  BY DEF TickVisit
<1>. HIDE DEF f
<1>2. cut' \in BOOLEAN
  <2>1. cut \in BOOLEAN
    BY DEF OwnInv, DescriptorsOK
  <2>. QED BY <1>1, <2>1, Zenon
<1>3. ASSUME ~cut', NEW t \in transfers
      PROVE  (t.at \in Reading => t.fd # f) /\ (t.file # NULL => t.file # f)
  BY <1>1, <1>3 DEF OwnInv, TransferOwnUntilCut, Uses
<1>4. closing' \in Fds \cup {NULL} /\ pc' # "unlist" /\ (cut => cut')
  BY <1>1 DEF OwnInv, DescriptorsOK
<1>5. ASSUME ~cut', NEW o \in own PROVE o.fd # f
  BY <1>1, <1>5 DEF OwnInv, TransferOwnUntilCut, Holds
<1>. QED BY <1>1, <1>2, <1>3, <1>4, <1>5, Closes

LEMMA TickVisitFreedInv == ASSUME OwnInv, TickVisitFreed PROVE OwnInv'
  BY NothingOpens DEF TickVisitFreed, OwnInv, DescriptorsOK

LEMMA TickEndInv == ASSUME OwnInv, TickEnd PROVE OwnInv'
  BY NothingOpens DEF TickEnd, TickDone, OwnInv, DescriptorsOK

-------------------------------------------------------------------------------
(* The workers *)

\* A worker's step changes no connection: userList stays right.
LEMMA ConnsStay ==
  ASSUME OwnInv, UNCHANGED <<userList, closing>>, pc' = "unlist" => pc = "unlist",
         \A g \in Fds : IsConn(g)' => IsConn(g) /\ fdTab'[g] = fdTab[g]
  PROVE  CurrentNodeListed'
<1>1. pc' = "unlist" => closing' \in Fds /\ ~IsConn(closing)'
  BY DEF OwnInv, CurrentNodeListed, IsConn, Open
<1>. QED BY <1>1 DEF OwnInv, CurrentNodeListed, IsConn, Open

\* The numbers in the workers' hands can be counted.
LEMMA BusyCounted == IsFiniteSet(Busy) /\ Cardinality(Busy) \in Nat
<1>1. IsFiniteSet(Fds) /\ Busy \subseteq Fds
  BY ReactorAssumption DEF Busy
<1>. QED BY <1>1, FS_Subset, FS_CardinalityType

LEMMA PeakGrows == ASSUME DescriptorsOK, PeakNow
                   PROVE  peak' \in Nat /\ peak <= peak' /\ Cardinality(Busy') <= peak'
<1>1. PICK B : B = Busy'
  OBVIOUS
<1>2. IsFiniteSet(B) /\ Cardinality(B) \in Nat
  <2>1. IsFiniteSet(Fds) /\ B \subseteq Fds
    BY <1>1, ReactorAssumption DEF Busy
  <2>. QED BY <2>1, FS_Subset, FS_CardinalityType
<1>3. peak' = IF Cardinality(B) > peak THEN Cardinality(B) ELSE peak
  BY <1>1 DEF PeakNow
<1>4. PICK c \in Nat, p \in Nat : c = Cardinality(B) /\ p = peak
  BY <1>2 DEF DescriptorsOK
<1>. QED BY <1>1, <1>3, <1>4

\* The table with something in place f.
TabWith(f, thing) == [fdTab EXCEPT ![f] = thing]

\* A worker takes a free number for what is no connection.
LEMMA LowestTaken ==
  ASSUME OwnInv, FreeFds # {}, NEW f, f = LowestFd, NEW thing, fdTab' = TabWith(f, thing),
         thing \in ({"file"} \X TransferIds) \cup ({"own"} \X OwnIds),
         UNCHANGED <<cut, epoll, userList, pc, batch, closing, accepted, started>>
  PROVE  /\ f \in Fds /\ fdTab[f] = NULL /\ cut' \in BOOLEAN /\ (cut' <=> cut)
         /\ \A g \in Fds : g # f => fdTab'[g] = fdTab[g]
         /\ fdTab'[f] = thing
         /\ fdTab' \in [Fds -> {NULL} \cup ({"conn"} \X ConnIds) \cup ({"file"} \X TransferIds)
                                     \cup ({"own"} \X OwnIds)]
         /\ ~cut => /\ \A u \in transfers : /\ u.at \in Reading => u.fd \in Fds /\ u.fd # f
                                            /\ u.file # NULL => u.file \in Fds /\ u.file # f
                    /\ \A o \in own : o.fd \in Fds /\ o.fd # f
         /\ CurrentNodeListed'
<1>1. f \in Fds /\ fdTab[f] = NULL
  BY LowestIsFree
<1>2. cut' \in BOOLEAN /\ (cut' <=> cut)
  BY Zenon DEF OwnInv, DescriptorsOK
<1>3. /\ \A g \in Fds : g # f => fdTab'[g] = fdTab[g]
      /\ fdTab'[f] = thing
      /\ fdTab' \in [Fds -> {NULL} \cup ({"conn"} \X ConnIds) \cup ({"file"} \X TransferIds)
                                  \cup ({"own"} \X OwnIds)]
  BY <1>1 DEF OwnInv, DescriptorsOK, TabWith
<1>4. ASSUME ~cut, NEW u \in transfers
      PROVE  /\ u.at \in Reading => u.fd \in Fds /\ u.fd # f
             /\ u.file # NULL => u.file \in Fds /\ u.file # f
  BY <1>1, <1>4 DEF OwnInv, DescriptorsOK, TransferOwnUntilCut
<1>5. ASSUME ~cut, NEW o \in own PROVE o.fd \in Fds /\ o.fd # f
  <2>1. o.fd \in Fds /\ o.id \in OwnIds /\ fdTab[o.fd] = <<"own", o.id>>
    BY <1>5 DEF OwnInv, DescriptorsOK, TransferOwnUntilCut
  <2>. QED BY <1>1, <2>1
<1>6. CurrentNodeListed'
  <2>1. \A g \in Fds : IsConn(g)' => IsConn(g) /\ fdTab'[g] = fdTab[g]
    <3>1. thing[1] # "conn"
      OBVIOUS
    <3>. QED BY <1>3, <3>1 DEF IsConn, Open
  <2>. QED BY <2>1, ConnsStay
<1>. QED BY <1>1, <1>2, <1>3, <1>4, <1>5, <1>6

LEMMA OpenFileInv == ASSUME OwnInv, NEW t \in transfers, OpenFile(t) PROVE OwnInv'
<1>. DEFINE f == LowestFd
            new == [t EXCEPT !.at = "copy", !.file = f]
<1>1. /\ t.at = "open" /\ FreeFds # {} /\ fdTab' = [fdTab EXCEPT ![f] = <<"file", t.id>>]
      /\ transfers' = (transfers \ {t}) \cup {new}
      /\ UNCHANGED <<cut, epoll, userList, pc, batch, closing, accepted, started, own, opened>>
  BY DEF OpenFile
<1>2. f = LowestFd
  OBVIOUS
<1>. HIDE DEF f
<1>3. t \in Transfers
  BY DEF OwnInv, DescriptorsOK, Transfers
<1>. DEFINE thing == <<"file", t.id>>
<1>4. /\ thing \in ({"file"} \X TransferIds) \cup ({"own"} \X OwnIds)
      /\ fdTab' = TabWith(f, thing)
  BY <1>1, <1>3 DEF Transfers, TabWith
<1>. HIDE DEF thing
<1>5. /\ f \in Fds /\ fdTab[f] = NULL /\ cut' \in BOOLEAN /\ (cut' <=> cut)
      /\ \A g \in Fds : g # f => fdTab'[g] = fdTab[g]
      /\ fdTab'[f] = thing
      /\ fdTab' \in [Fds -> {NULL} \cup ({"conn"} \X ConnIds) \cup ({"file"} \X TransferIds)
                                  \cup ({"own"} \X OwnIds)]
      /\ ~cut => /\ \A u \in transfers : /\ u.at \in Reading => u.fd \in Fds /\ u.fd # f
                                         /\ u.file # NULL => u.file \in Fds /\ u.file # f
                 /\ \A o \in own : o.fd \in Fds /\ o.fd # f
      /\ CurrentNodeListed'
  BY <1>1, <1>2, <1>4, LowestTaken
<1>6. /\ new \in Transfers /\ new.id = t.id /\ new.fd = t.fd /\ new.conn = t.conn
      /\ new.at = "copy" /\ new.file = f /\ t.at \in Reading
      /\ fdTab'[f] = <<"file", t.id>>
  BY <1>1, <1>3, <1>5 DEF Transfers, Reading, thing
<1>. HIDE DEF new
<1>7. peak' \in Nat
  BY PeakGrows DEF OpenFile, OwnInv
<1>8. DescriptorsOK'
  BY <1>1, <1>5, <1>6, <1>7 DEF OwnInv, DescriptorsOK, Transfers
<1>9. TransferOwnUntilCut'
  <2>1. \A u, v \in transfers' : u.id <= started' /\ (u.id = v.id => u = v)
    BY <1>1, <1>6 DEF OwnInv, TransferOwnUntilCut
  <2>2. ASSUME ~cut, NEW u \in transfers', u.at \in Reading
        PROVE  /\ fdTab'[u.fd] = u.conn /\ u.fd \notin epoll' \cup batch'
               /\ \A v \in transfers' : v.at # "close" /\ v.fd = u.fd => v = u
    <3>1. PICK w \in transfers : /\ w.fd = u.fd /\ w.conn = u.conn /\ w.at \in Reading
                                 /\ (u = new => w = t) /\ (u # new => w = u)
      BY <1>1, <1>6, <2>2
    <3>2. /\ fdTab[w.fd] = w.conn /\ w.fd \notin epoll \cup batch
          /\ \A v \in transfers : v.at # "close" /\ v.fd = w.fd => v = w
      BY <2>2, <3>1 DEF OwnInv, TransferOwnUntilCut
    <3>3. t.at # "close"
      BY <1>1
    <3>. QED BY <1>1, <1>5, <1>6, <2>2, <3>1, <3>2, <3>3
  <2>3. ASSUME ~cut, NEW u \in transfers', u.file # NULL PROVE fdTab'[u.file] = <<"file", u.id>>
    BY <1>1, <1>5, <1>6, <2>3 DEF OwnInv, TransferOwnUntilCut
  <2>4. ASSUME ~cut, NEW o \in own' PROVE fdTab'[o.fd] = <<"own", o.id>>
    BY <1>1, <1>5, <2>4 DEF OwnInv, TransferOwnUntilCut
  <2>5. \A o, p \in own' : o.id <= opened' /\ (o.id = p.id => o = p)
    BY <1>1 DEF OwnInv, TransferOwnUntilCut
  <2>. QED BY <1>5, <2>1, <2>2, <2>3, <2>4, <2>5 DEF TransferOwnUntilCut
<1>. QED BY <1>5, <1>8, <1>9 DEF OwnInv

LEMMA OpenOwnInv == ASSUME OwnInv, OpenOwn PROVE OwnInv'
<1>. DEFINE f == LowestFd
            new == [id |-> opened + 1, fd |-> f]
<1>1. /\ opened < MaxOpens /\ FreeFds # {} /\ fdTab' = [fdTab EXCEPT ![f] = <<"own", opened + 1>>]
      /\ own' = own \cup {new} /\ opened' = opened + 1
      /\ UNCHANGED <<cut, epoll, userList, pc, batch, closing, accepted, started, transfers>>
  BY DEF OpenOwn
<1>2. f = LowestFd
  OBVIOUS
<1>. HIDE DEF f
<1>3. opened \in Nat /\ opened + 1 \in OwnIds
  BY <1>1 DEF OwnInv, DescriptorsOK, OwnIds
<1>. DEFINE thing == <<"own", opened + 1>>
<1>4. /\ thing \in ({"file"} \X TransferIds) \cup ({"own"} \X OwnIds)
      /\ fdTab' = TabWith(f, thing)
  BY <1>1, <1>3 DEF TabWith
<1>. HIDE DEF thing
<1>5. /\ f \in Fds /\ fdTab[f] = NULL /\ cut' \in BOOLEAN /\ (cut' <=> cut)
      /\ \A g \in Fds : g # f => fdTab'[g] = fdTab[g]
      /\ fdTab'[f] = thing
      /\ fdTab' \in [Fds -> {NULL} \cup ({"conn"} \X ConnIds) \cup ({"file"} \X TransferIds)
                                  \cup ({"own"} \X OwnIds)]
      /\ ~cut => /\ \A u \in transfers : /\ u.at \in Reading => u.fd \in Fds /\ u.fd # f
                                         /\ u.file # NULL => u.file \in Fds /\ u.file # f
                 /\ \A o \in own : o.fd \in Fds /\ o.fd # f
      /\ CurrentNodeListed'
  BY <1>1, <1>2, <1>4, LowestTaken
<1>6. /\ new \in [id : OwnIds, fd : Fds] /\ new.id = opened + 1 /\ new.fd = f
      /\ fdTab'[f] = <<"own", opened + 1>>
  BY <1>3, <1>5 DEF thing
<1>. HIDE DEF new
<1>7. peak' \in Nat
  BY PeakGrows DEF OpenOwn, OwnInv
<1>8. DescriptorsOK'
  BY <1>1, <1>3, <1>5, <1>6, <1>7 DEF OwnInv, DescriptorsOK
<1>9. TransferOwnUntilCut'
  <2>1. \A o, p \in own' : o.id <= opened' /\ (o.id = p.id => o = p)
    <3>1. \A o \in own : o.id \in Nat /\ o.id <= opened
      BY DEF OwnInv, DescriptorsOK, TransferOwnUntilCut, OwnIds
    <3>. QED BY <1>1, <1>3, <1>6, <3>1 DEF OwnInv, TransferOwnUntilCut
  <2>2. ASSUME ~cut, NEW o \in own' PROVE fdTab'[o.fd] = <<"own", o.id>>
    BY <1>1, <1>5, <1>6, <2>2 DEF OwnInv, TransferOwnUntilCut
  <2>. QED BY <1>1, <1>5, <2>1, <2>2 DEF OwnInv, TransferOwnUntilCut
<1>. QED BY <1>5, <1>8, <1>9 DEF OwnInv

\* A connection is polled again, whose task no longer reads it.
LEMMA GivesBack ==
  ASSUME OwnInv, NEW t \in transfers, t.at \in Reading \/ t.at = "stray", NEW rest \in SUBSET Transfers,
         transfers' = (transfers \ {t}) \cup rest,
         \A u \in rest : u.at = "close" /\ u.id = t.id /\ u.file = t.file,
         \A u, v \in rest : u = v,
         PollAgain(t.fd),
         UNCHANGED <<cut, fdTab, userList, batch, closing, accepted, started, own, opened, peak>>
  PROVE  OwnInv'
<1>0. epoll' \subseteq epoll \cup {t.fd} /\ pc' \in {pc, "undefined"}
  BY DEF PollAgain
<1>1. t \in Transfers
  BY DEF OwnInv, DescriptorsOK, Transfers
<1>2. cut' \in BOOLEAN
  BY Zenon DEF OwnInv, DescriptorsOK
<1>3. DescriptorsOK'
  BY <1>0, <1>1, <1>2 DEF OwnInv, DescriptorsOK, Transfers
<1>4. TransferOwnUntilCut'
  <2>1. /\ \A u, v \in transfers' : u.id <= started' /\ (u.id = v.id => u = v)
        /\ \A o, p \in own' : o.id <= opened' /\ (o.id = p.id => o = p)
    BY DEF OwnInv, TransferOwnUntilCut
  <2>2. ASSUME ~cut, NEW u \in transfers', u.at \in Reading
        PROVE  /\ fdTab[u.fd] = u.conn /\ u.fd \notin epoll' \cup batch
               /\ \A v \in transfers' : v.at # "close" /\ v.fd = u.fd => v = u
    <3>1. u \in transfers /\ u # t
      BY <2>2 DEF Reading
    <3>2. u.fd # t.fd
      <4>1. t.at # "close"
        BY DEF Reading
      <4>. QED BY <2>2, <3>1, <4>1 DEF OwnInv, TransferOwnUntilCut
    <3>. QED BY <1>0, <2>2, <3>1, <3>2 DEF OwnInv, TransferOwnUntilCut
  <2>3. ASSUME ~cut, NEW u \in transfers', u.file # NULL PROVE fdTab[u.file] = <<"file", u.id>>
    BY <2>3 DEF OwnInv, TransferOwnUntilCut
  <2>4. ASSUME ~cut, NEW o \in own' PROVE fdTab[o.fd] = <<"own", o.id>>
    BY <2>4 DEF OwnInv, TransferOwnUntilCut
  <2>. QED BY <2>1, <2>2, <2>3, <2>4 DEF TransferOwnUntilCut
<1>5. CurrentNodeListed'
  BY <1>0, ConnsStay DEF IsConn, Open
<1>. QED BY <1>3, <1>4, <1>5 DEF OwnInv

LEMMA OpenFailsInv == ASSUME OwnInv, OpenFails PROVE OwnInv'
  BY NothingOpens DEF OpenFails, OwnInv, DescriptorsOK

LEMMA GiveUpInv == ASSUME OwnInv, NEW t \in transfers, GiveUp(t) PROVE OwnInv'
<1>1. transfers' = (transfers \ {t}) \cup {} /\ {} \in SUBSET Transfers
  BY DEF GiveUp
<1>2. /\ (t.at \in Reading \/ t.at = "stray") /\ PollAgain(t.fd)
      /\ UNCHANGED <<cut, fdTab, userList, batch, closing, accepted, started, own, opened, peak>>
  BY DEF GiveUp, Reading
<1>. QED BY <1>1, <1>2, GivesBack

LEMMA RepollInv == ASSUME OwnInv, NEW t \in transfers, Repoll(t) PROVE OwnInv'
<1>. DEFINE new == [t EXCEPT !.at = "close"]
            rest == IF t.at = "copy" THEN {new} ELSE {}
<1>1. /\ t.at \in {"copy", "repoll"} /\ transfers' = (transfers \ {t}) \cup rest
      /\ PollAgain(t.fd)
      /\ UNCHANGED <<cut, fdTab, userList, batch, closing, accepted, started, own, opened, peak>>
  BY DEF Repoll, At
<1>2. t \in Transfers
  BY DEF OwnInv, DescriptorsOK, Transfers
<1>3. new \in Transfers /\ new.at = "close" /\ new.id = t.id /\ new.file = t.file
  BY <1>2 DEF Transfers
<1>. HIDE DEF new
<1>4. /\ rest \in SUBSET Transfers /\ \A u, v \in rest : u = v
      /\ \A u \in rest : u.at = "close" /\ u.id = t.id /\ u.file = t.file
  BY <1>3
<1>5. t.at \in Reading
  BY <1>1 DEF Reading
<1>. HIDE DEF rest
<1>. QED BY <1>1, <1>4, <1>5, GivesBack

\* A worker closes a number that no other has in hand, unless tick has cut it off.
LEMMA Releases ==
  ASSUME OwnInv, NEW f, fdTab' = TabWithout(f), epoll' = epoll \ {f},
         transfers' \subseteq Transfers, own' \subseteq own,
         \A u, v \in transfers' : u.id <= started /\ (u.id = v.id => u = v),
         ~cut => \A u \in transfers' :
           /\ u.at \in Reading =>
                /\ fdTab[u.fd] = u.conn /\ u.fd \notin epoll \cup batch /\ u.fd # f
                /\ \A v \in transfers' : v.at # "close" /\ v.fd = u.fd => v = u
           /\ u.file # NULL => fdTab[u.file] = <<"file", u.id>> /\ u.file # f,
         ~cut => \A o \in own' : o.fd # f,
         UNCHANGED <<cut, userList, pc, batch, closing, accepted, started, opened, peak>>
  PROVE  OwnInv'
<1>2. cut' \in BOOLEAN /\ (cut' <=> cut)
  BY Zenon DEF OwnInv, DescriptorsOK
<1>3. DescriptorsOK'
  BY <1>2 DEF OwnInv, DescriptorsOK, TabWithout, Transfers
<1>4. ASSUME NEW g, g # f PROVE fdTab'[g] = fdTab[g]
  BY <1>4 DEF OwnInv, DescriptorsOK, TabWithout
<1>5. TransferOwnUntilCut'
  <2>1. ASSUME ~cut, NEW u \in transfers', u.at \in Reading
        PROVE  /\ fdTab'[u.fd] = u.conn /\ u.fd \notin epoll' \cup batch'
               /\ \A v \in transfers' : v.at # "close" /\ v.fd = u.fd => v = u
    BY <1>4, <2>1
  <2>2. ASSUME ~cut, NEW u \in transfers', u.file # NULL PROVE fdTab'[u.file] = <<"file", u.id>>
    BY <1>4, <2>2
  <2>3. ASSUME ~cut, NEW o \in own' PROVE fdTab'[o.fd] = <<"own", o.id>>
    BY <1>4, <2>3 DEF OwnInv, TransferOwnUntilCut
  <2>4. \A o, p \in own' : o.id <= opened' /\ (o.id = p.id => o = p)
    BY DEF OwnInv, TransferOwnUntilCut
  <2>. QED BY <1>2, <2>1, <2>2, <2>3, <2>4 DEF TransferOwnUntilCut
<1>6. \A g \in Fds : IsConn(g)' => IsConn(g) /\ fdTab'[g] = fdTab[g]
  BY DEF OwnInv, DescriptorsOK, TabWithout, IsConn, Open
<1>. QED BY <1>3, <1>5, <1>6, ConnsStay DEF OwnInv

LEMMA CloseFileInv == ASSUME OwnInv, NEW t \in transfers, CloseFile(t) PROVE OwnInv'
<1>. DEFINE new == [t EXCEPT !.at = "repoll", !.file = NULL]
<1>1. /\ t.at \in {"copy", "close"} /\ fdTab' = TabWithout(t.file) /\ epoll' = epoll \ {t.file}
      /\ transfers' = IF t.at = "close" THEN transfers \ {t} ELSE (transfers \ {t}) \cup {new}
      /\ UNCHANGED <<cut, userList, pc, batch, closing, accepted, started, own, opened, peak>>
  BY DEF CloseFile
<1>2. t \in Transfers /\ transfers \subseteq Transfers
  BY DEF OwnInv, DescriptorsOK, Transfers
<1>3. /\ new \in Transfers /\ new.id = t.id /\ new.fd = t.fd /\ new.conn = t.conn
      /\ new.file = NULL
  BY <1>2 DEF Transfers
<1>. HIDE DEF new
<1>4. transfers' \subseteq (transfers \ {t}) \cup {new} /\ (new \in transfers' => new \in transfers \/ t.at = "copy")
  BY <1>1
<1>5. \A u, v \in transfers' : u.id <= started /\ (u.id = v.id => u = v)
  BY <1>3, <1>4 DEF OwnInv, TransferOwnUntilCut
<1>6. ASSUME ~cut, NEW u \in transfers, u # t
      PROVE  /\ u.at \in Reading => u.fd # t.file
             /\ u.file # NULL => u.file # t.file
  <2>1. /\ u.at \in Reading => u.fd \in Fds /\ fdTab[u.fd] \in {"conn"} \X ConnIds
        /\ u.file # NULL => fdTab[u.file] = <<"file", u.id>>
        /\ t.file # NULL => fdTab[t.file] = <<"file", t.id>>
        /\ u.id # t.id
    BY <1>6 DEF OwnInv, DescriptorsOK, TransferOwnUntilCut
  <2>2. CASE t.file = NULL
    BY <2>1, <2>2
  <2>3. CASE t.file # NULL
    BY <2>1, <2>3
  <2>. QED BY <2>2, <2>3
<1>7. ASSUME ~cut, t.at = "copy" PROVE t.fd # t.file
  <2>1. t.fd \in Fds /\ fdTab[t.fd] \in {"conn"} \X ConnIds
    BY <1>7 DEF OwnInv, DescriptorsOK, TransferOwnUntilCut, Reading
  <2>2. t.file # NULL => fdTab[t.file] = <<"file", t.id>>
    BY <1>7 DEF OwnInv, TransferOwnUntilCut
  <2>3. ~ (<<"file", t.id>> \in {"conn"} \X ConnIds)
    OBVIOUS
  <2>. QED BY <2>1, <2>2, <2>3
<1>8. ASSUME ~cut, NEW u \in transfers', u.at \in Reading
      PROVE  /\ fdTab[u.fd] = u.conn /\ u.fd \notin epoll \cup batch /\ u.fd # t.file
             /\ \A v \in transfers' : v.at # "close" /\ v.fd = u.fd => v = u
  <2>1. CASE u \in transfers /\ u # t
    <3>1. /\ fdTab[u.fd] = u.conn /\ u.fd \notin epoll \cup batch
          /\ \A v \in transfers : v.at # "close" /\ v.fd = u.fd => v = u
      BY <1>8, <2>1 DEF OwnInv, TransferOwnUntilCut
    <3>2. ASSUME NEW v \in transfers', v.at # "close", v.fd = u.fd PROVE v = u
      <4>1. CASE v \in transfers
        BY <3>1, <3>2, <4>1
      <4>2. CASE v = new /\ t.at = "copy"
        BY <1>3, <2>1, <3>1, <3>2, <4>2
      <4>. QED BY <1>4, <3>2, <4>1, <4>2
    <3>. QED BY <1>6, <1>8, <2>1, <3>1, <3>2
  <2>2. CASE u = new /\ t.at = "copy"
    <3>1. /\ fdTab[t.fd] = t.conn /\ t.fd \notin epoll \cup batch
          /\ \A v \in transfers : v.at # "close" /\ v.fd = t.fd => v = t
      BY <1>8, <2>2 DEF OwnInv, TransferOwnUntilCut, Reading
    <3>2. ASSUME NEW v \in transfers', v.at # "close", v.fd = u.fd PROVE v = u
      BY <1>3, <1>4, <2>2, <3>1, <3>2
    <3>. QED BY <1>3, <1>7, <1>8, <2>2, <3>1, <3>2
  <2>3. u # t
    <3>1. CASE t.at = "close"
      BY <1>1, <1>8, <3>1
    <3>2. CASE t.at = "copy"
      <4>1. t # new
        <5>1. new.at = "repoll"
          BY <1>2 DEF new, Transfers
        <5>. QED BY <3>2, <5>1
      <4>. QED BY <1>4, <4>1
    <3>. QED BY <1>1, <3>1, <3>2
  <2>. QED BY <1>4, <1>8, <2>1, <2>2, <2>3
<1>9. ASSUME ~cut, NEW u \in transfers', u.file # NULL
      PROVE  fdTab[u.file] = <<"file", u.id>> /\ u.file # t.file
  <2>1. u \in transfers /\ u # t
    BY <1>3, <1>4, <1>9
  <2>. QED BY <1>6, <1>9, <2>1 DEF OwnInv, TransferOwnUntilCut
<1>10. ASSUME ~cut, NEW o \in own' PROVE o.fd # t.file
  <2>1. /\ o.fd \in Fds /\ fdTab[o.fd] = <<"own", o.id>>
        /\ t.file # NULL => fdTab[t.file] = <<"file", t.id>>
    BY <1>1, <1>10 DEF OwnInv, DescriptorsOK, TransferOwnUntilCut
  <2>2. <<"own", o.id>> # <<"file", t.id>>
    OBVIOUS
  <2>. QED BY <2>1, <2>2
<1>11. transfers' \subseteq Transfers /\ own' \subseteq own
  BY <1>1, <1>2, <1>3, <1>4
<1>. QED BY <1>1, <1>5, <1>8, <1>9, <1>10, <1>11, Releases

LEMMA CloseOwnInv == ASSUME OwnInv, NEW o \in own, CloseOwn(o) PROVE OwnInv'
<1>1. /\ fdTab' = TabWithout(o.fd) /\ epoll' = epoll \ {o.fd} /\ own' = own \ {o}
      /\ UNCHANGED <<cut, userList, pc, batch, closing, accepted, started, transfers, opened, peak>>
  BY DEF CloseOwn
<1>2. ASSUME ~cut, NEW u \in transfers
      PROVE  /\ u.at \in Reading => u.fd # o.fd
             /\ u.file # NULL => u.file # o.fd
  BY <1>2 DEF OwnInv, DescriptorsOK, TransferOwnUntilCut
<1>3. ASSUME ~cut, NEW p \in own' PROVE p.fd # o.fd
  <2>1. /\ fdTab[o.fd] = <<"own", o.id>> /\ fdTab[p.fd] = <<"own", p.id>> /\ p.id # o.id
    BY <1>1, <1>3 DEF OwnInv, TransferOwnUntilCut
  <2>. QED BY <2>1
<1>4. \A u, v \in transfers' : u.id <= started /\ (u.id = v.id => u = v)
  BY <1>1 DEF OwnInv, TransferOwnUntilCut
<1>5. ~cut => \A u \in transfers' :
           /\ u.at \in Reading =>
                /\ fdTab[u.fd] = u.conn /\ u.fd \notin epoll \cup batch /\ u.fd # o.fd
                /\ \A v \in transfers' : v.at # "close" /\ v.fd = u.fd => v = u
           /\ u.file # NULL => fdTab[u.file] = <<"file", u.id>> /\ u.file # o.fd
  BY <1>1, <1>2 DEF OwnInv, TransferOwnUntilCut
<1>6. transfers' \subseteq Transfers /\ own' \subseteq own
  BY <1>1 DEF OwnInv, DescriptorsOK, Transfers
<1>. QED BY <1>1, <1>3, <1>4, <1>5, <1>6, Releases

-------------------------------------------------------------------------------
\* No step of the reactor or of a worker breaks the invariant.
LEMMA NextInv == OwnInv /\ [Next]_vars => OwnInv'
<1> SUFFICES ASSUME OwnInv, [Next]_vars PROVE OwnInv'
  OBVIOUS
<1>1. CASE EpollWait \/ Accept \/ AcceptFailed \/ AcceptNothing \/ Unlist
  BY <1>1, EpollWaitInv, AcceptInv, AcceptFailedInv, AcceptNothingInv, UnlistInv
<1>2. ASSUME NEW f \in Fds, HandleMessage(f) PROVE OwnInv'
  BY <1>2, CommandInv, ShortCommandInv, TransferInv, StrayTransferInv, HangupInv DEF HandleMessage
<1>3. CASE Tick
  BY <1>3, TickStartInv, TickVisitInv, TickVisitFreedInv, TickEndInv DEF Tick
<1>4. ASSUME WorkerStep PROVE OwnInv'
  <2>1. ASSUME NEW t \in transfers, TransferStep(t) PROVE OwnInv'
    BY <2>1, OpenFileInv, GiveUpInv, RepollInv, CloseFileInv DEF TransferStep
  <2>2. ASSUME NEW o \in own, CloseOwn(o) PROVE OwnInv'
    BY <2>2, CloseOwnInv
  <2>. QED BY <1>4, <2>1, <2>2, OpenOwnInv, OpenFailsInv DEF WorkerStep
<1>5. CASE UNCHANGED vars
  BY <1>5, NothingOpens DEF vars, OwnInv, DescriptorsOK
<1>. QED BY <1>1, <1>2, <1>3, <1>4, <1>5 DEF Next, MainStep, Spin, Crashed

\* The descriptors' variables have their types.
THEOREM DescriptorTypes == Spec => []DescriptorsOK
  BY InitInv, NextInv, PTL DEF Spec, OwnInv

\* Until tick closes a number in a worker's hands, or a transfer begins on a connection
\* that a task without a name still reads, a worker reads its connection alone and has its
\* file and what it opened itself (puts.c, gets.c, ls.c, mkdir.c): no hang-up, accept, open
\* or close of another takes them away.
THEOREM TransfersAreOwn == Spec => []TransferOwnUntilCut
  BY InitInv, NextInv, PTL DEF Spec, OwnInv

\* The last node of userList with the descriptor of an open connection is that
\* connection's, whatever nodes the descriptor's former connections left.
THEOREM LastNodeIsCurrent == Spec => []CurrentNodeListed
  BY InitInv, NextInv, PTL DEF Spec, OwnInv

HIDE Constants DEF clients, workers

-------------------------------------------------------------------------------
(* The wheel in the reactor's hands *)

\* The places of the program, and the fields' types.
Types ==
  /\ GoodWheel(wheel)
  /\ pc \in {"wait", "events", "unlist", "tick", "visit", "ticked", "crashed", "undefined"}
  /\ list \in Nodes \cup {NULL} /\ current \in Nodes \cup {NULL}
  /\ idle \in [ConnIds -> 0..WheelSize]

\* No more nodes are allocated than accepts and messages have asked for.
Room ==
  /\ messages \in 0..MaxMessages /\ IsFiniteSet(NodesInUse(wheel))
  /\ Cardinality(NodesInUse(wheel)) <= accepted + messages

\* No worker has been cut off from what it holds.
Intact == ~cut

\* f has a node that is at most d ticks away for some d that its silence allows.
InTime(f) ==
  \E d \in 0..Timeout : \E n : /\ Listed(wheel, SlotAt(wheel, d), n) /\ wheel.fdOf[n] = f
                               /\ idle[fdTab[f][2]] + d <= Timeout

\* Every connection is in the hash table and in time.
Timed == \A f \in Fds : IsConn(f) => Named(wheel, f) /\ InTime(f)

\* FilledOnce, in terms of what the lists hold.
Filled ==
  /\ \A d \in Slots : d > Timeout => \A n : ~ Listed(wheel, SlotAt(wheel, d), n)
  /\ pc = "wait" => \A n : ~ Listed(wheel, SlotAt(wheel, Timeout), n)
  /\ Intact /\ pc \in {"events", "unlist"} =>
       \A n : Listed(wheel, SlotAt(wheel, Timeout), n) =>
                IsConn(wheel.fdOf[n]) /\ wheel.fdOf[n] \notin batch

\* SlotsDistinct, likewise.
Distinct ==
  Intact => \A i \in Slots : \A n, m : Listed(wheel, i, n) /\ Listed(wheel, i, m) =>
            (wheel.fdOf[n] = wheel.fdOf[m] => n = m)

\* The list whose turn it is.
Turn == wheel.slots[wheel.currentIndex]

\* VisitClosed, likewise.
Visited ==
  /\ pc = "ticked" => \A k \in 1..Len(Turn) : ~IsConn(wheel.fdOf[Turn[k]])
  /\ pc = "visit" =>
       /\ current \in Nodes
       /\ \A k \in 1..Len(Turn) : Turn[k] = list => k = 1
       /\ \E p \in 0..Len(Turn) :
            /\ \A k \in 1..p : ~IsConn(wheel.fdOf[Turn[k]])
            /\ p = Len(Turn) \/ current = Turn[p + 1]

\* PolledOpen, likewise.
Polled ==
  /\ \A f \in epoll : IsConn(f)
  /\ Intact /\ pc \in {"events", "unlist"} => \A f \in batch \ {Listen} : IsConn(f)

\* The inductive invariant of the wheel, on top of OwnInv.
TimedInv == Types /\ Room /\ Timed /\ Filled /\ Distinct /\ Visited /\ Polled

\* The nodes of the lists are allocated, with descriptors.
LEMMA NodesHaveFds ==
  ASSUME Types
  PROVE  /\ IsWheel(wheel) /\ OnceListed(wheel)
         /\ wheel.currentIndex \in Slots /\ Turn \in Seq(Nodes) /\ Len(Turn) \in Nat
         /\ \A i \in Slots : \A n : Listed(wheel, i, n) => n \in Nodes /\ wheel.fdOf[n] \in Fds
         /\ \A k \in 1..Len(Turn) : Turn[k] \in Nodes /\ wheel.fdOf[Turn[k]] \in Fds
                                    /\ Listed(wheel, wheel.currentIndex, Turn[k])
<1>1. IsWheel(wheel) /\ OnceListed(wheel) /\ Allocated(wheel)
  BY WellFormedOf DEF Types, GoodWheel, Allocated
<1>2. /\ wheel.slots \in [Slots -> Seq(Nodes)] /\ wheel.fdOf \in [Nodes -> Fds \cup {NULL}]
      /\ wheel.currentIndex \in Slots
  BY <1>1, Fields
<1>3. \A i \in Slots : \A n : Listed(wheel, i, n) => n \in Nodes /\ wheel.fdOf[n] \in Fds
  BY <1>1, <1>2, ListsOf DEF Allocated, Listed
<1>4. \A k \in 1..Len(Turn) : Listed(wheel, wheel.currentIndex, Turn[k])
  BY DEF Listed, Turn
<1>5. Turn \in Seq(Nodes) /\ Len(Turn) \in Nat
  BY <1>2 DEF Turn
<1>. QED BY <1>1, <1>2, <1>3, <1>4, <1>5

\* Connections may be closed, and nothing else becomes of them.
ConnsShrink == \A g \in Fds : IsConn(g)' => IsConn(g) /\ fdTab'[g] = fdTab[g]

\* A step that leaves the wheel alone and opens no connection.
LEMMA WheelStays ==
  ASSUME TimedInv, UNCHANGED <<wheel, idle>>, ConnsShrink, Intact' => Intact,
         accepted' >= accepted, messages' >= messages, messages' \in 0..MaxMessages,
         accepted \in Nat, accepted' \in Nat,
         pc' \in {"wait", "events", "unlist", "tick", "visit", "ticked", "crashed", "undefined"},
         list' \in Nodes \cup {NULL}, current' \in Nodes \cup {NULL}
  PROVE  Types' /\ Room' /\ Timed' /\ Distinct'
<1>1. Types'
  BY DEF TimedInv, Types
<1>2. Room'
  <2>1. NodesInUse(wheel)' = NodesInUse(wheel)
    BY DEF NodesInUse
  <2>2. Cardinality(NodesInUse(wheel)) \in Nat
    BY FS_CardinalityType DEF TimedInv, Room
  <2>3. messages \in Nat /\ messages' \in Nat
    <3>1. MaxMessages \in Nat
      BY ReactorAssumption
    <3>. QED BY <3>1 DEF TimedInv, Room
  <2>4. PICK c \in Nat : c = Cardinality(NodesInUse(wheel))
    BY <2>2
  <2>5. /\ c <= accepted + messages /\ IsFiniteSet(NodesInUse(wheel))
        /\ NodesInUse(wheel') = NodesInUse(wheel)
    BY <2>1, <2>4 DEF TimedInv, Room
  <2>6. c <= accepted' + messages'
    <3>1. PICK a \in Nat, m \in Nat, b \in Nat, n \in Nat :
            a = accepted /\ m = messages /\ b = accepted' /\ n = messages'
      BY <2>3
    <3>2. c <= a + m /\ a <= b /\ m <= n
      BY <2>5, <3>1
    <3>3. c <= b + n
      BY <3>2
    <3>. QED BY <3>1, <3>3
  <2>. QED BY <2>4, <2>5, <2>6 DEF Room
<1>3. Timed'
  <2>. SUFFICES ASSUME NEW f \in Fds, IsConn(f)' PROVE (Named(wheel, f) /\ InTime(f))'
    BY DEF Timed
  <2>1. IsConn(f) /\ fdTab'[f] = fdTab[f]
    BY DEF ConnsShrink
  <2>2. Named(wheel, f) /\ InTime(f)
    BY <2>1 DEF TimedInv, Timed
  <2>. QED BY <2>1, <2>2 DEF InTime
<1>4. Distinct'
  BY DEF TimedInv, Distinct
<1>. QED BY <1>1, <1>2, <1>3, <1>4

\* What such a step keeps of the visit of a slot.
LEMMA VisitStays ==
  ASSUME TimedInv, UNCHANGED <<wheel, list, current>>, ConnsShrink,
         pc' \in {"visit", "ticked"} => pc' = pc
  PROVE  Visited'
<1>1. \A k \in 1..Len(Turn) : ~IsConn(wheel.fdOf[Turn[k]]) => ~IsConn(wheel.fdOf[Turn[k]])'
  <2>. SUFFICES ASSUME NEW k \in 1..Len(Turn), IsConn(wheel.fdOf[Turn[k]])'
                PROVE  IsConn(wheel.fdOf[Turn[k]])
    OBVIOUS
  <2>1. wheel.fdOf[Turn[k]] \in Fds /\ Turn' = Turn
    BY NodesHaveFds DEF TimedInv, Turn
  <2>. QED BY <2>1 DEF ConnsShrink
<1>2. Turn' = Turn /\ Len(Turn) \in Nat
  BY NodesHaveFds DEF Turn, TimedInv
<1>3. CASE pc' = "ticked"
  BY <1>1, <1>2, <1>3 DEF TimedInv, Visited
<1>4. CASE pc' = "visit"
  <2>1. pc = "visit"
    BY <1>4
  <2>2. PICK p \in 0..Len(Turn) :
            /\ \A k \in 1..p : ~IsConn(wheel.fdOf[Turn[k]])
            /\ p = Len(Turn) \/ current = Turn[p + 1]
    BY <2>1 DEF TimedInv, Visited
  <2>3. \A k \in 1..p : k \in 1..Len(Turn)
    BY <1>2, <2>2
  <2>. QED BY <1>1, <1>2, <1>4, <2>1, <2>2, <2>3 DEF TimedInv, Visited
<1>. QED BY <1>3, <1>4 DEF Visited

-------------------------------------------------------------------------------
(* Room for nodes, and renewed timers *)

\* One more node for one more accept or message.
LEMMA RoomGrows ==
  ASSUME Room, DescriptorsOK, NEW n, NodesInUse(wheel') \subseteq NodesInUse(wheel) \cup {n},
         \/ accepted' = accepted + 1 /\ messages' = messages
         \/ accepted' = accepted /\ messages' = messages + 1 /\ messages < MaxMessages
  PROVE  Room'
<1>1. PICK a \in Nat, m \in Nat, c \in Nat :
        a = accepted /\ m = messages /\ c = Cardinality(NodesInUse(wheel)) /\ c <= a + m
  <2>1. MaxConns \in Nat /\ MaxMessages \in Nat
    BY ReactorAssumption
  <2>2. accepted \in Nat /\ messages \in Nat
    BY <2>1 DEF Room, DescriptorsOK
  <2>3. Cardinality(NodesInUse(wheel)) \in Nat
    BY FS_CardinalityType DEF Room
  <2>. QED BY <2>2, <2>3 DEF Room
<1>2. IsFiniteSet(NodesInUse(wheel)) /\ MaxMessages \in Nat /\ m <= MaxMessages
  BY <1>1, ReactorAssumption DEF Room
<1>3. PICK b \in Nat, o \in Nat : b = accepted' /\ o = messages' /\ b + o = a + m + 1 /\ o <= MaxMessages
  BY <1>1, <1>2
<1>. DEFINE N == NodesInUse(wheel) \cup {n}
<1>4. IsFiniteSet(N) /\ Cardinality(N) <= c + 1 /\ Cardinality(N) \in Nat
  <2>1. CASE n \in NodesInUse(wheel)
    <3>1. N = NodesInUse(wheel)
      BY <2>1
    <3>. QED BY <1>1, <1>2, <3>1
  <2>2. CASE n \notin NodesInUse(wheel)
    BY <1>1, <1>2, <2>2, FS_AddElement
  <2>. QED BY <2>1, <2>2
<1>5. /\ IsFiniteSet(NodesInUse(wheel')) /\ Cardinality(NodesInUse(wheel')) <= Cardinality(N)
      /\ Cardinality(NodesInUse(wheel')) \in Nat
  <2>. HIDE DEF N
  <2>1. NodesInUse(wheel') \subseteq N
    BY DEF N
  <2>. QED BY <1>4, <2>1, FS_Subset, FS_CardinalityType
<1>6. Cardinality(NodesInUse(wheel')) <= b + o
  <2>1. PICK x \in Nat, y \in Nat : x = Cardinality(NodesInUse(wheel')) /\ y = Cardinality(N)
    BY <1>4, <1>5
  <2>2. x <= y /\ y <= c + 1
    BY <1>4, <1>5, <2>1
  <2>. QED BY <1>1, <1>3, <2>1, <2>2
<1>. QED BY <1>2, <1>3, <1>5, <1>6 DEF Room

\* No more nodes are in use than before.
LEMMA RoomKept ==
  ASSUME Room, NodesInUse(wheel') \subseteq NodesInUse(wheel), UNCHANGED <<accepted, messages>>,
         DescriptorsOK
  PROVE  Room'
<1>1. PICK a \in Nat, m \in Nat, c \in Nat :
        a = accepted /\ m = messages /\ c = Cardinality(NodesInUse(wheel)) /\ c <= a + m
  <2>1. MaxConns \in Nat /\ MaxMessages \in Nat
    BY ReactorAssumption
  <2>2. accepted \in Nat /\ messages \in Nat
    BY <2>1 DEF Room, DescriptorsOK
  <2>3. Cardinality(NodesInUse(wheel)) \in Nat
    BY FS_CardinalityType DEF Room
  <2>. QED BY <2>2, <2>3 DEF Room
<1>2. /\ IsFiniteSet(NodesInUse(wheel')) /\ Cardinality(NodesInUse(wheel')) <= c
      /\ Cardinality(NodesInUse(wheel')) \in Nat
  <2>1. IsFiniteSet(NodesInUse(wheel))
    BY DEF Room
  <2>. QED BY <1>1, <2>1, FS_Subset, FS_CardinalityType
<1>3. Cardinality(NodesInUse(wheel')) <= a + m
  <2>1. PICK x \in Nat : x = Cardinality(NodesInUse(wheel'))
    BY <1>2
  <2>2. x <= c
    BY <1>2, <2>1
  <2>. QED BY <1>1, <2>1, <2>2
<1>. QED BY <1>1, <1>2, <1>3 DEF Room

\* Before an accept or a message within the bounds, malloc has a node.
LEMMA IsRoomy ==
  ASSUME Room, DescriptorsOK, accepted < MaxConns \/ messages < MaxMessages
  PROVE  Roomy(wheel)
<1>1. PICK a \in Nat, m \in Nat, c \in Nat :
        a = accepted /\ m = messages /\ c = Cardinality(NodesInUse(wheel)) /\ c <= a + m
  <2>1. MaxConns \in Nat /\ MaxMessages \in Nat
    BY ReactorAssumption
  <2>2. accepted \in Nat /\ messages \in Nat
    BY <2>1 DEF Room, DescriptorsOK
  <2>3. Cardinality(NodesInUse(wheel)) \in Nat
    BY FS_CardinalityType DEF Room
  <2>. QED BY <2>2, <2>3 DEF Room
<1>2. MaxMessages \in Nat /\ MaxConns \in Nat /\ m <= MaxMessages /\ a <= MaxConns
  BY <1>1, ReactorAssumption DEF Room, DescriptorsOK
<1>3. c < MaxConns + MaxMessages
  BY <1>1, <1>2
<1>. QED BY <1>1, <1>3 DEF Roomy, Room

\* The timer of f, a connection now, is renewed; its event is handled.
LEMMA RenewsInv ==
  ASSUME TimedInv, NEW f \in Fds, GoodWheel(wheel'), Named(wheel', f), Renewed(wheel, wheel', f),
         \A g \in Fds : Named(wheel, g) => Named(wheel', g),
         pc = "events", pc' \in {"tick", "events"}, batch' \subseteq batch,
         Intact => f \notin batch' /\ (~IsConn(f) \/ f \in batch),
         \A g \in Fds : g # f => fdTab'[g] = fdTab[g],
         IsConn(f)', fdTab'[f][2] \in ConnIds, idle' = [idle EXCEPT ![fdTab'[f][2]] = 0],
         UNCHANGED <<list, current>>, Intact' => Intact, epoll \subseteq Fds, epoll' \subseteq epoll \cup {f},
         batch \subseteq Fds \cup {Listen}
  PROVE  Types' /\ Timed' /\ Filled' /\ Distinct' /\ Visited' /\ Polled'
<1>. DEFINE i == SlotAt(wheel, Timeout)
<1>1. /\ IsWheel(wheel) /\ OnceListed(wheel)
      /\ \A j \in Slots : \A m : Listed(wheel, j, m) => m \in Nodes /\ wheel.fdOf[m] \in Fds
  BY NodesHaveFds DEF TimedInv
<1>2. i \in Slots /\ Timeout \in Slots /\ Timeout \in Nat
  BY <1>1, TimeoutSlot, WheelConstants DEF Slots
<1>3. PICK n \in Nodes :
       /\ Listed(wheel', i, n) /\ wheel'.fdOf[n] = f
       /\ \A j \in Slots : \A m : Listed(wheel', j, m) =>
            (Listed(wheel, j, m) /\ wheel'.fdOf[m] = wheel.fdOf[m]) \/ (j = i /\ m = n)
  BY DEF Renewed
<1>4. \A j \in Slots : \A m : Listed(wheel, j, m) /\ wheel.fdOf[m] # f =>
        Listed(wheel', j, m) /\ wheel'.fdOf[m] = wheel.fdOf[m]
  BY DEF Renewed
<1>5. \A d : SlotAt(wheel', d) = SlotAt(wheel, d)
  BY DEF Renewed, SlotAt
<1>6. /\ \A d \in Slots : SlotAt(wheel, d) \in Slots
      /\ \A d, e \in Slots : SlotAt(wheel, d) = SlotAt(wheel, e) => d = e
  BY <1>1, SlotsAhead
<1>7. \A g \in Fds : g # f => (IsConn(g)' <=> IsConn(g))
  BY DEF IsConn, Open
<1>8. \A c \in ConnIds : idle[c] \in Nat /\ idle'[c] \in Nat /\ idle'[c] <= idle[c]
  <2>1. idle \in [ConnIds -> 0..WheelSize] /\ WheelSize \in Nat
    BY WheelConstants DEF TimedInv, Types
  <2>. QED BY <2>1
<1>. HIDE DEF i
<1>9. Types'
  <2>1. idle' \in [ConnIds -> 0..WheelSize]
    BY WheelConstants DEF TimedInv, Types
  <2>. QED BY <2>1 DEF TimedInv, Types
<1>10. Timed'
  <2>. SUFFICES ASSUME NEW g \in Fds, IsConn(g)' PROVE Named(wheel', g) /\ InTime(g)'
    BY DEF Timed
  <2>1. CASE g = f
    <3>1. idle'[fdTab'[f][2]] = 0
      BY DEF TimedInv, Types
    <3>2. /\ Timeout \in 0..Timeout /\ idle'[fdTab'[f][2]] + Timeout <= Timeout
          /\ Listed(wheel', SlotAt(wheel', Timeout), n) /\ wheel'.fdOf[n] = f
      BY <1>2, <1>3, <1>5, <3>1 DEF i
    <3>. QED BY <2>1, <3>2 DEF InTime
  <2>2. CASE g # f
    <3>1. IsConn(g) /\ fdTab'[g] = fdTab[g]
      BY <1>7, <2>2
    <3>2. Named(wheel, g) /\ InTime(g)
      BY <3>1 DEF TimedInv, Timed
    <3>7. PICK d \in 0..Timeout : \E m : /\ Listed(wheel, SlotAt(wheel, d), m) /\ wheel.fdOf[m] = g
                                         /\ idle[fdTab[g][2]] + d <= Timeout
      BY <3>2 DEF InTime
    <3>3. PICK m : /\ Listed(wheel, SlotAt(wheel, d), m) /\ wheel.fdOf[m] = g
                   /\ idle[fdTab[g][2]] + d <= Timeout
      BY <3>7
    <3>4. d \in Slots /\ d \in Nat
      BY <1>2, WheelConstants DEF Slots
    <3>5. Listed(wheel', SlotAt(wheel', d), m) /\ wheel'.fdOf[m] = g
      BY <1>4, <1>5, <1>6, <2>2, <3>3, <3>4
    <3>6. idle'[fdTab'[g][2]] + d <= Timeout
      <4>. DEFINE c == fdTab[g][2]
      <4>1. CASE c \in ConnIds
        <5>1. PICK x \in Nat, y \in Nat : x = idle'[c] /\ y = idle[c] /\ x <= y
          BY <1>8, <4>1
        <5>2. x + d <= Timeout
          BY <1>2, <3>3, <3>4, <5>1
        <5>. QED BY <3>1, <5>1, <5>2
      <4>2. CASE c \notin ConnIds
        <5>1. idle'[c] = idle[c]
          BY <4>2 DEF TimedInv, Types
        <5>. QED BY <3>1, <3>3, <5>1
      <4>. QED BY <4>1, <4>2
    <3>. QED BY <3>2, <3>5, <3>6 DEF InTime
  <2>. QED BY <2>1, <2>2
<1>11. Filled'
  <2>1. ASSUME NEW d \in Slots, d > Timeout, NEW m PROVE ~ Listed(wheel', SlotAt(wheel', d), m)
    <3>1. SlotAt(wheel, d) # i /\ SlotAt(wheel, d) \in Slots
      BY <1>2, <1>6, <2>1 DEF i
    <3>2. ~ Listed(wheel, SlotAt(wheel, d), m)
      BY <2>1 DEF TimedInv, Filled
    <3>. QED BY <1>3, <1>5, <3>1, <3>2
  <2>2. ASSUME Intact, NEW m, Listed(wheel', SlotAt(wheel', Timeout), m)
        PROVE  IsConn(wheel.fdOf[m])' /\ wheel'.fdOf[m] \notin batch'
    <3>1. (Listed(wheel, i, m) /\ wheel'.fdOf[m] = wheel.fdOf[m]) \/ m = n
      <4>1. SlotAt(wheel', Timeout) = i
        BY <1>5 DEF i
      <4>2. Listed(wheel', i, m)
        BY <2>2, <4>1
      <4>. QED BY <1>2, <1>3, <4>2
    <3>2. CASE wheel'.fdOf[m] = f
      BY <2>2, <3>2 DEF IsConn, Open
    <3>3. CASE wheel'.fdOf[m] # f
      <4>1. Listed(wheel, i, m) /\ wheel'.fdOf[m] = wheel.fdOf[m]
        BY <1>3, <3>1, <3>3
      <4>2. IsConn(wheel.fdOf[m]) /\ wheel.fdOf[m] \notin batch
        BY <2>2, <4>1 DEF TimedInv, Filled, i
      <4>3. wheel.fdOf[m] \in Fds
        BY <1>1, <1>2, <4>1
      <4>4. PICK g \in Fds : g = wheel.fdOf[m] /\ g = wheel'.fdOf[m]
        BY <4>1, <4>3
      <4>5. IsConn(g)' /\ g \notin batch'
        BY <1>7, <3>3, <4>2, <4>4
      <4>. QED BY <4>4, <4>5 DEF IsConn, Open
    <3>. QED BY <3>2, <3>3
  <2>. QED BY <2>1, <2>2 DEF Filled
<1>12. Distinct'
  <2>0. SUFFICES ASSUME Intact', NEW j \in Slots, NEW m, NEW o, Listed(wheel', j, m), Listed(wheel', j, o),
                        wheel'.fdOf[m] = wheel'.fdOf[o]
                 PROVE  m = o
    BY DEF Distinct
  <2>1. Intact
    BY <2>0
  <2>2. \A q : Listed(wheel, i, q) => wheel.fdOf[q] # f
    <3>1. \A q : Listed(wheel, i, q) => IsConn(wheel.fdOf[q]) /\ wheel.fdOf[q] \notin batch
      BY <2>1 DEF TimedInv, Filled, i
    <3>2. ~IsConn(f) \/ f \in batch
      BY <2>1
    <3>. QED BY <3>1, <3>2
  <2>3. \A k \in Slots : \A q, r : Listed(wheel, k, q) /\ Listed(wheel, k, r) =>
            (wheel.fdOf[q] = wheel.fdOf[r] => q = r)
    BY <2>1 DEF TimedInv, Distinct
  <2>4. \/ Listed(wheel, j, m) /\ wheel'.fdOf[m] = wheel.fdOf[m]
        \/ j = i /\ m = n
    BY <1>3, <2>0
  <2>5. \/ Listed(wheel, j, o) /\ wheel'.fdOf[o] = wheel.fdOf[o]
        \/ j = i /\ o = n
    BY <1>3, <2>0
  <2>. QED BY <1>3, <2>0, <2>2, <2>3, <2>4, <2>5
<1>13. Visited'
  BY DEF Visited
<1>14. Polled'
  <2>1. \A g \in epoll' : IsConn(g)'
    BY <1>7 DEF TimedInv, Polled
  <2>2. ASSUME Intact, NEW g \in batch' \ {Listen} PROVE IsConn(g)'
    <3>1. g \in Fds /\ g \in batch \ {Listen}
      BY <2>2
    <3>2. IsConn(g)
      BY <2>2, <3>1 DEF TimedInv, Polled
    <3>. QED BY <1>7, <3>1, <3>2
  <2>. QED BY <2>1, <2>2 DEF Polled
<1>. QED BY <1>9, <1>10, <1>11, <1>12, <1>13, <1>14

-------------------------------------------------------------------------------
(* Accepts and messages *)

\* A connection has a number.
LEMMA ConnNumber == ASSUME DescriptorsOK, NEW f \in Fds, IsConn(f) PROVE fdTab[f][2] \in ConnIds
<1>1. fdTab[f] \in {"conn"} \X ConnIds
  BY DEF DescriptorsOK, IsConn, Open
<1>. QED BY <1>1

\* A new connection is in time: its node is Timeout slots ahead, its silence 0.
LEMMA AcceptTimed == ASSUME OwnInv, TimedInv, Accept PROVE TimedInv'
<1>0. PICK f, c : f = LowestFd /\ c = accepted + 1
  OBVIOUS
<1>1. /\ pc = "events" /\ accepted < MaxConns /\ FreeFds # {}
      /\ fdTab' = [fdTab EXCEPT ![f] = Conn(c)] /\ epoll' = epoll \cup {f}
      /\ wheel' = addUser(wheel, f, Timeout) /\ idle' = [idle EXCEPT ![c] = 0] /\ accepted' = c
      /\ batch' = batch \ {Listen} /\ pc' \in {"tick", "events"}
      /\ UNCHANGED <<cut, list, current, messages>>
  BY <1>0 DEF Accept, Handled
<1>2. DescriptorsOK
  BY DEF OwnInv
<1>3. f \in Fds /\ fdTab[f] = NULL /\ c \in ConnIds
  <2>1. f \in Fds /\ fdTab[f] = NULL
    BY <1>0, <1>1, LowestIsFree
  <2>2. c \in ConnIds
    BY <1>0, <1>1, <1>2, Constants DEF DescriptorsOK, ConnIds
  <2>. QED BY <2>1, <2>2
<1>4. /\ fdTab' = [fdTab EXCEPT ![f] = <<"conn", c>>] /\ fdTab'[f] = <<"conn", c>>
      /\ \A g \in Fds : g # f => fdTab'[g] = fdTab[g]
  BY <1>1, <1>2, <1>3 DEF DescriptorsOK, Conn
<1>5. IsConn(f)' /\ fdTab'[f][2] = c /\ ~IsConn(f)
  <2>1. <<"conn", c>> # NULL /\ <<"conn", c>>[1] = "conn" /\ <<"conn", c>>[2] = c
    BY <1>3, Constants
  <2>2. fdTab'[f] # NULL /\ fdTab'[f][1] = "conn" /\ fdTab'[f][2] = c
    BY <1>4, <2>1
  <2>. QED BY <1>3, <2>2 DEF IsConn, Open
<1>6. GoodWheel(wheel) /\ Roomy(wheel)
  BY <1>1, <1>2, IsRoomy DEF TimedInv, Types
<1>7. /\ GoodWheel(wheel') /\ Named(wheel', f) /\ Renewed(wheel, wheel', f)
      /\ \A g \in Fds : Named(wheel, g) => Named(wheel', g)
  BY <1>1, <1>3, <1>6, AddUserRenews
<1>8. Intact => f \notin batch' /\ (~IsConn(f) \/ f \in batch)
  BY <1>1, <1>5 DEF TimedInv, Polled
<1>9. Intact' => Intact
  BY <1>1, Zenon DEF Intact
<1>10. /\ pc = "events" /\ pc' \in {"tick", "events"} /\ batch' \subseteq batch
       /\ epoll \subseteq Fds /\ epoll' \subseteq epoll \cup {f} /\ batch \subseteq Fds \cup {Listen}
       /\ UNCHANGED <<list, current>> /\ idle' = [idle EXCEPT ![fdTab'[f][2]] = 0]
       /\ fdTab'[f][2] \in ConnIds
  BY <1>1, <1>2, <1>3, <1>5 DEF DescriptorsOK
<1>11. Types' /\ Timed' /\ Filled' /\ Distinct' /\ Visited' /\ Polled'
  BY <1>3, <1>4, <1>5, <1>7, <1>8, <1>9, <1>10, RenewsInv
<1>12. Room'
  <2>1. PICK n \in Nodes : NodesInUse(wheel') \subseteq NodesInUse(wheel) \cup {n}
    BY <1>7 DEF Renewed
  <2>2. accepted' = accepted + 1 /\ messages' = messages
    BY <1>0, <1>1
  <2>. QED BY <1>2, <2>1, <2>2, RoomGrows DEF TimedInv
<1>. QED BY <1>11, <1>12 DEF TimedInv

\* The sender of a message has his timer renewed.
LEMMA MessageTimed ==
  ASSUME OwnInv, TimedInv, NEW f \in Fds, Received(f),
         wheel' = updateUserTimeout(wheel, f, Timeout),
         idle' = [idle EXCEPT ![fdTab[f][2]] = 0], messages' = messages + 1,
         Handled(f), epoll' \subseteq epoll, Intact' => Intact,
         UNCHANGED <<fdTab, accepted, list, current>>
  PROVE  TimedInv'
<1>1. /\ pc = "events" /\ f \in batch /\ f # Listen /\ IsConn(f) /\ messages < MaxMessages
      /\ batch' = batch \ {f} /\ pc' \in {"tick", "events"} /\ DescriptorsOK
  BY DEF Received, Ready, Handled, OwnInv
<1>2. GoodWheel(wheel) /\ Roomy(wheel) /\ Named(wheel, f)
  BY <1>1, IsRoomy DEF TimedInv, Types, Timed
<1>3. /\ GoodWheel(wheel') /\ Named(wheel', f) /\ Renewed(wheel, wheel', f)
      /\ \A g \in Fds : Named(wheel, g) => Named(wheel', g)
  BY <1>2, UpdateRenews
<1>4. IsConn(f)' /\ fdTab'[f][2] \in ConnIds /\ idle' = [idle EXCEPT ![fdTab'[f][2]] = 0]
  BY <1>1, ConnNumber DEF IsConn, Open
<1>6. /\ pc = "events" /\ pc' \in {"tick", "events"} /\ batch' \subseteq batch
      /\ epoll \subseteq Fds /\ epoll' \subseteq epoll \cup {f} /\ batch \subseteq Fds \cup {Listen}
      /\ UNCHANGED <<list, current>>
      /\ (Intact => f \notin batch' /\ (~IsConn(f) \/ f \in batch))
      /\ \A g \in Fds : g # f => fdTab'[g] = fdTab[g]
  BY <1>1 DEF DescriptorsOK
<1>7. Types' /\ Timed' /\ Filled' /\ Distinct' /\ Visited' /\ Polled'
  BY <1>3, <1>4, <1>6, RenewsInv
<1>8. Room'
  <2>1. PICK n \in Nodes : NodesInUse(wheel') \subseteq NodesInUse(wheel) \cup {n}
    BY <1>3 DEF Renewed
  <2>. QED BY <1>1, <2>1, RoomGrows DEF TimedInv
<1>. QED BY <1>7, <1>8 DEF TimedInv

\* A command with a content renews the timer of its sender.
LEMMA CommandTimed == ASSUME OwnInv, TimedInv, NEW f \in Fds, Command(f) PROVE TimedInv'
<1>1. /\ Received(f) /\ wheel' = updateUserTimeout(wheel, f, Timeout)
      /\ idle' = [idle EXCEPT ![fdTab[f][2]] = 0] /\ messages' = messages + 1
      /\ Handled(f) /\ epoll' \subseteq epoll /\ UNCHANGED <<fdTab, accepted, list, current>>
  BY DEF Command
<1>2. Intact' => Intact
  BY Zenon DEF Command, Intact
<1>. QED BY <1>1, <1>2, MessageTimed

\* So does one that starts a transfer, which also leaves epoll.
LEMMA TransferTimed == ASSUME OwnInv, TimedInv, NEW f \in Fds, Transfer(f) PROVE TimedInv'
<1>1. /\ Received(f) /\ wheel' = updateUserTimeout(wheel, f, Timeout)
      /\ idle' = [idle EXCEPT ![fdTab[f][2]] = 0] /\ messages' = messages + 1
      /\ Handled(f) /\ epoll' \subseteq epoll /\ UNCHANGED <<fdTab, accepted, list, current>>
  BY DEF Transfer
<1>2. cut => cut'
  BY Zenon DEF Transfer
<1>3. Intact' => Intact
  BY <1>2, Zenon DEF Intact
<1>. QED BY <1>1, <1>3, MessageTimed

-------------------------------------------------------------------------------
(* The tick *)

\* A tick brings every connection's node one slot nearer and adds one to its silence; the
\* list it drops has no connection left.
LEMMA TickDoneTimed ==
  ASSUME OwnInv, TimedInv, TickDone, UNCHANGED <<fdTab, epoll, batch, accepted, messages, cut>>,
         \A n : Listed(wheel, wheel.currentIndex, n) => ~IsConn(wheel.fdOf[n])
  PROVE  TimedInv'
<1>. DEFINE x == wheel.currentIndex
<1>1. /\ wheel' = TickAdvance(wheel) /\ pc' = "wait" /\ list' = NULL /\ current' = NULL
      /\ idle' = [c \in ConnIds |-> IF idle[c] < WheelSize THEN idle[c] + 1 ELSE idle[c]]
  BY DEF TickDone
<1>2. /\ GoodWheel(wheel') /\ Advanced(wheel, wheel')
      /\ \A g \in Fds : Named(wheel, g) => Named(wheel', g)
  BY <1>1, TickAdvanceStep DEF TimedInv, Types
<1>3. /\ IsWheel(wheel) /\ x \in Slots /\ IsWheel(wheel')
      /\ \A i \in Slots : \A n : Listed(wheel, i, n) => n \in Nodes /\ wheel.fdOf[n] \in Fds
  BY <1>2, NodesHaveFds DEF TimedInv, GoodWheel
<1>4. /\ SlotAt(wheel, 0) = x
      /\ \A d \in Slots : SlotAt(wheel, d) \in Slots
      /\ \A d, e \in Slots : SlotAt(wheel, d) = SlotAt(wheel, e) => d = e
  BY <1>3, SlotsAhead
<1>5. /\ \A d \in Slots : d + 1 \in Slots => SlotAt(wheel', d) = SlotAt(wheel, d + 1)
      /\ SlotAt(wheel', WheelSize - 1) = x
  BY <1>2, <1>3, SlotsNearer DEF Advanced
<1>6. /\ \A m : ~ Listed(wheel', x, m)
      /\ \A j \in Slots \ {x} : \A m :
           (Listed(wheel', j, m) <=> Listed(wheel, j, m)) /\ (Listed(wheel, j, m) => wheel'.fdOf[m] = wheel.fdOf[m])
      /\ NodesInUse(wheel') \subseteq NodesInUse(wheel)
  BY <1>2 DEF Advanced
<1>7. WheelSize \in Nat \ {0} /\ Timeout \in 0..(WheelSize - 1) /\ Timeout \in Slots /\ Slots = 0..(WheelSize - 1)
  BY WheelConstants DEF Slots
<1>. HIDE DEF x
<1>8. Types'
  <2>1. idle' \in [ConnIds -> 0..WheelSize]
    <3>1. \A c \in ConnIds : idle[c] \in 0..WheelSize
      BY DEF TimedInv, Types
    <3>2. \A c \in ConnIds : (IF idle[c] < WheelSize THEN idle[c] + 1 ELSE idle[c]) \in 0..WheelSize
      BY <1>7, <3>1
    <3>. QED BY <1>1, <3>2
  <2>. QED BY <1>1, <1>2, <2>1 DEF Types
<1>9. Room'
  BY <1>6, RoomKept DEF TimedInv, OwnInv
<1>10. Timed'
  <2>. SUFFICES ASSUME NEW g \in Fds, IsConn(g)' PROVE Named(wheel', g) /\ InTime(g)'
    BY DEF Timed
  <2>1. IsConn(g) /\ fdTab' = fdTab /\ fdTab[g][2] \in ConnIds
    BY ConnNumber DEF IsConn, Open, OwnInv
  <2>2. Named(wheel, g) /\ InTime(g)
    BY <2>1 DEF TimedInv, Timed
  <2>3. PICK d \in 0..Timeout : \E m : /\ Listed(wheel, SlotAt(wheel, d), m) /\ wheel.fdOf[m] = g
                                       /\ idle[fdTab[g][2]] + d <= Timeout
    BY <2>2 DEF InTime
  <2>4. PICK m : /\ Listed(wheel, SlotAt(wheel, d), m) /\ wheel.fdOf[m] = g
                 /\ idle[fdTab[g][2]] + d <= Timeout
    BY <2>3
  <2>5. d \in Slots /\ d \in Nat /\ d <= Timeout /\ Timeout \in Nat
    BY <1>7
  <2>6. d # 0
    <3>1. SUFFICES ASSUME d = 0 PROVE FALSE
      OBVIOUS
    <3>2. Listed(wheel, x, m)
      BY <1>4, <2>4, <3>1
    <3>. QED BY <2>1, <2>4, <3>2 DEF x
  <2>7. d - 1 \in Slots /\ (d - 1) + 1 = d /\ d - 1 \in 0..Timeout
    BY <1>7, <2>5, <2>6
  <2>8. SlotAt(wheel', d - 1) = SlotAt(wheel, d)
    BY <1>5, <2>5, <2>7
  <2>9. SlotAt(wheel, d) \in Slots \ {x}
    <3>1. 0 \in Slots
      BY <1>7
    <3>. QED BY <1>4, <2>5, <2>6, <3>1
  <2>10. Listed(wheel', SlotAt(wheel', d - 1), m) /\ wheel'.fdOf[m] = g
    BY <1>6, <2>4, <2>8, <2>9
  <2>11. idle'[fdTab'[g][2]] + (d - 1) <= Timeout
    <3>1. PICK y \in 0..WheelSize : y = idle[fdTab[g][2]]
      BY <2>1 DEF TimedInv, Types
    <3>2. y + d <= Timeout
      BY <2>4, <3>1
    <3>3. y < WheelSize
      BY <1>7, <2>5, <3>1, <3>2
    <3>4. idle'[fdTab'[g][2]] = y + 1
      BY <1>1, <2>1, <3>1, <3>3
    <3>. QED BY <1>7, <2>5, <3>1, <3>2, <3>4
  <2>. QED BY <1>2, <2>2, <2>7, <2>10, <2>11 DEF InTime
<1>11. \A d \in Slots : d >= Timeout => \A n : ~ Listed(wheel', SlotAt(wheel', d), n)
  <2>. SUFFICES ASSUME NEW d \in Slots, d >= Timeout, NEW n PROVE ~ Listed(wheel', SlotAt(wheel', d), n)
    OBVIOUS
  <2>1. CASE d = WheelSize - 1
    BY <1>5, <1>6, <2>1
  <2>2. CASE d # WheelSize - 1
    <3>1. d + 1 \in Slots /\ d + 1 > Timeout
      BY <1>7, <2>2
    <3>2. SlotAt(wheel', d) = SlotAt(wheel, d + 1)
      BY <1>5, <3>1
    <3>3. ~ Listed(wheel, SlotAt(wheel, d + 1), n)
      BY <3>1 DEF TimedInv, Filled
    <3>4. SlotAt(wheel, d + 1) \in Slots
      BY <1>4, <3>1
    <3>. QED BY <1>6, <3>2, <3>3, <3>4
  <2>. QED BY <2>1, <2>2
<1>12. Filled'
  <2>1. \A d \in Slots : d > Timeout => d >= Timeout
    BY <1>7
  <2>2. \A d \in Slots : d > Timeout => \A n : ~ Listed(wheel', SlotAt(wheel', d), n)
    BY <1>11, <2>1
  <2>3. \A n : ~ Listed(wheel', SlotAt(wheel', Timeout), n)
    BY <1>7, <1>11
  <2>. QED BY <1>1, <2>2, <2>3 DEF Filled
<1>13. Distinct'
  <2>1. Intact' => Intact
    BY Zenon DEF Intact
  <2>2. \A i \in Slots : \A n : Listed(wheel', i, n) => Listed(wheel, i, n) /\ wheel'.fdOf[n] = wheel.fdOf[n]
    BY <1>6
  <2>. QED BY <2>1, <2>2 DEF TimedInv, Distinct
<1>14. Visited'
  BY <1>1 DEF Visited
<1>15. Polled'
  BY <1>1 DEF TimedInv, Polled, IsConn, Open
<1>. QED BY <1>8, <1>9, <1>10, <1>12, <1>13, <1>14, <1>15 DEF TimedInv

-------------------------------------------------------------------------------
(* Steps that leave the wheel alone *)

\* Where the reactor thread may be.
ReactorPlaces == {"wait", "events", "unlist", "tick", "visit", "ticked", "crashed", "undefined"}

\* A step that leaves the wheel and the visit alone: it closes connections at most, and as
\* long as tick has cut no worker off only those whose event it handles.
LEMMA QuietTimed ==
  ASSUME OwnInv, TimedInv, UNCHANGED <<wheel, idle, list, current, messages, accepted>>,
         Intact' => Intact, ConnsShrink, batch' \subseteq batch,
         pc' \in ReactorPlaces, pc' \in {"visit", "ticked", "wait"} => pc' = pc,
         pc' \in {"events", "unlist"} => pc \in {"events", "unlist"},
         Intact => \A g \in Fds : IsConn(g) => IsConn(g)' \/ (g \in batch /\ g \notin batch'),
         \A g \in epoll' : IsConn(g)'
  PROVE  TimedInv'
<1>1. /\ accepted \in Nat /\ accepted' \in Nat /\ accepted' >= accepted /\ messages' >= messages
      /\ messages' \in 0..MaxMessages /\ list' \in Nodes \cup {NULL} /\ current' \in Nodes \cup {NULL}
      /\ batch \subseteq Fds \cup {Listen}
  <2>1. accepted \in Nat /\ messages \in Nat /\ messages \in 0..MaxMessages
    BY Constants, ReactorAssumption DEF OwnInv, DescriptorsOK, TimedInv, Room
  <2>2. PICK a \in Nat, m \in Nat : a = accepted /\ m = messages /\ a = accepted' /\ m = messages'
    BY <2>1
  <2>3. accepted' >= accepted /\ messages' >= messages
    BY <2>2
  <2>. QED BY <2>1, <2>3 DEF OwnInv, DescriptorsOK, TimedInv, Types
<1>2. Types' /\ Room' /\ Timed' /\ Distinct'
  BY <1>1, WheelStays DEF ReactorPlaces
<1>3. Visited'
  BY VisitStays
<1>4. \A n : Listed(wheel, SlotAt(wheel, Timeout), n) => wheel.fdOf[n] \in Fds
  BY NodesHaveFds, TimeoutSlot DEF TimedInv
<1>5. Filled'
  <2>1. ASSUME Intact', pc' \in {"events", "unlist"}, NEW n, Listed(wheel, SlotAt(wheel, Timeout), n)
        PROVE  IsConn(wheel.fdOf[n])' /\ wheel.fdOf[n] \notin batch'
    <3>1. IsConn(wheel.fdOf[n]) /\ wheel.fdOf[n] \notin batch
      BY <2>1 DEF TimedInv, Filled
    <3>2. PICK g \in Fds : g = wheel.fdOf[n] /\ g = wheel'.fdOf[n]
      BY <1>4, <2>1
    <3>3. IsConn(g)' /\ g \notin batch'
      BY <2>1, <3>1, <3>2
    <3>. QED BY <3>2, <3>3 DEF IsConn, Open
  <2>2. \A d \in Slots : d > Timeout => \A n : ~ Listed(wheel', SlotAt(wheel', d), n)
    BY DEF TimedInv, Filled
  <2>3. pc' = "wait" => \A n : ~ Listed(wheel', SlotAt(wheel', Timeout), n)
    BY DEF TimedInv, Filled
  <2>4. Intact' /\ pc' \in {"events", "unlist"} =>
          \A n : Listed(wheel', SlotAt(wheel', Timeout), n) =>
            IsConn(wheel.fdOf[n])' /\ wheel'.fdOf[n] \notin batch'
    BY <2>1
  <2>. QED BY <2>2, <2>3, <2>4 DEF Filled
<1>6. Polled'
  <2>1. ASSUME Intact', pc' \in {"events", "unlist"}, NEW g \in batch' \ {Listen} PROVE IsConn(g)'
    <3>1. g \in Fds /\ g \in batch \ {Listen}
      BY <1>1, <2>1
    <3>2. IsConn(g)
      BY <2>1, <3>1 DEF TimedInv, Polled
    <3>. QED BY <2>1, <3>1, <3>2
  <2>. QED BY <2>1 DEF Polled
<1>. QED BY <1>2, <1>3, <1>5, <1>6 DEF TimedInv

\* A step that does not touch cut.
LEMMA CutStays == ASSUME UNCHANGED cut PROVE Intact' = Intact
  BY Zenon DEF Intact

\* epoll_wait only returns what epoll has: connections.
LEMMA EpollWaitTimed == ASSUME OwnInv, TimedInv, EpollWait PROVE TimedInv'
<1>1. /\ pc = "wait" /\ pc' \in {"tick", "events"} /\ batch' \subseteq epoll \cup {Listen}
      /\ UNCHANGED <<cut, fdTab, epoll, wheel, list, current, idle, accepted, messages>>
  BY DEF EpollWait, clients, workers
<1>2. Intact' = Intact /\ ConnsShrink /\ \A g : IsConn(g)' = IsConn(g)
  BY <1>1, CutStays DEF ConnsShrink, IsConn, Open
<1>3. /\ accepted \in Nat /\ messages \in Nat /\ messages \in 0..MaxMessages
      /\ list \in Nodes \cup {NULL} /\ current \in Nodes \cup {NULL}
  BY Constants, ReactorAssumption DEF OwnInv, DescriptorsOK, TimedInv, Room, Types
<1>4. Types' /\ Room' /\ Timed' /\ Distinct'
  <2>1. PICK a \in Nat, m \in Nat : a = accepted /\ m = messages /\ a = accepted' /\ m = messages'
    BY <1>1, <1>3
  <2>2. accepted' >= accepted /\ messages' >= messages /\ accepted' \in Nat
    BY <2>1
  <2>. QED BY <1>1, <1>2, <1>3, <2>2, WheelStays
<1>5. Visited'
  BY <1>1 DEF Visited
<1>6. Filled'
  BY <1>1 DEF TimedInv, Filled
<1>7. Polled'
  BY <1>1, <1>2 DEF TimedInv, Polled
<1>. QED BY <1>4, <1>5, <1>6, <1>7 DEF TimedInv

\* After a failed accept the reactor takes no step.
LEMMA AcceptFailedTimed == ASSUME OwnInv, TimedInv, AcceptFailed PROVE TimedInv'
<1>1. /\ pc' = "undefined"
      /\ UNCHANGED <<cut, fdTab, epoll, wheel, batch, list, current, idle, accepted, messages>>
  BY DEF AcceptFailed, clients, workers
<1>2. Intact' = Intact /\ ConnsShrink /\ \A g : IsConn(g)' = IsConn(g)
  BY <1>1, CutStays DEF ConnsShrink, IsConn, Open
<1>. QED BY <1>1, <1>2, QuietTimed DEF ReactorPlaces, TimedInv, Polled

\* An event that changes nothing but the batch.
LEMMA HandledTimed ==
  ASSUME OwnInv, TimedInv, pc = "events", NEW f, Handled(f),
         UNCHANGED <<cut, fdTab, epoll, wheel, list, current, idle, accepted, messages>>
  PROVE  TimedInv'
<1>1. pc' \in {"tick", "events"} /\ batch' \subseteq batch
  BY DEF Handled
<1>2. Intact' = Intact /\ ConnsShrink /\ \A g : IsConn(g)' = IsConn(g)
  BY CutStays DEF ConnsShrink, IsConn, Open
<1>. QED BY <1>1, <1>2, QuietTimed DEF ReactorPlaces, TimedInv, Polled

\* An event of the listening socket out of bounds.
LEMMA AcceptNothingTimed == ASSUME OwnInv, TimedInv, AcceptNothing PROVE TimedInv'
  BY HandledTimed DEF AcceptNothing, clients, workers

\* A command that renews no timer.
LEMMA ShortCommandTimed == ASSUME OwnInv, TimedInv, NEW f \in Fds, ShortCommand(f) PROVE TimedInv'
  BY HandledTimed DEF ShortCommand, Ready, clients, workers

\* A task without a name changes neither epoll nor the wheel.
LEMMA StrayTransferTimed ==
  ASSUME OwnInv, TimedInv, NEW f \in Fds, StrayTransfer(f) PROVE TimedInv'
  BY HandledTimed DEF StrayTransfer, Ready, clients, workers

\* A hang-up closes a connection behind the wheel's back: its nodes go stale.
LEMMA HangupTimed == ASSUME OwnInv, TimedInv, NEW f \in Fds, Hangup(f) PROVE TimedInv'
<1>1. /\ pc = "events" /\ pc' = "unlist" /\ f \in batch /\ batch' = batch \ {f}
      /\ epoll' = epoll \ {f} /\ fdTab' = [fdTab EXCEPT ![f] = NULL]
      /\ UNCHANGED <<cut, wheel, list, current, idle, accepted, messages>>
  BY DEF Hangup, Ready, TabWithout
<1>2. \A g \in Fds : fdTab'[g] = IF g = f THEN NULL ELSE fdTab[g]
  BY <1>1 DEF OwnInv, DescriptorsOK
<1>3. \A g \in Fds : IsConn(g)' <=> IsConn(g) /\ g # f
  BY <1>2 DEF IsConn, Open
<1>4. Intact' = Intact /\ ConnsShrink
  BY <1>1, <1>2, <1>3, CutStays DEF ConnsShrink
<1>5. \A g \in epoll' : IsConn(g)'
  BY <1>1, <1>3 DEF OwnInv, DescriptorsOK, TimedInv, Polled
<1>. QED BY <1>1, <1>3, <1>4, <1>5, QuietTimed DEF ReactorPlaces

\* deleteNode2 touches only userList.
LEMMA UnlistTimed == ASSUME OwnInv, TimedInv, Unlist PROVE TimedInv'
<1>1. /\ pc = "unlist" /\ pc' \in {"tick", "events"}
      /\ UNCHANGED <<cut, fdTab, epoll, wheel, batch, list, current, idle, accepted, messages>>
  BY DEF Unlist, clients, workers
<1>2. Intact' = Intact /\ ConnsShrink /\ \A g : IsConn(g)' = IsConn(g)
  BY <1>1, CutStays DEF ConnsShrink, IsConn, Open
<1>. QED BY <1>1, <1>2, QuietTimed DEF ReactorPlaces, TimedInv, Polled

-------------------------------------------------------------------------------
(* The workers *)

\* A worker takes a free number: no connection comes or goes.
LEMMA TakenTimed ==
  ASSUME OwnInv, TimedInv, FreeFds # {}, NEW f, f = LowestFd,
         NEW thing, thing \in ({"file"} \X TransferIds) \cup ({"own"} \X OwnIds),
         fdTab' = TabWith(f, thing),
         UNCHANGED <<cut, epoll, wheel, pc, batch, list, current, idle, accepted, messages>>
  PROVE  TimedInv'
<1>2. f \in Fds /\ fdTab[f] = NULL
  BY LowestIsFree
<1>3. \A g \in Fds : fdTab'[g] = IF g = f THEN thing ELSE fdTab[g]
  BY DEF OwnInv, DescriptorsOK, TabWith
<1>4. \A g \in Fds : IsConn(g)' <=> IsConn(g)
  <2>1. thing[1] # "conn"
    OBVIOUS
  <2>. QED BY <1>2, <1>3, <2>1 DEF IsConn, Open
<1>5. Intact' = Intact /\ ConnsShrink
  BY <1>2, <1>3, <1>4, CutStays DEF ConnsShrink, IsConn, Open
<1>6. \A g \in epoll' : IsConn(g)'
  BY <1>4 DEF OwnInv, DescriptorsOK, TimedInv, Polled
<1>7. pc' \in ReactorPlaces
  BY DEF TimedInv, Types, ReactorPlaces
<1>. QED BY <1>4, <1>5, <1>6, <1>7, QuietTimed

\* The file of a transfer.
LEMMA OpenFileTimed == ASSUME OwnInv, TimedInv, NEW t \in transfers, OpenFile(t) PROVE TimedInv'
<1>0. PICK f, thing : f = LowestFd /\ thing = <<"file", t.id>>
  OBVIOUS
<1>1. /\ FreeFds # {} /\ fdTab' = TabWith(f, thing)
      /\ UNCHANGED <<cut, epoll, wheel, pc, batch, list, current, idle, accepted, messages>>
  BY <1>0 DEF OpenFile, TabWith, clients, workers
<1>2. thing \in ({"file"} \X TransferIds) \cup ({"own"} \X OwnIds)
  BY <1>0 DEF OwnInv, DescriptorsOK
<1>. QED BY <1>0, <1>1, <1>2, TakenTimed

\* What a worker opens on its own.
LEMMA OpenOwnTimed == ASSUME OwnInv, TimedInv, OpenOwn PROVE TimedInv'
<1>0. PICK f, thing : f = LowestFd /\ thing = <<"own", opened + 1>>
  OBVIOUS
<1>1. /\ FreeFds # {} /\ opened < MaxOpens /\ fdTab' = TabWith(f, thing)
      /\ UNCHANGED <<cut, epoll, wheel, pc, batch, list, current, idle, accepted, messages>>
  BY <1>0 DEF OpenOwn, TabWith, clients, workers
<1>2. opened + 1 \in OwnIds
  BY <1>1, Constants DEF OwnInv, DescriptorsOK, OwnIds
<1>3. thing \in ({"file"} \X TransferIds) \cup ({"own"} \X OwnIds)
  BY <1>0, <1>2
<1>. QED BY <1>0, <1>1, <1>3, TakenTimed

\* The descriptor of the transfer may be polled again, if it is a connection.
LEMMA PollTimed ==
  ASSUME OwnInv, TimedInv, NEW f, epoll' \subseteq IF IsConn(f) THEN epoll \cup {f} ELSE epoll,
         pc' \in {pc, "crashed", "undefined"},
         UNCHANGED <<cut, fdTab, wheel, batch, list, current, idle, accepted, messages>>
  PROVE  TimedInv'
<1>1. Intact' = Intact /\ ConnsShrink /\ \A g : IsConn(g)' = IsConn(g)
  BY CutStays DEF ConnsShrink, IsConn, Open
<1>2. \A g \in epoll' : IsConn(g)'
  BY <1>1 DEF TimedInv, Polled
<1>3. pc' \in ReactorPlaces
  BY DEF TimedInv, Types, ReactorPlaces
<1>. QED BY <1>1, <1>2, <1>3, QuietTimed

\* A worker that gets no descriptor.
LEMMA OpenFailsTimed == ASSUME OwnInv, TimedInv, OpenFails PROVE TimedInv'
  BY PollTimed DEF OpenFails, clients, workers

\* A task that ends without a file.
LEMMA GiveUpTimed == ASSUME OwnInv, TimedInv, NEW t \in transfers, GiveUp(t) PROVE TimedInv'
<1>1. /\ epoll' \subseteq IF IsConn(t.fd) THEN epoll \cup {t.fd} ELSE epoll
      /\ pc' \in {pc, "crashed", "undefined"}
      /\ UNCHANGED <<cut, fdTab, wheel, batch, list, current, idle, accepted, messages>>
  BY DEF GiveUp, PollAgain, clients, workers
<1>. QED BY <1>1, PollTimed

\* A transfer that gives its connection back to epoll.
LEMMA RepollTimed == ASSUME OwnInv, TimedInv, NEW t \in transfers, Repoll(t) PROVE TimedInv'
<1>1. /\ epoll' \subseteq IF IsConn(t.fd) THEN epoll \cup {t.fd} ELSE epoll
      /\ pc' \in {pc, "crashed", "undefined"}
      /\ UNCHANGED <<cut, fdTab, wheel, batch, list, current, idle, accepted, messages>>
  BY DEF Repoll, PollAgain, clients, workers
<1>. QED BY <1>1, PollTimed

\* A worker's close: of a connection only if tick has closed the worker's number before.
LEMMA ReleasedTimed ==
  ASSUME OwnInv, TimedInv, NEW f, epoll' = epoll \ {f}, fdTab' = TabWithout(f),
         Intact => \A g \in Fds : IsConn(g) => g # f,
         UNCHANGED <<cut, wheel, pc, batch, list, current, idle, accepted, messages>>
  PROVE  TimedInv'
<1>2. \A g \in Fds : fdTab'[g] = IF g = f THEN NULL ELSE fdTab[g]
  BY DEF OwnInv, DescriptorsOK, TabWithout
<1>3. \A g \in Fds : IsConn(g)' <=> IsConn(g) /\ g # f
  BY <1>2 DEF IsConn, Open
<1>4. Intact' = Intact /\ ConnsShrink
  BY <1>2, <1>3, CutStays DEF ConnsShrink
<1>5. \A g \in epoll' : IsConn(g)'
  BY <1>3 DEF OwnInv, DescriptorsOK, TimedInv, Polled
<1>7. pc' \in ReactorPlaces
  BY DEF TimedInv, Types, ReactorPlaces
<1>. QED BY <1>3, <1>4, <1>5, <1>7, QuietTimed

\* The close of a file.
LEMMA CloseFileTimed == ASSUME OwnInv, TimedInv, NEW t \in transfers, CloseFile(t) PROVE TimedInv'
<1>0. PICK f : f = t.file
  OBVIOUS
<1>1. /\ epoll' = epoll \ {f} /\ fdTab' = TabWithout(f)
      /\ UNCHANGED <<cut, wheel, pc, batch, list, current, idle, accepted, messages>>
  BY <1>0 DEF CloseFile, clients, workers
<1>6. Intact => \A g \in Fds : IsConn(g) => g # f
  <2>. SUFFICES ASSUME Intact, NEW g \in Fds, IsConn(g), g = f PROVE FALSE
    OBVIOUS
  <2>1. f # NULL
    BY Constants
  <2>2. ~cut
    BY Zenon DEF Intact
  <2>3. \A u \in transfers : u.file # NULL => fdTab[u.file] = <<"file", u.id>>
    BY <2>2, Zenon DEF OwnInv, TransferOwnUntilCut
  <2>4. fdTab[g] = <<"file", t.id>>
    BY <1>0, <2>1, <2>3
  <2>. QED BY <2>4 DEF IsConn
<1>. QED BY <1>1, <1>6, ReleasedTimed

\* The close of what a worker opened on its own.
LEMMA CloseOwnTimed == ASSUME OwnInv, TimedInv, NEW o \in own, CloseOwn(o) PROVE TimedInv'
<1>0. PICK f : f = o.fd
  OBVIOUS
<1>1. /\ epoll' = epoll \ {f} /\ fdTab' = TabWithout(f)
      /\ UNCHANGED <<cut, wheel, pc, batch, list, current, idle, accepted, messages>>
  BY <1>0 DEF CloseOwn, clients, workers
<1>6. Intact => \A g \in Fds : IsConn(g) => g # f
  <2>. SUFFICES ASSUME Intact, NEW g \in Fds, IsConn(g), g = f PROVE FALSE
    OBVIOUS
  <2>2. ~cut
    BY Zenon DEF Intact
  <2>3. \A p \in own : fdTab[p.fd] = <<"own", p.id>>
    BY <2>2, Zenon DEF OwnInv, TransferOwnUntilCut
  <2>4. fdTab[g] = <<"own", o.id>>
    BY <1>0, <2>3
  <2>. QED BY <2>4 DEF IsConn
<1>. QED BY <1>1, <1>6, ReleasedTimed

-------------------------------------------------------------------------------
(* tick *)

\* The loop of tick starts with the first node of the list, which comes once.
LEMMA TickStartTimed == ASSUME OwnInv, TimedInv, TickStart PROVE TimedInv'
<1>1. pc = "tick" /\ UNCHANGED <<cut, fdTab, epoll, batch, accepted, messages>>
  BY DEF TickStart, clients, workers
<1>2. /\ Turn \in Seq(Nodes) /\ Len(Turn) \in Nat /\ OnceListed(wheel)
      /\ wheel.currentIndex \in Slots /\ \A k \in 1..Len(Turn) : Turn[k] \in Nodes
  BY NodesHaveFds DEF TimedInv
<1>3. CASE Turn = <<>> /\ TickDone
  <2>1. \A n : ~ Listed(wheel, wheel.currentIndex, n)
    BY <1>3 DEF Listed, Turn
  <2>. QED BY <1>1, <1>3, <2>1, TickDoneTimed
<1>4. CASE /\ Turn # <<>> /\ list' = Turn[1] /\ current' = Turn[1] /\ pc' = "visit"
           /\ UNCHANGED <<wheel, idle>>
  <2>1. 1 \in 1..Len(Turn) /\ Turn[1] \in Nodes
    BY <1>2, <1>4
  <2>2. Intact' = Intact /\ ConnsShrink /\ \A g : IsConn(g)' = IsConn(g)
    BY <1>1, CutStays DEF ConnsShrink, IsConn, Open
  <2>3. /\ accepted \in Nat /\ messages \in Nat /\ messages \in 0..MaxMessages
    BY Constants, ReactorAssumption DEF OwnInv, DescriptorsOK, TimedInv, Room
  <2>4. Types' /\ Room' /\ Timed' /\ Distinct'
    <3>1. PICK a \in Nat, m \in Nat : a = accepted /\ m = messages /\ a = accepted' /\ m = messages'
      BY <1>1, <2>3
    <3>2. accepted' >= accepted /\ messages' >= messages /\ accepted' \in Nat
      BY <3>1
    <3>. QED BY <1>1, <1>4, <2>1, <2>2, <2>3, <3>2, WheelStays
  <2>5. Turn' = Turn
    BY <1>4 DEF Turn
  <2>6. \A k \in 1..Len(Turn) : Turn[k] = Turn[1] => k = 1
    BY <1>2, <2>1 DEF OnceListed, Turn
  <2>7. Visited'
    <3>1. 0 \in 0..Len(Turn) /\ Turn[0 + 1] = Turn[1] /\ 1..0 = {}
      BY <1>2
    <3>. QED BY <1>4, <2>1, <2>5, <2>6, <3>1 DEF Visited
  <2>8. Filled' /\ Polled'
    BY <1>1, <1>4, <2>2 DEF TimedInv, Filled, Polled
  <2>. QED BY <2>4, <2>7, <2>8 DEF TimedInv
<1>. QED BY <1>3, <1>4 DEF TickStart, Turn

\* The loop never reads a freed node before all descriptors of the list are closed.
LEMMA TickVisitFreedTimed == ASSUME OwnInv, TimedInv, TickVisitFreed PROVE TimedInv'
<1>1. /\ pc = "visit" /\ wheel.fdOf[current] = NULL /\ pc' \in {"ticked", "crashed"} /\ current' = NULL
      /\ UNCHANGED <<cut, fdTab, epoll, wheel, batch, list, idle, accepted, messages>>
  BY DEF TickVisitFreed, clients, workers
<1>2. /\ Turn \in Seq(Nodes) /\ Len(Turn) \in Nat
      /\ \A k \in 1..Len(Turn) : Turn[k] \in Nodes /\ wheel.fdOf[Turn[k]] \in Fds
  BY NodesHaveFds DEF TimedInv
<1>3. Intact' = Intact /\ ConnsShrink /\ \A g : IsConn(g)' = IsConn(g)
  BY <1>1, CutStays DEF ConnsShrink, IsConn, Open
<1>4. /\ accepted \in Nat /\ messages \in Nat /\ messages \in 0..MaxMessages /\ list \in Nodes \cup {NULL}
  BY Constants, ReactorAssumption DEF OwnInv, DescriptorsOK, TimedInv, Room, Types
<1>5. Types' /\ Room' /\ Timed' /\ Distinct'
  <2>1. PICK a \in Nat, m \in Nat : a = accepted /\ m = messages /\ a = accepted' /\ m = messages'
    BY <1>1, <1>4
  <2>2. accepted' >= accepted /\ messages' >= messages /\ accepted' \in Nat
    BY <2>1
  <2>. QED BY <1>1, <1>3, <1>4, <2>2, WheelStays
<1>6. \A k \in 1..Len(Turn) : ~IsConn(wheel.fdOf[Turn[k]])
  <2>1. PICK p \in 0..Len(Turn) :
            /\ \A k \in 1..p : ~IsConn(wheel.fdOf[Turn[k]])
            /\ p = Len(Turn) \/ current = Turn[p + 1]
    BY <1>1 DEF TimedInv, Visited
  <2>2. p = Len(Turn)
    <3>1. SUFFICES ASSUME p # Len(Turn) PROVE FALSE
      OBVIOUS
    <3>2. p + 1 \in 1..Len(Turn) /\ current = Turn[p + 1]
      BY <1>2, <2>1, <3>1
    <3>. QED BY <1>1, <1>2, <3>2, Constants
  <2>. QED BY <2>1, <2>2
<1>7. Visited'
  <2>1. Turn' = Turn /\ wheel' = wheel
    BY <1>1 DEF Turn
  <2>. QED BY <1>1, <1>3, <1>6, <2>1 DEF Visited, IsConn, Open
<1>8. Filled' /\ Polled'
  BY <1>1, <1>3 DEF TimedInv, Filled, Polled
<1>. QED BY <1>5, <1>7, <1>8 DEF TimedInv

\* The tick after the loop.
LEMMA TickEndTimed == ASSUME OwnInv, TimedInv, TickEnd PROVE TimedInv'
<1>1. pc = "ticked" /\ TickDone /\ UNCHANGED <<cut, fdTab, epoll, batch, accepted, messages>>
  BY DEF TickEnd, clients, workers
<1>2. \A n : Listed(wheel, wheel.currentIndex, n) => ~IsConn(wheel.fdOf[n])
  BY <1>1 DEF TimedInv, Visited, Listed, Turn
<1>. QED BY <1>1, <1>2, TickDoneTimed

\* The node after the one at place k of a list.
LEMMA NextOf ==
  ASSUME NEW w, GoodWheel(w), NEW i \in Slots, NEW k \in 1..Len(w.slots[i])
  PROVE  NextNode(w, w.slots[i][k]) = w.slots[i][IF k = Len(w.slots[i]) THEN 1 ELSE k + 1]
<1>. DEFINE n == w.slots[i][k]
            In == { j \in DOMAIN w.slots : n \in ToSet(w.slots[j]) }
            s == w.slots[i]
<1>1. IsWheel(w) /\ OnceListed(w)
  BY WellFormedOf DEF GoodWheel
<1>2. /\ DOMAIN w.slots = Slots /\ \A j \in Slots : \A m : m \in ToSet(w.slots[j]) <=> Listed(w, j, m)
      /\ DOMAIN s = 1..Len(s) /\ Len(s) \in Nat
  BY <1>1, ListsOf
<1>3. Listed(w, i, n) /\ \A j \in Slots : Listed(w, j, n) => j = i
  BY <1>1 DEF Listed, OnceListed
<1>4. In = {i}
  BY <1>2, <1>3
<1>5. (CHOOSE j \in In : TRUE) = i
  <2>. HIDE DEF In
  <2>. QED BY <1>4
<1>6. (CHOOSE l \in DOMAIN s : s[l] = n) = k
  <2>1. \A l \in 1..Len(s) : s[l] = n => l = k
    BY <1>1 DEF OnceListed
  <2>2. k \in DOMAIN s /\ s[k] = n
    BY <1>2
  <2>. QED BY <1>2, <2>1, <2>2
<1>7. NextNode(w, n) = s[(k % Len(s)) + 1]
  <2>1. In # {}
    BY <1>4
  <2>. QED BY <1>5, <1>6, <2>1 DEF NextNode
<1>8. (k % Len(s)) + 1 = IF k = Len(s) THEN 1 ELSE k + 1
  <2>. HIDE DEF s
  <2>1. Len(s) \in Nat \ {0} /\ k \in 0..(2 * Len(s) - 1) /\ k <= Len(s) /\ k \in Nat
    BY <1>2 DEF s
  <2>2. k % Len(s) = IF k < Len(s) THEN k ELSE k - Len(s)
    BY <2>1, Below
  <2>. QED BY <2>1, <2>2
<1>. QED BY <1>7, <1>8

\* A node that is in no list has none after it, and any other has a node.
LEMMA NextIsNode ==
  ASSUME NEW w, GoodWheel(w), NEW n PROVE NextNode(w, n) \in Nodes \cup {NULL}
<1>1. IsWheel(w)
  BY DEF GoodWheel
<1>2. DOMAIN w.slots = Slots /\ \A j \in Slots : \A m : m \in ToSet(w.slots[j]) <=> Listed(w, j, m)
  BY <1>1, ListsOf
<1>3. CASE \E i \in Slots : Listed(w, i, n)
  <2>1. PICK i \in Slots : \E k \in 1..Len(w.slots[i]) : w.slots[i][k] = n
    BY <1>3 DEF Listed
  <2>2. PICK k \in 1..Len(w.slots[i]) : w.slots[i][k] = n
    BY <2>1
  <2>3. NextNode(w, n) = w.slots[i][IF k = Len(w.slots[i]) THEN 1 ELSE k + 1]
    BY <2>2, NextOf
  <2>4. (IF k = Len(w.slots[i]) THEN 1 ELSE k + 1) \in 1..Len(w.slots[i])
    BY <1>1, ListsOf
  <2>. QED BY <1>1, <2>3, <2>4, ListsOf
<1>4. CASE ~ \E i \in Slots : Listed(w, i, n)
  <2>1. { j \in DOMAIN w.slots : n \in ToSet(w.slots[j]) } = {}
    BY <1>2, <1>4
  <2>. QED BY <2>1 DEF NextNode
<1>. QED BY <1>3, <1>4

\* What a removal makes of the list of slot i: it stays, or a place k of it is gone, and no
\* node of f is before k.
CutAt(s, r, k) ==
  /\ k \in 1..Len(s) /\ Len(r) = Len(s) - 1
  /\ \A l \in 1..Len(r) : r[l] = s[IF l >= k THEN l + 1 ELSE l]

\* What a removal makes of one list.
LEMMA RemovedFrom ==
  ASSUME NEW w, GoodWheel(w), NEW v, NEW f \in Fds, Removed(w, v, f), NEW i \in Slots
  PROVE  \/ v.slots[i] = w.slots[i]
         \/ \E k : /\ CutAt(w.slots[i], v.slots[i], k)
                   /\ \A l \in 1..Len(w.slots[i]) : w.fdOf[w.slots[i][l]] = f => k <= l
<1>1. CASE SameLists(w, v)
  BY <1>1 DEF SameLists
<1>2. ASSUME NEW j \in Slots, NEW k \in 1..Len(w.slots[j]), UnlinkedAt(w, v, f, j, k)
      PROVE  \/ v.slots[i] = w.slots[i]
             \/ \E h : /\ CutAt(w.slots[i], v.slots[i], h)
                       /\ \A l \in 1..Len(w.slots[i]) : w.fdOf[w.slots[i][l]] = f => h <= l
  <2>1. Places(w, v, j, k)
    BY <1>2, UnlinkedPlaces DEF GoodWheel
  <2>2. CASE i # j
    BY <2>1, <2>2 DEF Places
  <2>3. CASE i = j
    <3>1. Len(v.slots[i]) = Len(w.slots[i]) - 1
      BY <2>1, <2>3 DEF Places
    <3>2. \A l \in 1..Len(v.slots[i]) : v.slots[i][l] = w.slots[i][IF l >= k THEN l + 1 ELSE l]
      BY <2>1, <2>3 DEF Places, Was
    <3>3. \A l \in 1..Len(w.slots[i]) : w.fdOf[w.slots[i][l]] = f => k <= l
      BY <1>2, <2>3 DEF UnlinkedAt
    <3>4. CutAt(w.slots[i], v.slots[i], k)
      BY <2>3, <3>1, <3>2 DEF CutAt
    <3>. QED BY <3>3, <3>4
  <2>. QED BY <2>2, <2>3
<1>. QED BY <1>1, <1>2 DEF Removed

\* The descriptor of node n is not a connection's.
Shut(n) == ~IsConn(wheel.fdOf[n])

\* With the descriptor f, that of every node of the list s is closed.
ShutWith(s, f) == \A k \in 1..Len(s) : Shut(s[k]) \/ wheel.fdOf[s[k]] = f

\* How Visited is established, for a list r that is the one whose turn is next.
LEMMA VisitedFrom ==
  ASSUME NEW r, Turn' = r, \A l \in 1..Len(r) : r[l] = list' => l = 1,
         pc' = "ticked" => \A l \in 1..Len(r) : Shut(r[l])',
         pc' = "visit" =>
           /\ current' \in Nodes
           /\ \E q \in 0..Len(r) : /\ \A l \in 1..q : Shut(r[l])'
                                   /\ q = Len(r) \/ current' = r[q + 1]
  PROVE  Visited'
<1>1. pc' = "ticked" => \A l \in 1..Len(Turn)' : ~IsConn(wheel.fdOf[Turn[l]])'
  BY DEF Shut
<1>2. ASSUME pc' = "visit"
      PROVE  \E q \in 0..Len(Turn)' : /\ \A l \in 1..q : ~IsConn(wheel.fdOf[Turn[l]])'
                                      /\ q = Len(Turn)' \/ current' = Turn'[q + 1]
  BY <1>2 DEF Shut
<1>. QED BY <1>1, <1>2 DEF Visited

\* An iteration of the loop: the descriptor of current is closed, at most one place that is
\* not after current goes, and current moves on to the next node.
LEMMA TickVisitTimed == ASSUME OwnInv, TimedInv, TickVisit PROVE TimedInv'
<1>0. PICK f, next : f = wheel.fdOf[current] /\ next = NextNode(wheel, current)
  OBVIOUS
<1>1. /\ pc = "visit" /\ f # NULL /\ wheel' = removeUser(wheel, f)
      /\ fdTab' = [fdTab EXCEPT ![f] = NULL] /\ epoll' = epoll \ {f}
      /\ current' = next /\ pc' = IF next \in {list, NULL} THEN "ticked" ELSE "visit"
      /\ UNCHANGED <<batch, list, idle, accepted, messages>>
  BY <1>0 DEF TickVisit, TabWithout, clients, workers
<1>2. Intact' => Intact
  <2>1. cut => cut'
    BY Zenon DEF TickVisit
  <2>. QED BY <2>1, Zenon DEF Intact
<1>3. GoodWheel(wheel) /\ current \in Nodes
  BY <1>1 DEF TimedInv, Types, Visited
<1>4. f \in Fds
  <2>1. wheel.fdOf \in [Nodes -> Fds \cup {NULL}]
    BY <1>3, Fields DEF GoodWheel
  <2>. QED BY <1>0, <1>1, <1>3, <2>1
<1>5. /\ GoodWheel(wheel') /\ Removed(wheel, wheel', f)
      /\ \A g \in Fds : g # f /\ Named(wheel, g) => Named(wheel', g)
  BY <1>1, <1>3, <1>4, RemoveUserStep
<1>6. /\ wheel'.currentIndex = wheel.currentIndex
      /\ \A i \in Slots : \A n : Listed(wheel, i, n) /\ wheel.fdOf[n] # f =>
           Listed(wheel', i, n) /\ wheel'.fdOf[n] = wheel.fdOf[n]
      /\ \A i \in Slots : \A n : Listed(wheel', i, n) =>
           Listed(wheel, i, n) /\ wheel'.fdOf[n] = wheel.fdOf[n]
      /\ \A n \in Nodes : wheel'.fdOf[n] # NULL => wheel.fdOf[n] # NULL
  BY <1>3, <1>4, <1>5, RemovedLists
<1>7. /\ IsWheel(wheel) /\ OnceListed(wheel) /\ wheel.currentIndex \in Slots
      /\ Turn \in Seq(Nodes) /\ Len(Turn) \in Nat
      /\ \A k \in 1..Len(Turn) : Turn[k] \in Nodes /\ wheel.fdOf[Turn[k]] \in Fds
                                 /\ Listed(wheel, wheel.currentIndex, Turn[k])
  BY NodesHaveFds DEF TimedInv
<1>8. \A g \in Fds : IsConn(g)' <=> IsConn(g) /\ g # f
  <2>1. \A g \in Fds : fdTab'[g] = IF g = f THEN NULL ELSE fdTab[g]
    BY <1>1 DEF OwnInv, DescriptorsOK
  <2>. QED BY <2>1 DEF IsConn, Open
<1>9. next \in Nodes \cup {NULL}
  BY <1>0, <1>3, NextIsNode
<1>10. \A d : SlotAt(wheel', d) = SlotAt(wheel, d)
  BY <1>6 DEF SlotAt
<1>11. \A d \in Slots : SlotAt(wheel, d) \in Slots
  BY <1>7, SlotsAhead
<1>12. Timeout \in Slots /\ \A d \in 0..Timeout : d \in Slots
  BY WheelConstants DEF Slots
<1>13. Types'
  BY <1>1, <1>5, <1>9 DEF TimedInv, Types
<1>14. Room'
  <2>1. NodesInUse(wheel') \subseteq NodesInUse(wheel)
    BY <1>6 DEF NodesInUse
  <2>. QED BY <1>1, <2>1, RoomKept DEF TimedInv, OwnInv
<1>15. Timed'
  <2>. SUFFICES ASSUME NEW g \in Fds, IsConn(g)' PROVE Named(wheel', g) /\ InTime(g)'
    BY DEF Timed
  <2>1. IsConn(g) /\ g # f
    BY <1>8
  <2>2. fdTab'[g] = fdTab[g]
    BY <1>1, <2>1 DEF OwnInv, DescriptorsOK
  <2>3. Named(wheel, g) /\ InTime(g)
    BY <2>1 DEF TimedInv, Timed
  <2>4. PICK d \in 0..Timeout : \E m : /\ Listed(wheel, SlotAt(wheel, d), m) /\ wheel.fdOf[m] = g
                                       /\ idle[fdTab[g][2]] + d <= Timeout
    BY <2>3 DEF InTime
  <2>5. PICK m : /\ Listed(wheel, SlotAt(wheel, d), m) /\ wheel.fdOf[m] = g
                 /\ idle[fdTab[g][2]] + d <= Timeout
    BY <2>4
  <2>6. Listed(wheel', SlotAt(wheel', d), m) /\ wheel'.fdOf[m] = g
    BY <1>6, <1>10, <1>11, <1>12, <2>1, <2>5
  <2>7. idle'[fdTab'[g][2]] + d <= Timeout
    BY <1>1, <2>2, <2>5
  <2>. QED BY <1>5, <2>1, <2>3, <2>6, <2>7 DEF InTime
<1>16. Filled'
  <2>1. \A d \in Slots : d > Timeout => \A n : ~ Listed(wheel', SlotAt(wheel', d), n)
    BY <1>6, <1>10, <1>11 DEF TimedInv, Filled
  <2>2. pc' \notin {"wait", "events", "unlist"}
    BY <1>1
  <2>. QED BY <2>1, <2>2 DEF Filled
<1>17. Distinct'
  BY <1>2, <1>6 DEF TimedInv, Distinct
<1>18. Polled'
  <2>1. pc' \notin {"events", "unlist"}
    BY <1>1
  <2>2. \A g \in epoll' : IsConn(g)'
    BY <1>1, <1>8 DEF OwnInv, DescriptorsOK, TimedInv, Polled
  <2>. QED BY <2>1, <2>2 DEF Polled
<1>31. PICK s : s = Turn
  OBVIOUS
<1>32. PICK r : r = wheel'.slots[wheel.currentIndex]
  OBVIOUS
<1>19. Turn' = r /\ r \in Seq(Nodes) /\ Len(r) \in Nat
  <2>1. Turn' = r
    BY <1>6, <1>32 DEF Turn
  <2>2. wheel'.slots \in [Slots -> Seq(Nodes)]
    BY <1>5, Fields DEF GoodWheel
  <2>. QED BY <1>7, <1>32, <2>1, <2>2
<1>20. \/ r = s
       \/ \E k : /\ CutAt(s, r, k)
                 /\ \A l \in 1..Len(s) : wheel.fdOf[s[l]] = f => k <= l
  BY <1>3, <1>4, <1>5, <1>7, <1>31, <1>32, RemovedFrom DEF Turn
<1>21. ASSUME NEW l \in 1..Len(r), NEW k \in 1..Len(s), r[l] = s[k],
              Shut(s[k]) \/ wheel.fdOf[s[k]] = f
       PROVE  Shut(r[l])'
  <2>1. Listed(wheel', wheel.currentIndex, r[l])
    BY <1>32 DEF Listed
  <2>2. wheel'.fdOf[r[l]] = wheel.fdOf[s[k]]
    BY <1>6, <1>7, <1>21, <2>1
  <2>3. PICK g \in Fds : g = wheel.fdOf[s[k]] /\ g = wheel'.fdOf[r[l]]
    BY <1>7, <1>31, <2>2
  <2>4. ~IsConn(g)'
    BY <1>8, <1>21, <2>3 DEF Shut
  <2>. QED BY <2>3, <2>4 DEF IsConn, Open, Shut
<1>22. PICK p \in 0..Len(s) : /\ \A k \in 1..p : Shut(s[k])
                              /\ p = Len(s) \/ current = s[p + 1]
  BY <1>1, <1>31 DEF TimedInv, Visited, Shut
<1>23. \A k \in 1..Len(s) : s[k] = list => k = 1
  BY <1>1, <1>31 DEF TimedInv, Visited
<1>24. Len(s) \in Nat /\ \A l \in 1..Len(r) : \E k \in 1..Len(s) : r[l] = s[k] /\ (k = 1 => l = 1)
  <2>1. Len(s) \in Nat
    BY <1>7, <1>31
  <2>2. CASE r = s
    BY <2>2
  <2>3. ASSUME NEW k, CutAt(s, r, k), NEW l \in 1..Len(r)
        PROVE  \E h \in 1..Len(s) : r[l] = s[h] /\ (h = 1 => l = 1)
    <3>1. k \in 1..Len(s) /\ Len(r) = Len(s) - 1 /\ r[l] = s[IF l >= k THEN l + 1 ELSE l]
      BY <2>3 DEF CutAt
    <3>2. CASE l >= k
      <4>1. l + 1 \in 1..Len(s) /\ l + 1 # 1
        BY <2>1, <3>1
      <4>. QED BY <3>1, <3>2, <4>1
    <3>3. CASE ~ (l >= k)
      <4>1. l \in 1..Len(s)
        BY <2>1, <3>1
      <4>. QED BY <3>1, <3>3, <4>1
    <3>. QED BY <3>2, <3>3
  <2>. QED BY <1>20, <2>1, <2>2, <2>3
<1>25. \A l \in 1..Len(r) : r[l] = list => l = 1
  BY <1>23, <1>24
<1>26. ASSUME ShutWith(s, f) PROVE Visited'
  <2>1. \A l \in 1..Len(r) : Shut(r[l])'
    BY <1>21, <1>24, <1>26 DEF ShutWith
  <2>2. pc' = "visit" => current' \in Nodes
    BY <1>1, <1>9
  <2>3. Len(r) \in 0..Len(r) /\ list' = list
    BY <1>1, <1>19
  <2>4. Turn' = r /\ \A l \in 1..Len(r) : r[l] = list' => l = 1
    BY <1>19, <1>25, <2>3
  <2>5. Len(r) \in 0..Len(r) /\ \A l \in 1..Len(r) : Shut(r[l])'
    BY <2>1, <2>3
  <2>6. \E q \in 0..Len(r) : /\ \A l \in 1..q : Shut(r[l])'
                             /\ q = Len(r) \/ current' = r[q + 1]
    BY <2>5
  <2>. QED BY <2>2, <2>4, <2>5, <2>6, VisitedFrom
<1>27. ASSUME p + 1 < Len(s) PROVE Visited'
  <2>1. /\ p + 1 \in 1..Len(s) /\ p + 2 \in 1..Len(s) /\ p + 1 # Len(s) /\ (p + 1) + 1 = p + 2
        /\ p # Len(s) /\ p + 2 # 1 /\ p \in Nat
    BY <1>22, <1>24, <1>27
  <2>2. current = s[p + 1] /\ wheel.fdOf[s[p + 1]] = f
    BY <1>0, <1>22, <2>1
  <2>3. next = s[p + 2]
    <3>1. next = wheel.slots[wheel.currentIndex][IF p + 1 = Len(s) THEN 1 ELSE (p + 1) + 1]
      BY <1>0, <1>3, <1>7, <2>1, <2>2, <1>31, NextOf DEF Turn
    <3>. QED BY <1>31, <2>1, <3>1 DEF Turn
  <2>4. next \in Nodes /\ next # list /\ next # NULL
    <3>1. next \in Nodes
      BY <1>7, <1>31, <2>1, <2>3
    <3>2. NULL \notin Nodes
      BY WheelConstants
    <3>. QED BY <1>23, <2>1, <2>3, <3>1, <3>2
  <2>5. pc' = "visit" /\ current' = s[p + 2]
    BY <1>1, <2>3, <2>4
  <2>6. \A k \in 1..(p + 1) : k \in 1..Len(s) /\ (Shut(s[k]) \/ wheel.fdOf[s[k]] = f)
    <3>1. \A k \in 1..(p + 1) : k \in 1..Len(s) /\ (k \in 1..p \/ k = p + 1)
      BY <1>24, <2>1
    <3>. QED BY <1>22, <2>2, <3>1
  <2>7. \E q \in 0..Len(r) : (\A l \in 1..q : Shut(r[l])') /\ current' = r[q + 1]
    <3>1. CASE r = s
      <4>1. p + 1 \in 0..Len(r) /\ \A l \in 1..(p + 1) : l \in 1..Len(r) /\ r[l] = s[l]
        BY <2>1, <2>6, <3>1
      <4>2. \A l \in 1..(p + 1) : Shut(r[l])'
        BY <1>21, <2>6, <4>1
      <4>. QED BY <2>1, <2>5, <3>1, <4>1, <4>2
    <3>2. ASSUME NEW k, CutAt(s, r, k), \A l \in 1..Len(s) : wheel.fdOf[s[l]] = f => k <= l
          PROVE  \E q \in 0..Len(r) : (\A l \in 1..q : Shut(r[l])') /\ current' = r[q + 1]
      <4>1. k \in 1..Len(s) /\ k <= p + 1 /\ Len(r) = Len(s) - 1
        BY <2>1, <2>2, <3>2 DEF CutAt
      <4>2. p \in 0..Len(r) /\ p + 1 \in 1..Len(r)
        BY <1>24, <1>27, <2>1, <4>1
      <4>3. r[p + 1] = s[p + 2]
        BY <2>1, <3>2, <4>1, <4>2 DEF CutAt
      <4>4. ASSUME NEW l \in 1..p PROVE Shut(r[l])'
        <5>1. l \in 1..Len(r) /\ r[l] = s[IF l >= k THEN l + 1 ELSE l]
          BY <3>2, <4>2 DEF CutAt
        <5>2. PICK h \in 1..(p + 1) : h = IF l >= k THEN l + 1 ELSE l
          BY <2>1
        <5>. QED BY <1>21, <2>6, <5>1, <5>2
      <4>. QED BY <2>5, <4>2, <4>3, <4>4
    <3>. QED BY <1>20, <3>1, <3>2
  <2>8. current' \in Nodes /\ list' = list
    BY <1>1, <2>4
  <2>9. Turn' = r /\ \A l \in 1..Len(r) : r[l] = list' => l = 1
    BY <1>19, <1>25, <2>8
  <2>10. pc' # "ticked"
    BY <2>5
  <2>. QED BY <2>7, <2>8, <2>9, <2>10, VisitedFrom
<1>28. ASSUME p = Len(s) \/ p + 1 = Len(s) PROVE Visited'
  <2>1. \A k \in 1..Len(s) : k \in 1..p \/ (k = p + 1 /\ p # Len(s))
    BY <1>22, <1>24, <1>28
  <2>2. p # Len(s) => wheel.fdOf[s[p + 1]] = f
    BY <1>0, <1>22
  <2>3. ShutWith(s, f)
    BY <1>22, <2>1, <2>2 DEF ShutWith
  <2>. QED BY <1>26, <2>3
<1>29. p + 1 < Len(s) \/ p = Len(s) \/ p + 1 = Len(s)
  <2>1. Len(s) \in Nat /\ p \in 0..Len(s)
    BY <1>22, <1>24
  <2>. QED BY <2>1
<1>30. Visited'
  BY <1>27, <1>28, <1>29, Zenon
<1>. QED BY <1>13, <1>14, <1>15, <1>16, <1>17, <1>18, <1>30 DEF TimedInv

-------------------------------------------------------------------------------
(* The wheel for ever *)

\* The empty wheel.
LEMMA InitTimed == ASSUME Init PROVE TimedInv
<1>. USE DEF Init, clients, workers
<1>1. /\ pc = "wait" /\ list = NULL /\ current = NULL /\ epoll = {} /\ batch = {}
      /\ accepted = 0 /\ messages = 0 /\ idle = [c \in ConnIds |-> 0] /\ wheel = createTimeWheel
      /\ \A f \in Fds : ~IsConn(f)
  BY Zenon DEF IsConn, Open
<1>. HIDE DEF Init
<1>2. /\ wheel.slots = [i \in Slots |-> <<>>] /\ wheel.fdOf = [n \in Nodes |-> NULL]
      /\ wheel.hashTable = [b \in 0..(InitialHashSize - 1) |-> <<>>]
      /\ wheel.hashSize = InitialHashSize /\ wheel.elementCount = 0 /\ wheel.currentIndex = 0
      /\ wheel = [slots |-> wheel.slots, fdOf |-> wheel.fdOf, hashTable |-> wheel.hashTable,
                  hashSize |-> wheel.hashSize, elementCount |-> wheel.elementCount,
                  currentIndex |-> wheel.currentIndex]
  BY <1>1 DEF createTimeWheel, Slots
<1>3. IsWheel(wheel)
  <2>1. InitialHashSize \in Nat \ {0} /\ 0 \in Slots /\ 0 \in Nat
    BY WheelConstants, TimeWheelAssumption DEF Slots
  <2>2. <<>> \in Seq(Nodes) /\ <<>> \in Seq([peerfd : Fds, index : Slots])
    OBVIOUS
  <2>3. /\ wheel.slots \in [Slots -> Seq(Nodes)]
        /\ wheel.fdOf \in [Nodes -> Fds \cup {NULL}]
        /\ wheel.hashTable \in [0..(wheel.hashSize - 1) -> Seq([peerfd : Fds, index : Slots])]
        /\ wheel.hashSize \in Nat \ {0} /\ wheel.elementCount \in Nat /\ wheel.currentIndex \in Slots
    BY <1>2, <2>1, <2>2
  <2>. QED BY <1>2, <2>3 DEF IsWheel, Slots
<1>4. \A i \in Slots : \A n : ~ Listed(wheel, i, n)
  BY <1>2 DEF Listed
<1>5. OnceListed(wheel) /\ Allocated(wheel)
  BY <1>4 DEF OnceListed, Allocated, Listed
<1>6. HashNodes(wheel) = {}
  BY <1>2 DEF HashNodes
<1>7. GoodWheel(wheel)
  <2>1. IsFiniteSet(HashNodes(wheel)) /\ Cardinality(HashNodes(wheel)) = 0
    BY <1>6, FS_EmptySet
  <2>2. \A b \in 0..(wheel.hashSize - 1) : ToSet(wheel.hashTable[b]) = {}
    BY <1>2 DEF ToSet
  <2>3. WellFormed(wheel)
    <3>1. \A b \in DOMAIN wheel.hashTable : \A e \in ToSet(wheel.hashTable[b]) :
            hashFunction(e.peerfd, wheel.hashSize) = b
      BY <1>2, <2>2
    <3>2. \A i \in Slots : \A n : Listed(wheel, i, n) => wheel.fdOf[n] # NULL
      BY <1>4
    <3>. QED BY <1>3, <1>5, <3>1, <3>2, WellFormedOf
  <2>. QED BY <1>2, <1>3, <2>1, <2>3 DEF GoodWheel, CountsNodes
<1>8. Types
  BY <1>1, <1>7, WheelConstants DEF Types
<1>9. Room
  <2>1. NodesInUse(wheel) = {}
    BY <1>2 DEF NodesInUse
  <2>2. IsFiniteSet(NodesInUse(wheel)) /\ Cardinality(NodesInUse(wheel)) = 0
    BY <2>1, FS_EmptySet
  <2>3. MaxMessages \in Nat
    BY ReactorAssumption
  <2>. QED BY <1>1, <2>2, <2>3 DEF Room
<1>10. \A d \in Slots : SlotAt(wheel, d) \in Slots
  BY <1>3, SlotsAhead
<1>11. Timeout \in Slots
  BY WheelConstants DEF Slots
<1>. QED BY <1>1, <1>4, <1>8, <1>9, <1>10, <1>11 DEF TimedInv, Timed, Filled, Distinct, Visited, Polled

\* Every step of the reactor and of the workers.
LEMMA NextTimed == OwnInv /\ TimedInv /\ [Next]_vars => TimedInv'
<1> SUFFICES ASSUME OwnInv, TimedInv, [Next]_vars PROVE TimedInv'
  OBVIOUS
<1>1. CASE EpollWait \/ Accept \/ AcceptFailed \/ AcceptNothing \/ Unlist
  BY <1>1, EpollWaitTimed, AcceptTimed, AcceptFailedTimed, AcceptNothingTimed, UnlistTimed
<1>2. ASSUME NEW f \in Fds, HandleMessage(f) PROVE TimedInv'
  BY <1>2, CommandTimed, ShortCommandTimed, TransferTimed, StrayTransferTimed, HangupTimed
     DEF HandleMessage
<1>3. CASE Tick
  BY <1>3, TickStartTimed, TickVisitTimed, TickVisitFreedTimed, TickEndTimed DEF Tick
<1>4. ASSUME WorkerStep PROVE TimedInv'
  <2>1. ASSUME NEW t \in transfers, TransferStep(t) PROVE TimedInv'
    BY <2>1, OpenFileTimed, GiveUpTimed, RepollTimed, CloseFileTimed DEF TransferStep
  <2>2. ASSUME NEW o \in own, CloseOwn(o) PROVE TimedInv'
    BY <2>2, CloseOwnTimed
  <2>. QED BY <1>4, <2>1, <2>2, OpenOwnTimed, OpenFailsTimed DEF WorkerStep
<1>5. CASE UNCHANGED vars
  <2>1. UNCHANGED <<cut, fdTab, epoll, wheel, pc, batch, list, current, idle, accepted, messages>>
    BY <1>5 DEF vars, clients, workers
  <2>2. Intact' = Intact /\ ConnsShrink /\ \A g : IsConn(g)' = IsConn(g)
    BY <2>1, CutStays DEF ConnsShrink, IsConn, Open
  <2>3. pc' \in ReactorPlaces
    BY <2>1 DEF TimedInv, Types, ReactorPlaces
  <2>. QED BY <2>1, <2>2, <2>3, QuietTimed DEF TimedInv, Polled
<1>. QED BY <1>1, <1>2, <1>3, <1>4, <1>5 DEF Next, MainStep, Spin, Crashed

\* TimedInv gives what WheelInv states.
LEMMA TimedIsWheelInv == ASSUME OwnInv, TimedInv PROVE WheelInv
<1>1. /\ IsWheel(wheel) /\ OnceListed(wheel) /\ wheel.currentIndex \in Slots /\ Len(Turn) \in Nat
      /\ \A i \in Slots : \A n : Listed(wheel, i, n) => n \in Nodes /\ wheel.fdOf[n] \in Fds
  BY NodesHaveFds DEF TimedInv
<1>2. /\ DOMAIN wheel.slots = Slots
      /\ \A i \in Slots : /\ DOMAIN wheel.slots[i] = 1..Len(wheel.slots[i])
                          /\ \A n : n \in ToSet(wheel.slots[i]) <=> Listed(wheel, i, n)
  BY <1>1, ListsOf
<1>3. /\ SlotAt(wheel, 0) = wheel.currentIndex /\ 0 \in Slots /\ Timeout \in Slots
      /\ Slots = 0..(WheelSize - 1) /\ 0..Timeout \subseteq Slots
      /\ \A d \in Slots : SlotAt(wheel, d) \in Slots /\ Ahead(wheel, d) = wheel.slots[SlotAt(wheel, d)]
  <2>1. /\ 0 \in Slots /\ Timeout \in Slots
        /\ Slots = 0..(WheelSize - 1) /\ 0..Timeout \subseteq Slots
    BY WheelConstants DEF Slots
  <2>2. \A d \in Slots : SlotAt(wheel, d) \in Slots
    BY <1>1, SlotsAhead
  <2>3. SlotAt(wheel, 0) = wheel.currentIndex
    BY <1>1, SlotsAhead
  <2>4. \A d : Ahead(wheel, d) = wheel.slots[SlotAt(wheel, d)]
    BY DEF Ahead, SlotAt
  <2>. QED BY <2>1, <2>2, <2>3, <2>4
<1>4. \A d \in Slots : \A n : n \in ToSet(Ahead(wheel, d)) <=> Listed(wheel, SlotAt(wheel, d), n)
  BY <1>2, <1>3
<1>5. Ahead(wheel, 0) = Turn
  BY <1>3 DEF Turn
<1>6. TypeOK
  BY DEF TypeOK, OwnInv, TimedInv, Types, GoodWheel
<1>7. CountIsExact /\ WellFormed(wheel)
  BY DEF CountIsExact, TimedInv, Types, GoodWheel
<1>8. TimedBySilence
  <2>. SUFFICES ASSUME NEW f \in Fds, IsConn(f)
                PROVE  \E d \in 0..Timeout : \E n \in ToSet(Ahead(wheel, d)) :
                         wheel.fdOf[n] = f /\ idle[fdTab[f][2]] + d <= Timeout
    BY DEF TimedBySilence
  <2>1. PICK d \in 0..Timeout : \E n : /\ Listed(wheel, SlotAt(wheel, d), n) /\ wheel.fdOf[n] = f
                                       /\ idle[fdTab[f][2]] + d <= Timeout
    BY DEF TimedInv, Timed, InTime
  <2>. QED BY <1>3, <1>4, <2>1
<1>9. AlwaysTimed
  <2>. SUFFICES ASSUME NEW f \in Fds, IsConn(f) PROVE Registered(wheel, f)
    BY DEF AlwaysTimed
  <2>1. Named(wheel, f) /\ InTime(f)
    BY DEF TimedInv, Timed
  <2>2. \E i \in DOMAIN wheel.slots : \E n \in ToSet(wheel.slots[i]) : wheel.fdOf[n] = f
    BY <1>2, <1>3, <2>1 DEF InTime
  <2>3. \E i \in DOMAIN BucketHead(wheel, f) : BucketHead(wheel, f)[i].peerfd = f
    BY <2>1 DEF Named, ToSet
  <2>. QED BY <2>2, <2>3 DEF Registered
<1>10. SlotsDistinct
  <2>1. ASSUME Intact PROVE SlotsAlwaysDistinct
    BY <1>2, <2>1 DEF TimedInv, Distinct, SlotsAlwaysDistinct
  <2>. QED BY <2>1, Zenon DEF SlotsDistinct, Intact
<1>11. VisitClosed
  <2>1. DOMAIN Turn = 1..Len(Turn) /\ \A n : n \in ToSet(Turn) => \E k \in 1..Len(Turn) : Turn[k] = n
    BY <1>1, <1>2 DEF Turn, ToSet
  <2>. QED BY <1>5, <2>1 DEF TimedInv, Visited, VisitClosed
<1>12. FilledOnce
  <2>1. ASSUME NEW d \in Slots, \A n : ~ Listed(wheel, SlotAt(wheel, d), n) PROVE Ahead(wheel, d) = <<>>
    <3>1. Ahead(wheel, d) \in Seq(Nodes) /\ DOMAIN Ahead(wheel, d) = 1..Len(Ahead(wheel, d))
      BY <1>1, <1>3, ListsOf
    <3>2. \A k \in 1..Len(Ahead(wheel, d)) : FALSE
      BY <1>3, <2>1 DEF Listed
    <3>. QED BY <3>1, <3>2
  <2>2. /\ \A d \in 0..(WheelSize - 1) : d > Timeout => Ahead(wheel, d) = <<>>
        /\ pc = "wait" => Ahead(wheel, Timeout) = <<>>
    BY <1>3, <2>1 DEF TimedInv, Filled
  <2>3. ASSUME Intact, pc \in {"events", "unlist"}, NEW n \in ToSet(Ahead(wheel, Timeout))
        PROVE  IsConn(wheel.fdOf[n]) /\ wheel.fdOf[n] \notin batch
    BY <1>3, <1>4, <2>3 DEF TimedInv, Filled
  <2>. QED BY <2>2, <2>3, Zenon DEF FilledOnce, Intact
<1>13. PolledOpen
  BY Zenon DEF TimedInv, Polled, PolledOpen, Intact
<1>14. NodesBounded
  BY DEF TimedInv, Room, NodesBounded, NodesInUse
<1>. QED BY <1>6, <1>7, <1>8, <1>9, <1>10, <1>11, <1>12, <1>13, <1>14 DEF WheelInv

\* A connection in time has not been silent for too long.
LEMMA TimedIsClosed == ASSUME OwnInv, TimedInv PROVE SilentIsClosed
<1>. SUFFICES ASSUME NEW f \in Fds, IsConn(f) PROVE idle[fdTab[f][2]] <= Timeout
  BY DEF SilentIsClosed
<1>1. PICK d \in 0..Timeout : idle[fdTab[f][2]] + d <= Timeout
  BY DEF TimedInv, Timed, InTime
<1>2. PICK y \in 0..WheelSize : y = idle[fdTab[f][2]]
  BY ConnNumber DEF TimedInv, Types, OwnInv
<1>3. y + d <= Timeout
  BY <1>1, <1>2
<1>. QED BY <1>2, <1>3, WheelConstants

\* For any number of descriptors, slots and connections and any table size: the counts of
\* the hash table are exact, every open connection has an entry within reach of the ticks
\* (timeWheel.c addUser, removeUser, updateUserTimeout, tick), and no slot holds a descriptor
\* twice until tick closes one in a worker's hands.
THEOREM WheelIsRight == Spec => []WheelInv
<1>1. Init => OwnInv /\ TimedInv
  BY InitInv, InitTimed
<1>2. OwnInv /\ TimedInv /\ [Next]_vars => OwnInv' /\ TimedInv'
  BY NextInv, NextTimed
<1>3. OwnInv /\ TimedInv => WheelInv
  BY TimedIsWheelInv
<1>. QED BY <1>1, <1>2, <1>3, PTL DEF Spec

\* No connection outlives the tick that follows Timeout silent ones (main.c, timeWheel.c
\* tick), whatever stale entries hang-ups and reused descriptors have left.
THEOREM SilentAreClosed == Spec => []SilentIsClosed
<1>1. Init => OwnInv /\ TimedInv
  BY InitInv, InitTimed
<1>2. OwnInv /\ TimedInv /\ [Next]_vars => OwnInv' /\ TimedInv'
  BY NextInv, NextTimed
<1>3. OwnInv /\ TimedInv => SilentIsClosed
  BY TimedIsClosed
<1>. QED BY <1>1, <1>2, <1>3, PTL DEF Spec

-------------------------------------------------------------------------------
(* The first node of a bucket *)

\* The numbers in the workers' hands are counted by peak; and while they have been few, a
\* number with a hash node is less than hashSize above the first, low.
WindowInv(low) ==
  /\ Cardinality(Busy) <= peak
  /\ InitialHashSize <= wheel.hashSize
  /\ started = 0 => transfers = {}
  /\ FewHeld => \A f \in Fds : Named(wheel, f) => f < low + wheel.hashSize

\* Numbers of a window of s that have the same remainder are the same.
LEMMA SameRemainder ==
  ASSUME NEW s \in Nat \ {0}, NEW low \in Nat, NEW x \in Nat, NEW y \in Nat,
         low <= x, x < low + s, low <= y, y < low + s, x % s = y % s
  PROVE  x = y
<1>1. PICK p \in Nat, r \in 0..(s - 1) : x = s * p + r /\ r = x % s
  BY Division
<1>2. PICK q \in Nat, t \in 0..(s - 1) : y = s * q + t /\ t = y % s
  BY Division
<1>3. r = t
  BY <1>1, <1>2
<1>4. CASE p >= q + 1
  <2>1. s * p >= s * (q + 1) /\ s * (q + 1) = s * q + s
    BY <1>4
  <2>. QED BY <1>1, <1>2, <1>3, <2>1
<1>5. CASE q >= p + 1
  <2>1. s * q >= s * (p + 1) /\ s * (p + 1) = s * p + s
    BY <1>5
  <2>. QED BY <1>1, <1>2, <1>3, <2>1
<1>6. CASE p = q
  BY <1>1, <1>2, <1>3, <1>6
<1>. QED BY <1>4, <1>5, <1>6

\* A descriptor with a hash node is the peerfd of one of the table's entries.
LEMMA NamedPlace ==
  ASSUME NEW w, IsWheel(w), NEW f \in Fds, Named(w, f)
  PROVE  \E p \in HashNodes(w) : w.hashTable[p[1]][p[2]].peerfd = f
<1>. DEFINE b == hashFunction(f, w.hashSize)
<1>1. b \in 0..(w.hashSize - 1)
  BY HashOf
<1>2. w.hashTable[b] \in Seq(Entry)
  BY <1>1, Fields
<1>3. PICK e \in ToSet(w.hashTable[b]) : e.peerfd = f
  BY DEF Named, BucketHead
<1>. HIDE DEF b
<1>4. PICK i \in 1..Len(w.hashTable[b]) : w.hashTable[b][i] = e
  BY <1>2, <1>3 DEF ToSet
<1>5. PICK p : p = <<b, i>>
  OBVIOUS
<1>6. PlaceIn(w.hashTable, w.hashSize, p)
  BY <1>1, <1>4, <1>5 DEF PlaceIn
<1>7. p \in HashNodes(w)
  BY <1>6, HashNodesOf
<1>8. p[1] = b /\ p[2] = i
  BY <1>5
<1>. QED BY <1>3, <1>4, <1>7, <1>8

\* And an entry's peerfd has a hash node.
LEMMA PlaceNamed ==
  ASSUME NEW w, GoodWheel(w), NEW b \in 0..(w.hashSize - 1), NEW i \in 1..Len(w.hashTable[b])
  PROVE  LET f == w.hashTable[b][i].peerfd
         IN  f \in Fds /\ Named(w, f) /\ hashFunction(f, w.hashSize) = b
<1>1. w.hashTable[b] \in Seq(Entry) /\ b \in DOMAIN w.hashTable
  BY Fields DEF GoodWheel
<1>2. PICK e : e = w.hashTable[b][i]
  OBVIOUS
<1>3. e \in Entry /\ e \in ToSet(w.hashTable[b])
  BY <1>1, <1>2 DEF ToSet
<1>4. hashFunction(e.peerfd, w.hashSize) = b
  BY <1>1, <1>3 DEF GoodWheel, WellFormed
<1>5. e.peerfd \in Fds /\ Named(w, e.peerfd)
  BY <1>3, <1>4 DEF Entry, Named, BucketHead
<1>. QED BY <1>2, <1>4, <1>5

\* Descriptors with hash nodes are not more than the count.
LEMMA CountBounds ==
  ASSUME NEW w, GoodWheel(w), NEW S \in SUBSET Fds, \A g \in S : Named(w, g)
  PROVE  IsFiniteSet(S) /\ Cardinality(S) <= w.elementCount
<1>. DEFINE T == HashNodes(w)
            At1(p) == w.hashTable[p[1]][p[2]].peerfd
            F == [g \in S |-> CHOOSE p \in T : At1(p) = g]
<1>1. \A g \in S : \E p \in T : At1(p) = g
  BY NamedPlace DEF GoodWheel
<1>2. IsFiniteSet(T) /\ w.elementCount = Cardinality(T)
  BY DEF GoodWheel, CountsNodes
<1>. HIDE DEF T, At1
<1>4. \A g \in S : F[g] \in T /\ At1(F[g]) = g
  BY <1>1
<1>5. F \in [S -> T]
  BY <1>1
<1>6. F \in Injection(S, T)
  <2>1. \A g, h \in S : F[g] = F[h] => g = h
    <3>. HIDE DEF F
    <3>. QED BY <1>4
  <2>. HIDE DEF F
  <2>. QED BY <1>5, <2>1, Fun_IsInj
<1>. QED BY <1>2, <1>6, FS_Injection

\* As many numbers as there are from a to f are in a set that has them all.
LEMMA RangeBounds ==
  ASSUME NEW a \in Nat, NEW f \in Nat, a <= f, NEW B, IsFiniteSet(B), a..(f - 1) \subseteq B
  PROVE  f - a <= Cardinality(B)
<1>1. Cardinality(a..(f - 1)) = f - a
  <2>1. Cardinality(a..(f - 1)) = IF a > f - 1 THEN 0 ELSE (f - 1) - a + 1
    BY FS_Interval
  <2>. QED BY <2>1
<1>2. Cardinality(a..(f - 1)) <= Cardinality(B)
  BY FS_Subset
<1>. QED BY <1>1, <1>2

\* A range whose numbers have hash nodes or are in the workers' hands.
LEMMA HeldBounds ==
  ASSUME NEW w, GoodWheel(w), NEW low \in Nat, NEW f \in Nat, low <= f,
         NEW B, IsFiniteSet(B), NEW p \in Nat, Cardinality(B) <= p,
         \A g \in low..(f - 1) : g \in B \/ (g \in Fds /\ Named(w, g))
  PROVE  f - low <= w.elementCount + p
<1>. DEFINE A == { g \in Fds : g \in low..(f - 1) /\ Named(w, g) }
<1>1. IsFiniteSet(A) /\ Cardinality(A) <= w.elementCount
  BY CountBounds
<1>2. low..(f - 1) \subseteq A \cup B
  OBVIOUS
<1>. HIDE DEF A
<1>3. /\ IsFiniteSet(A \cup B) /\ IsFiniteSet(A \cap B)
      /\ Cardinality(A \cup B) = Cardinality(A) + Cardinality(B) - Cardinality(A \cap B)
  <2>1. A \cap B \subseteq A
    OBVIOUS
  <2>. QED BY <1>1, <2>1, FS_Union, FS_Subset
<1>4. f - low <= Cardinality(A \cup B)
  BY <1>2, <1>3, RangeBounds
<1>5. PICK x \in Nat, y \in Nat, z \in Nat, u \in Nat :
        /\ x = Cardinality(A) /\ y = Cardinality(B) /\ z = Cardinality(A \cap B)
        /\ u = Cardinality(A \cup B)
  BY <1>1, <1>3, FS_CardinalityType
<1>6. PICK e \in Nat : e = w.elementCount
  BY Fields DEF GoodWheel
<1>7. x <= e /\ y <= p /\ f - low <= u /\ u = x + y - z
  BY <1>1, <1>3, <1>4, <1>5, <1>6
<1>. QED BY <1>6, <1>7

\* The descriptor the kernel gives out is the lowest.
LEMMA LowestIsLeast ==
  ASSUME FreeFds # {}, NEW g \in FreeFds PROVE LowestFd <= g
<1>1. FreeFds \subseteq Nat
  BY WheelConstants DEF FreeFds
<1>2. PICK f \in FreeFds : \A h \in FreeFds : ~ (<<h, f>> \in OpToRel(<, Nat))
  BY <1>1, NatLessThanWellFounded, WFMin
<1>3. ASSUME NEW h \in FreeFds PROVE f <= h
  <2>1. f \in Nat /\ h \in Nat
    BY <1>1
  <2>2. ~ (h < f)
    BY <1>2, <2>1 DEF OpToRel
  <2>. QED BY <2>1, <2>2
<1>. QED BY <1>3 DEF LowestFd

\* Few now, few before.
LEMMA FewBefore ==
  ASSUME peak \in Nat, peak' \in Nat, peak <= peak', FewHeld'
  PROVE  FewHeld
<1>1. PICK x \in Nat, y \in Nat, i \in Nat : x = peak /\ y = peak' /\ i = InitialHashSize /\ x <= y
  BY TimeWheelAssumption
<1>2. 4 * y <= i
  BY <1>1 DEF FewHeld
<1>3. \A a, b, c \in Nat : a <= b /\ 4 * b <= c => 4 * a <= c
  OBVIOUS
<1>4. 4 * x <= i
  BY <1>1, <1>2, <1>3
<1>. QED BY <1>1, <1>4 DEF FewHeld

\* A step that names no new number in the hash table.
LEMMA WindowStays ==
  ASSUME NEW low \in Nat, TimedInv, GoodWheel(wheel'), WindowInv(low), NoneNamed(wheel, wheel'),
         peak \in Nat, peak' \in Nat, peak <= peak', Cardinality(Busy)' <= peak',
         started' = 0 => transfers' = {}
  PROVE  WindowInv(low)'
<1>3. PICK m \in Nat, n \in Nat : m = wheel.hashSize /\ n = wheel'.hashSize /\ m <= n
  BY Fields DEF TimedInv, Types, GoodWheel, NoneNamed
<1>4. InitialHashSize <= wheel'.hashSize
  <2>1. InitialHashSize \in Nat /\ InitialHashSize <= m
    BY <1>3, TimeWheelAssumption DEF WindowInv
  <2>2. InitialHashSize <= n
    BY <1>3, <2>1
  <2>. QED BY <1>3, <2>2
<1>5. ASSUME FewHeld', NEW f \in Fds, Named(wheel', f) PROVE f < low + wheel'.hashSize
  <2>1. FewHeld
    BY <1>5, FewBefore
  <2>2. f < low + m /\ f \in Nat
    BY <1>3, <1>5, <2>1, WheelConstants DEF NoneNamed, WindowInv
  <2>3. f < low + n
    BY <1>3, <2>2
  <2>. QED BY <1>3, <2>3
<1>. QED BY <1>4, <1>5 DEF WindowInv

\* A number that is no connection's stays in a worker's hands, or is closed.
LEMMA BusyShrinks ==
  ASSUME Cardinality(Busy) <= peak, peak \in Nat, peak' = peak,
         \A f \in Fds : \/ fdTab'[f] = NULL \/ fdTab'[f] = fdTab[f] \/ IsConn(f)'
  PROVE  Cardinality(Busy)' <= peak'
<1>1. PICK B : B = Busy'
  OBVIOUS
<1>2. B \subseteq Busy
  BY <1>1 DEF Busy, IsConn, Open
<1>3. IsFiniteSet(Busy)
  BY BusyCounted
<1>4. PICK x \in Nat, y \in Nat : x = Cardinality(B) /\ y = Cardinality(Busy) /\ x <= y
  BY <1>2, <1>3, FS_Subset, FS_CardinalityType
<1>5. x <= peak'
  BY <1>4
<1>. QED BY <1>1, <1>4, <1>5

\* A new connection gets the lowest number: those below it are connections, each of which
\* counts in the table, or in the workers' hands, which are few, so that either the table has
\* room for its number or it has doubled.
LEMMA AcceptWindow ==
  ASSUME NEW low \in Nat, NEW high \in Nat, Fds = low..high, OwnInv, TimedInv, WindowInv(low), Accept
  PROVE  WindowInv(low)'
<1>0. PICK f, c : f = LowestFd /\ c = accepted + 1
  OBVIOUS
<1>1. /\ accepted < MaxConns /\ FreeFds # {} /\ fdTab' = [fdTab EXCEPT ![f] = Conn(c)]
      /\ wheel' = addUser(wheel, f, Timeout) /\ UNCHANGED <<transfers, started, peak>>
  BY <1>0 DEF Accept, workers
<1>2. DescriptorsOK /\ peak \in Nat /\ InitialHashSize \in Nat
  BY TimeWheelAssumption DEF OwnInv, DescriptorsOK
<1>3. f \in Fds /\ fdTab[f] = NULL /\ \A g \in FreeFds : f <= g
  BY <1>0, <1>1, LowestIsFree, LowestIsLeast
<1>4. c \in ConnIds
  BY <1>0, <1>1, <1>2, Constants DEF DescriptorsOK, ConnIds
<1>5. Cardinality(Busy)' <= peak'
  <2>1. /\ fdTab'[f] = <<"conn", c>> /\ \A g \in Fds : g # f => fdTab'[g] = fdTab[g]
    BY <1>1, <1>2, <1>3 DEF DescriptorsOK, Conn
  <2>2. <<"conn", c>>[1] = "conn" /\ <<"conn", c>> # NULL
    BY <1>4, Constants
  <2>3. \A g \in Fds : \/ fdTab'[g] = NULL \/ fdTab'[g] = fdTab[g] \/ IsConn(g)'
    BY <2>1, <2>2 DEF IsConn, Open
  <2>. QED BY <1>1, <1>2, <2>3, BusyShrinks DEF WindowInv
<1>6. GoodWheel(wheel) /\ Roomy(wheel)
  BY <1>1, <1>2, IsRoomy DEF TimedInv, Types
<1>7. OnlyNamed(wheel, wheel', f)
  BY <1>1, <1>3, <1>6, AddUserRenews
<1>8. f \in Nat /\ low <= f /\ \A g \in low..(f - 1) : g \in Busy \/ (g \in Fds /\ Named(wheel, g))
  <2>1. f \in low..high
    BY <1>3
  <2>2. ASSUME NEW g \in low..(f - 1) PROVE g \in Busy \/ (g \in Fds /\ Named(wheel, g))
    <3>1. g \in Fds /\ ~ (f <= g)
      BY <2>1
    <3>2. g \notin FreeFds
      BY <1>3, <3>1
    <3>3. IsConn(g) \/ g \in Busy
      BY <3>1, <3>2 DEF FreeFds, Busy
    <3>. QED BY <3>1, <3>3 DEF TimedInv, Timed
  <2>. QED BY <2>1, <2>2
<1>9. PICK m \in Nat \ {0}, e \in Nat : m = wheel.hashSize /\ e = wheel.elementCount
  BY <1>6, Fields DEF GoodWheel
<1>10. PICK n \in Nat : n = wheel'.hashSize /\ n = IF 4 * e >= 3 * m THEN 2 * m ELSE m
  BY <1>7, <1>9 DEF OnlyNamed
<1>11. InitialHashSize <= wheel'.hashSize
  <2>1. InitialHashSize <= m
    BY <1>9 DEF WindowInv
  <2>2. InitialHashSize <= n
    BY <1>2, <1>9, <1>10, <2>1
  <2>. QED BY <1>10, <2>2
<1>12. ASSUME FewHeld', NEW g \in Fds, Named(wheel', g) PROVE g < low + wheel'.hashSize
  <2>1. PICK p \in Nat, i \in Nat : p = peak /\ i = InitialHashSize /\ 4 * p <= i /\ i <= m
    BY <1>1, <1>2, <1>9, <1>12 DEF FewHeld, WindowInv
  <2>2. \A h \in Fds : Named(wheel, h) => h < low + m
    BY <1>9, <2>1 DEF WindowInv, FewHeld
  <2>3. IsFiniteSet(Busy) /\ Cardinality(Busy) <= p /\ Cardinality(Busy) \in Nat
    BY <2>1, BusyCounted DEF WindowInv
  <2>4. f - low <= e + p
    BY <1>6, <1>8, <1>9, <2>3, HeldBounds
  <2>5. f - low <= m + p
    <3>1. CASE f <= low + m
      BY <1>8, <1>9, <3>1
    <3>2. CASE ~ (f <= low + m)
      <4>1. (low + m)..(f - 1) \subseteq Busy
        <5>1. ASSUME NEW h \in (low + m)..(f - 1) PROVE h \in Busy
          <6>1. h \in low..(f - 1) /\ ~ (h < low + m)
            BY <1>8, <1>9
          <6>. QED BY <1>8, <2>2, <6>1
        <5>. QED BY <5>1
      <4>2. f - (low + m) <= Cardinality(Busy)
        <5>1. low + m \in Nat /\ low + m <= f
          BY <1>8, <1>9, <3>2
        <5>. QED BY <1>8, <2>3, <4>1, <5>1, RangeBounds
      <4>. QED BY <1>8, <1>9, <2>3, <4>2
    <3>. QED BY <3>1, <3>2
  <2>6. f < low + n /\ m <= n
    <3>1. f \in Nat /\ low \in Nat /\ m \in Nat /\ m # 0 /\ e \in Nat /\ p \in Nat /\ 4 * p <= m
      BY <1>8, <1>9, <2>1
    <3>2. CASE 4 * e >= 3 * m
      <4>1. n = 2 * m
        BY <1>10, <3>2
      <4>. QED BY <2>5, <3>1, <4>1
    <3>3. CASE ~ (4 * e >= 3 * m)
      <4>1. n = m /\ 4 * e < 3 * m
        BY <1>10, <3>1, <3>3
      <4>. QED BY <2>4, <3>1, <4>1
    <3>. QED BY <3>2, <3>3
  <2>7. CASE g = f
    BY <1>10, <2>6, <2>7
  <2>8. CASE g # f
    <3>1. g < low + m /\ g \in Nat
      BY <1>7, <1>12, <2>2, <2>8, WheelConstants DEF OnlyNamed
    <3>2. g < low + n
      BY <2>6, <3>1
    <3>. QED BY <1>10, <3>2
  <2>. QED BY <2>7, <2>8
<1>. QED BY <1>1, <1>5, <1>11, <1>12 DEF WindowInv

\* Every step, in any interleaving.
LEMMA NextWindow ==
  ASSUME NEW low \in Nat, NEW high \in Nat, Fds = low..high, OwnInv, TimedInv, TimedInv',
         WindowInv(low), [Next]_vars
  PROVE  WindowInv(low)'
<1>1. GoodWheel(wheel) /\ GoodWheel(wheel') /\ DescriptorsOK /\ peak \in Nat
  BY DEF OwnInv, TimedInv, Types, DescriptorsOK
<1>2. NoneNamed(wheel, wheel)
  BY <1>1, Fields DEF NoneNamed, GoodWheel
<1>. DEFINE Frees == \A f \in Fds : \/ fdTab'[f] = NULL \/ fdTab'[f] = fdTab[f] \/ IsConn(f)'
            Idles == UNCHANGED <<started, transfers, fdTab, wheel, peak>>
            Empties == /\ peak' = peak /\ (started' = 0 => transfers' = {})
                       /\ NoneNamed(wheel, wheel') /\ Frees
<1>3. UNCHANGED fdTab => Frees
  OBVIOUS
<1>4. Empties => WindowInv(low)'
  <2>. SUFFICES ASSUME Empties PROVE WindowInv(low)'
    OBVIOUS
  <2>1. Cardinality(Busy)' <= peak'
    BY <1>1, BusyShrinks DEF WindowInv
  <2>2. peak <= peak' /\ peak' \in Nat
    BY <1>1
  <2>. HIDE DEF Frees
  <2>. QED BY <1>1, <2>1, <2>2, WindowStays
<1>5. ASSUME NEW f, fdTab' = TabWithout(f) PROVE Frees
  BY <1>1, <1>5 DEF TabWithout, DescriptorsOK
<1>. HIDE DEF Frees
<1>6. started = 0 => transfers = {}
  BY DEF WindowInv
<1>7. Idles => WindowInv(low)'
  BY <1>2, <1>3, <1>4, <1>6
<1>8. TickDone /\ UNCHANGED <<started, transfers, fdTab, peak>> => WindowInv(low)'
  BY <1>1, <1>3, <1>4, <1>6, TickAdvanceStep DEF TickDone
<1>9. CASE EpollWait \/ AcceptFailed \/ AcceptNothing \/ Unlist \/ TickVisitFreed \/ OpenFails
  <2>1. Idles
    BY <1>9 DEF EpollWait, AcceptFailed, AcceptNothing, Unlist, TickVisitFreed, OpenFails, clients, workers
  <2>. QED BY <1>7, <2>1
<1>10. CASE Accept
  BY <1>10, AcceptWindow
<1>11. ASSUME NEW f \in Fds, HandleMessage(f) PROVE WindowInv(low)'
  <2>1. ASSUME Received(f), wheel' = updateUserTimeout(wheel, f, Timeout)
        PROVE  NoneNamed(wheel, wheel')
    <3>1. Roomy(wheel) /\ Named(wheel, f)
      BY <1>1, <2>1, IsRoomy DEF TimedInv, Timed, Received
    <3>. QED BY <1>1, <2>1, <3>1, UpdateRenews
  <2>2. CASE Command(f)
    <3>1. /\ Received(f) /\ wheel' = updateUserTimeout(wheel, f, Timeout)
          /\ UNCHANGED <<started, transfers, fdTab, peak>>
      BY <2>2 DEF Command, workers
    <3>. QED BY <1>3, <1>4, <1>6, <2>1, <3>1
  <2>3. CASE ShortCommand(f)
    <3>1. Idles
      BY <2>3 DEF ShortCommand, clients, workers
    <3>. QED BY <1>7, <3>1
  <2>4. CASE Transfer(f) \/ StrayTransfer(f)
    <3>1. /\ started' = started + 1 /\ started \in Nat /\ UNCHANGED <<fdTab, peak>>
          /\ wheel' = wheel \/ (Received(f) /\ wheel' = updateUserTimeout(wheel, f, Timeout))
      BY <1>1, <2>4, Constants DEF Transfer, StrayTransfer, DescriptorsOK, workers
    <3>2. started' # 0
      BY <3>1
    <3>. QED BY <1>2, <1>3, <1>4, <2>1, <3>1, <3>2
  <2>5. CASE Hangup(f)
    <3>1. fdTab' = TabWithout(f) /\ UNCHANGED <<started, transfers, wheel, peak>>
      BY <2>5 DEF Hangup, workers
    <3>. QED BY <1>2, <1>4, <1>5, <1>6, <3>1
  <2>. QED BY <1>11, <2>2, <2>3, <2>4, <2>5 DEF HandleMessage
<1>12. CASE TickStart
  <2>1. UNCHANGED <<started, transfers, fdTab, peak>> /\ (TickDone \/ wheel' = wheel)
    BY <1>12 DEF TickStart, clients, workers
  <2>. QED BY <1>7, <1>8, <2>1
<1>13. CASE TickVisit
  <2>1. PICK f : f = wheel.fdOf[current]
    OBVIOUS
  <2>2. /\ f # NULL /\ wheel' = removeUser(wheel, f) /\ fdTab' = TabWithout(f)
        /\ UNCHANGED <<started, transfers, peak>> /\ pc = "visit"
    BY <1>13, <2>1 DEF TickVisit, clients, workers
  <2>3. f \in Fds
    <3>1. wheel.fdOf \in [Nodes -> Fds \cup {NULL}] /\ current \in Nodes
      BY <1>1, <2>2, Fields DEF GoodWheel, TimedInv, Visited
    <3>. QED BY <2>1, <2>2, <3>1
  <2>4. NoneNamed(wheel, wheel')
    BY <1>1, <2>2, <2>3, RemoveUserStep
  <2>. QED BY <1>4, <1>5, <1>6, <2>2, <2>4
<1>14. CASE TickEnd
  BY <1>8, <1>14 DEF TickEnd, clients, workers
<1>15. ASSUME PeakNow, UNCHANGED <<wheel, started>>, started' = 0 => transfers' = {}
       PROVE  WindowInv(low)'
  <2>1. peak' \in Nat /\ peak <= peak' /\ Cardinality(Busy') <= peak'
    BY <1>1, <1>15, PeakGrows
  <2>2. NoneNamed(wheel, wheel')
    BY <1>2, <1>15
  <2>. QED BY <1>1, <1>15, <2>1, <2>2, WindowStays
<1>16. ASSUME NEW t \in transfers, TransferStep(t) PROVE WindowInv(low)'
  <2>1. started' = started /\ wheel' = wheel
    BY <1>16 DEF TransferStep, OpenFile, GiveUp, Repoll, CloseFile, clients, workers
  <2>2. started # 0
    BY DEF WindowInv
  <2>3. CASE OpenFile(t)
    BY <1>15, <2>1, <2>2, <2>3 DEF OpenFile
  <2>4. CASE GiveUp(t) \/ Repoll(t)
    <3>1. UNCHANGED <<fdTab, peak>>
      BY <2>4 DEF GiveUp, Repoll, workers
    <3>. QED BY <1>2, <1>3, <1>4, <2>1, <2>2, <3>1
  <2>5. CASE CloseFile(t)
    <3>1. fdTab' = TabWithout(t.file) /\ peak' = peak
      BY <2>5 DEF CloseFile, workers
    <3>. QED BY <1>2, <1>4, <1>5, <2>1, <2>2, <3>1
  <2>. QED BY <1>16, <2>3, <2>4, <2>5 DEF TransferStep
<1>17. CASE OpenOwn
  <2>1. PeakNow /\ UNCHANGED <<wheel, started, transfers>>
    BY <1>17 DEF OpenOwn, clients
  <2>. QED BY <1>6, <1>15, <2>1
<1>18. ASSUME NEW o \in own, CloseOwn(o) PROVE WindowInv(low)'
  <2>1. fdTab' = TabWithout(o.fd) /\ UNCHANGED <<peak, wheel, started, transfers>>
    BY <1>18 DEF CloseOwn, clients
  <2>. QED BY <1>2, <1>4, <1>5, <1>6, <2>1
<1>19. CASE UNCHANGED vars
  BY <1>7, <1>19 DEF vars, clients, workers
<1>. QED BY <1>9, <1>10, <1>11, <1>12, <1>13, <1>14, <1>16, <1>17, <1>18, <1>19
         DEF Next, MainStep, Tick, WorkerStep, Spin, Crashed

\* The empty table.
LEMMA InitWindow == ASSUME NEW low \in Nat, Init PROVE WindowInv(low)
<1>1. /\ transfers = {} /\ fdTab = [f \in Fds |-> NULL] /\ wheel = createTimeWheel /\ peak = 0
  BY Zenon DEF Init
<1>2. GoodWheel(wheel)
  BY InitTimed DEF TimedInv, Types
<1>3. ASSUME NEW f \in Fds PROVE ~ Named(wheel, f)
  <2>1. hashFunction(f, wheel.hashSize) \in 0..(wheel.hashSize - 1)
    BY <1>2, HashOf DEF GoodWheel
  <2>2. /\ wheel.hashTable = [b \in 0..(InitialHashSize - 1) |-> <<>>]
        /\ wheel.hashSize = InitialHashSize
    BY <1>1 DEF createTimeWheel
  <2>3. BucketHead(wheel, f) = <<>>
    BY <2>1, <2>2 DEF BucketHead
  <2>. QED BY <2>3 DEF Named, ToSet
<1>4. Cardinality(Busy) <= peak
  <2>1. Busy = {}
    BY <1>1 DEF Busy, Open
  <2>. QED BY <1>1, <2>1, FS_EmptySet
<1>5. InitialHashSize <= wheel.hashSize
  BY <1>1, TimeWheelAssumption DEF createTimeWheel
<1>. QED BY <1>1, <1>3, <1>4, <1>5 DEF WindowInv

\* Two numbers in a bucket have the same remainder, and the window has one of each.
LEMMA WindowIsOwn ==
  ASSUME NEW low \in Nat, NEW high \in Nat, Fds = low..high, TimedInv, WindowInv(low)
  PROVE  FirstNodeIsOwn
<1>. SUFFICES ASSUME FewHeld, NEW b \in DOMAIN wheel.hashTable,
                     NEW i \in DOMAIN wheel.hashTable[b], NEW j \in DOMAIN wheel.hashTable[b]
              PROVE  wheel.hashTable[b][i].peerfd = wheel.hashTable[b][j].peerfd
  BY DEF FirstNodeIsOwn, OwnBuckets
<1>1. GoodWheel(wheel)
  BY DEF TimedInv, Types
<1>2. PICK s \in Nat \ {0} : s = wheel.hashSize
  BY <1>1, Fields DEF GoodWheel
<1>3. b \in 0..(s - 1) /\ i \in 1..Len(wheel.hashTable[b]) /\ j \in 1..Len(wheel.hashTable[b])
  BY <1>1, <1>2, Fields DEF GoodWheel
<1>4. PICK f, g : f = wheel.hashTable[b][i].peerfd /\ g = wheel.hashTable[b][j].peerfd
  OBVIOUS
<1>5. /\ f \in Fds /\ Named(wheel, f) /\ f % s = b
      /\ g \in Fds /\ Named(wheel, g) /\ g % s = b
  BY <1>1, <1>2, <1>3, <1>4, PlaceNamed DEF hashFunction
<1>6. f < low + s /\ g < low + s
  BY <1>2, <1>5 DEF WindowInv
<1>7. f \in Nat /\ g \in Nat /\ low <= f /\ low <= g
  BY <1>5
<1>. QED BY <1>4, <1>5, <1>6, <1>7, SameRemainder

\* When the descriptors that are free at the start have consecutive numbers, and the workers
\* have never held more of them at once than a quarter of the table's first size (32), no
\* bucket of the hash table mixes two of them (timeWheel.c resizeHashTable,
\* insertToHashTable): the first node, which removeUser and updateUserTimeout take without
\* comparing its peerfd, is the user's own.
THEOREM BucketsAreOwn ==
  ASSUME NEW low \in Nat, NEW high \in Nat, Fds = low..high
  PROVE  Spec => []FirstNodeIsOwn
<1>1. Init => OwnInv /\ TimedInv /\ WindowInv(low)
  BY InitInv, InitTimed, InitWindow
<1>2. OwnInv /\ TimedInv /\ WindowInv(low) /\ [Next]_vars => OwnInv' /\ TimedInv' /\ WindowInv(low)'
  BY NextInv, NextTimed, NextWindow
<1>3. OwnInv /\ TimedInv /\ WindowInv(low) => FirstNodeIsOwn
  BY WindowIsOwn
<1>. QED BY <1>1, <1>2, <1>3, PTL DEF Spec

-------------------------------------------------------------------------------
(* The countdown: one node per connection *)

\* The descriptors with a hash node.
NamedFds(w) == { f \in Fds : Named(w, f) }

\* Each has one, for the slot that its list node is in.
ExactTable(w) ==
  /\ \A g \in Fds : \A e : InTable(w, g, e) =>
       \E n \in NodesInUse(w) : w.fdOf[n] = g /\ Listed(w, e.index, n)
  /\ w.elementCount = Cardinality(NamedFds(w))

\* No descriptor has two list nodes.
OneNode(w) == \A n, m \in NodesInUse(w) : w.fdOf[n] = w.fdOf[m] => n = m

\* The slots that hash nodes name.
LEMMA EntrySlot ==
  ASSUME NEW w, GoodWheel(w), NEW g \in Fds, NEW e, InTable(w, g, e)
  PROVE  e.index \in Slots
<1>1. hashFunction(g, w.hashSize) \in 0..(w.hashSize - 1)
  BY HashOf DEF GoodWheel
<1>2. BucketHead(w, g) \in Seq(Entry)
  BY <1>1, Fields DEF GoodWheel, BucketHead
<1>3. e \in Entry
  BY <1>2 DEF InTable, ToSet
<1>. QED BY <1>3 DEF Entry

\* There are no more of them than hash nodes.
LEMMA NamedFdsCount ==
  ASSUME NEW w, GoodWheel(w)
  PROVE  /\ IsFiniteSet(NamedFds(w)) /\ Cardinality(NamedFds(w)) \in Nat
         /\ Cardinality(NamedFds(w)) <= w.elementCount
<1>. DEFINE S == NamedFds(w)
            T == HashNodes(w)
            FdAt(p) == w.hashTable[p[1]][p[2]].peerfd
            F == [g \in S |-> CHOOSE p \in T : FdAt(p) = g]
<1>1. \A g \in S : \E p \in T : FdAt(p) = g
  BY NamedPlace DEF GoodWheel, NamedFds
<1>2. IsFiniteSet(T) /\ w.elementCount = Cardinality(T)
  BY DEF GoodWheel, CountsNodes
<1>. HIDE DEF S, T, FdAt
<1>3. \A g \in S : F[g] \in T /\ FdAt(F[g]) = g
  BY <1>1
<1>4. F \in [S -> T]
  BY <1>1
<1>5. F \in Injection(S, T)
  <2>1. \A g, h \in S : F[g] = F[h] => g = h
    <3>. HIDE DEF F
    <3>. QED BY <1>3
  <2>. HIDE DEF F
  <2>. QED BY <1>4, <2>1, Fun_IsInj
<1>6. IsFiniteSet(S) /\ Cardinality(S) <= Cardinality(T)
  BY <1>2, <1>5, FS_Injection
<1>7. Cardinality(S) \in Nat
  BY <1>6, FS_CardinalityType
<1>. QED BY <1>2, <1>6, <1>7 DEF S

\* While buckets do not mix descriptors, removeUser finds the node of f in the table and the
\* one in the lists, and takes these two.
LEMMA RemoveExact ==
  ASSUME NEW w, GoodWheel(w), OwnBuckets(w), ExactTable(w), OneNode(w),
         NEW f \in Fds, Named(w, f), NEW v, v = removeUser(w, f)
  PROVE  /\ GoodWheel(v) /\ ExactTable(v) /\ ~ Named(v, f) /\ v.currentIndex = w.currentIndex
         /\ \A m \in NodesInUse(v) :
              /\ m \in NodesInUse(w) /\ w.fdOf[m] # f /\ v.fdOf[m] = w.fdOf[m]
              /\ \A i \in Slots : Listed(w, i, m) => Listed(v, i, m)
<1>. DEFINE b == hashFunction(f, w.hashSize)
            s == w.hashTable[b]
            index == s[1].index
            u == removeUserFromList(w, f, index)
<1>1. b \in 0..(w.hashSize - 1) /\ BucketHead(w, f) = s
  BY HashOf DEF GoodWheel, BucketHead
<1>2. s \in Seq(Entry) /\ Len(s) \in Nat /\ DOMAIN s = 1..Len(s) /\ b \in DOMAIN w.hashTable
  BY <1>1, Fields DEF GoodWheel
<1>. HIDE DEF b
<1>3. PICK k \in 1..Len(s) : s[k].peerfd = f
  BY <1>1, <1>2 DEF Named, ToSet
<1>4. 1 \in 1..Len(s) /\ s # <<>>
  BY <1>2, <1>3
<1>5. s[1].peerfd = f /\ s[1] \in Entry /\ index \in Slots
  <2>1. s[1].peerfd = s[k].peerfd
    BY <1>2, <1>3, <1>4 DEF OwnBuckets
  <2>2. s[1] \in Entry
    BY <1>2, <1>4
  <2>. HIDE DEF s
  <2>. QED BY <1>3, <2>1, <2>2 DEF Entry
<1>6. InTable(w, f, s[1])
  BY <1>1, <1>2, <1>4, <1>5 DEF InTable, ToSet
<1>7. PICK n \in NodesInUse(w) : w.fdOf[n] = f /\ Listed(w, index, n)
  BY <1>6 DEF ExactTable
<1>8. v = deleteFromHashTable(u, f)
  BY <1>1, <1>4 DEF removeUser
<1>. HIDE DEF s, index
<1>9. /\ GoodWheel(u) /\ Removed(w, u, f) /\ SameTable(w, u)
      /\ \E l \in 1..Len(w.slots[index]) : UnlinkedAt(w, u, f, index, l)
  BY <1>5, <1>7, RemoveFromListStep
<1>. HIDE DEF u
<1>10. u.fdOf = [w.fdOf EXCEPT ![n] = NULL]
  <2>1. PICK l \in 1..Len(w.slots[index]) : UnlinkedAt(w, u, f, index, l)
    BY <1>9
  <2>2. w.slots[index][l] \in Nodes
    BY <1>5, <2>1, ListsOf DEF GoodWheel
  <2>3. w.slots[index][l] \in NodesInUse(w)
    BY <2>1, <2>2, WheelConstants DEF UnlinkedAt, NodesInUse
  <2>4. w.slots[index][l] = n
    BY <1>7, <2>1, <2>3 DEF OneNode, UnlinkedAt
  <2>. QED BY <2>1, <2>4 DEF UnlinkedAt
<1>11. \A g \in Fds : Named(u, g) <=> Named(w, g)
  BY <1>9 DEF SameTable, Named, BucketHead
<1>12. /\ GoodWheel(v) /\ SameLists(u, v) /\ NoneNamed(u, v) /\ NoneNew(u, v)
       /\ \A g \in Fds : g # f /\ Named(u, g) => Named(v, g)
       /\ v.elementCount = u.elementCount - 1
  BY <1>8, <1>9, <1>11, DeleteStep
<1>13. u.elementCount = Cardinality(NamedFds(w)) /\ u.elementCount \in Nat
  BY <1>9, Fields DEF SameTable, ExactTable, GoodWheel
<1>14. ~ Named(v, f)
  <2>. SUFFICES ASSUME Named(v, f) PROVE FALSE
    OBVIOUS
  <2>1. NamedFds(v) = NamedFds(w)
    BY <1>11, <1>12 DEF NamedFds, NoneNamed
  <2>2. Cardinality(NamedFds(v)) <= v.elementCount
    BY <1>12, NamedFdsCount
  <2>. QED BY <1>12, <1>13, <2>1, <2>2
<1>15. v.elementCount = Cardinality(NamedFds(v))
  <2>1. NamedFds(v) = NamedFds(w) \ {f}
    BY <1>11, <1>12, <1>14 DEF NamedFds, NoneNamed
  <2>2. IsFiniteSet(NamedFds(w)) /\ f \in NamedFds(w)
    BY NamedFdsCount DEF NamedFds
  <2>3. Cardinality(NamedFds(v)) = Cardinality(NamedFds(w)) - 1
    BY <2>1, <2>2, FS_RemoveElement
  <2>. QED BY <1>12, <1>13, <2>3
<1>16. /\ v.currentIndex = w.currentIndex
       /\ \A i \in Slots : \A m : Listed(w, i, m) /\ w.fdOf[m] # f => Listed(v, i, m)
  <2>1. Removed(w, v, f)
    BY <1>9, <1>12 DEF Removed, SameLists, UnlinkedAt
  <2>. QED BY <2>1, RemovedLists
<1>17. \A m \in Nodes : v.fdOf[m] = IF m = n THEN NULL ELSE w.fdOf[m]
  <2>1. w.fdOf \in [Nodes -> Fds \cup {NULL}] /\ v.fdOf = u.fdOf
    BY <1>12, Fields DEF SameLists, GoodWheel
  <2>. QED BY <1>10, <2>1
<1>18. ASSUME NEW m \in NodesInUse(v)
       PROVE  m \in NodesInUse(w) /\ w.fdOf[m] # f /\ v.fdOf[m] = w.fdOf[m]
  BY <1>7, <1>17 DEF NodesInUse, OneNode
<1>19. ASSUME NEW g \in Fds, NEW e, InTable(v, g, e)
       PROVE  \E m \in NodesInUse(v) : v.fdOf[m] = g /\ Listed(v, e.index, m)
  <2>1. InTable(w, g, e)
    BY <1>9, <1>12, <1>19 DEF NoneNew, InTable, BucketHead, SameTable
  <2>2. g # f
    BY <1>14, <1>19 DEF InTable, Named
  <2>3. PICK m \in NodesInUse(w) : w.fdOf[m] = g /\ Listed(w, e.index, m)
    BY <2>1 DEF ExactTable
  <2>4. m # n /\ m \in Nodes
    BY <1>7, <2>2, <2>3 DEF NodesInUse
  <2>5. v.fdOf[m] = g /\ m \in NodesInUse(v)
    BY <1>17, <2>3, <2>4, WheelConstants DEF NodesInUse
  <2>6. e.index \in Slots
    BY <2>1, EntrySlot
  <2>. QED BY <1>16, <2>2, <2>3, <2>5, <2>6
<1>20. ExactTable(v)
  BY <1>15, <1>19 DEF ExactTable
<1>. QED BY <1>12, <1>14, <1>16, <1>18, <1>20

\* f alone has a new node, Timeout slots ahead, and no other.
Restarted(w, v, f) ==
  /\ v.currentIndex = w.currentIndex
  /\ \E n \in Nodes :
       /\ v.fdOf[n] = f /\ Listed(v, SlotAt(w, Timeout), n)
       /\ \A m \in NodesInUse(v) : m # n =>
            /\ m \in NodesInUse(w) /\ w.fdOf[m] # f /\ v.fdOf[m] = w.fdOf[m]
            /\ \A i \in Slots : Listed(w, i, m) => Listed(v, i, m)

\* addUser starts the countdown of a descriptor that has none.
LEMMA AddExact ==
  ASSUME NEW w, GoodWheel(w), Roomy(w), ExactTable(w), NEW f \in Fds, ~ Named(w, f),
         \A m \in NodesInUse(w) : w.fdOf[m] # f, NEW v, v = addUser(w, f, Timeout)
  PROVE  ExactTable(v) /\ Restarted(w, v, f)
<1>1. Timeout \in Nat /\ SlotAt(w, Timeout) \in Slots
  BY TimeoutSlot DEF GoodWheel
<1>. DEFINE i == SlotAt(w, Timeout)
<1>2. /\ GoodWheel(v) /\ Named(v, f)
      /\ \E n \in Nodes : AddedAt(w, v, f, i, n)
      /\ \A g \in Fds : Named(w, g) => Named(v, g)
      /\ OnlyNamed(w, v, f) /\ OneNew(w, v, f, i)
  BY <1>1, AddUserStep DEF Roomy
<1>. HIDE DEF i
<1>3. PICK n \in Nodes : AddedAt(w, v, f, i, n)
  BY <1>2
<1>4. /\ v.currentIndex = w.currentIndex
      /\ \A j \in Slots : \A m : Listed(w, j, m) => Listed(v, j, m) /\ v.fdOf[m] = w.fdOf[m]
      /\ Listed(v, i, n) /\ v.fdOf[n] = f
      /\ NodesInUse(v) = NodesInUse(w) \cup {n}
  BY <1>1, <1>3, AddedLists DEF i
<1>5. \A m \in NodesInUse(w) : m # n /\ v.fdOf[m] = w.fdOf[m]
  <2>1. w.fdOf \in [Nodes -> Fds \cup {NULL}]
    BY Fields DEF GoodWheel
  <2>. QED BY <1>3, <2>1 DEF AddedAt, NodesInUse
<1>6. Restarted(w, v, f)
  BY <1>4, <1>5 DEF Restarted, i
<1>7. ASSUME NEW g \in Fds, NEW e, InTable(v, g, e)
      PROVE  \E m \in NodesInUse(v) : v.fdOf[m] = g /\ Listed(v, e.index, m)
  <2>1. CASE InTable(w, g, e)
    <3>1. PICK m \in NodesInUse(w) : w.fdOf[m] = g /\ Listed(w, e.index, m)
      BY <2>1 DEF ExactTable
    <3>2. e.index \in Slots
      BY <2>1, EntrySlot
    <3>. QED BY <1>4, <1>5, <3>1, <3>2
  <2>2. CASE e = [peerfd |-> f, index |-> i]
    <3>1. e.peerfd = f /\ e.index = i /\ e.peerfd = g
      BY <1>7, <2>2 DEF InTable
    <3>. QED BY <1>4, <3>1
  <2>. QED BY <1>2, <1>7, <2>1, <2>2 DEF OneNew
<1>8. v.elementCount = Cardinality(NamedFds(v))
  <2>1. NamedFds(v) = NamedFds(w) \cup {f} /\ f \notin NamedFds(w)
    BY <1>2 DEF NamedFds, OnlyNamed
  <2>2. IsFiniteSet(NamedFds(w))
    BY NamedFdsCount
  <2>3. Cardinality(NamedFds(v)) = Cardinality(NamedFds(w)) + 1
    BY <2>1, <2>2, FS_AddElement
  <2>. QED BY <1>2, <2>3 DEF OneNew, ExactTable
<1>. QED BY <1>6, <1>7, <1>8 DEF ExactTable

\* updateUserTimeout starts that of a descriptor with a hash node again.
LEMMA UpdateExact ==
  ASSUME NEW w, GoodWheel(w), Roomy(w), OwnBuckets(w), ExactTable(w), OneNode(w),
         NEW f \in Fds, Named(w, f), NEW v, v = updateUserTimeout(w, f, Timeout)
  PROVE  ExactTable(v) /\ Restarted(w, v, f)
<1>. DEFINE u == removeUser(w, f)
<1>1. BucketHead(w, f) # <<>>
  BY DEF Named, ToSet
<1>2. v = addUser(u, f, Timeout)
  BY <1>1 DEF updateUserTimeout
<1>3. /\ GoodWheel(u) /\ ExactTable(u) /\ ~ Named(u, f) /\ u.currentIndex = w.currentIndex
      /\ \A m \in NodesInUse(u) :
           /\ m \in NodesInUse(w) /\ w.fdOf[m] # f /\ u.fdOf[m] = w.fdOf[m]
           /\ \A i \in Slots : Listed(w, i, m) => Listed(u, i, m)
  BY RemoveExact
<1>. HIDE DEF u
<1>4. Roomy(u)
  <2>1. NodesInUse(u) \subseteq NodesInUse(w)
    BY <1>3
  <2>2. /\ IsFiniteSet(NodesInUse(u)) /\ Cardinality(NodesInUse(u)) <= Cardinality(NodesInUse(w))
        /\ Cardinality(NodesInUse(u)) \in Nat /\ Cardinality(NodesInUse(w)) \in Nat
    BY <2>1, FS_Subset, FS_CardinalityType DEF Roomy
  <2>3. MaxConns \in Nat /\ MaxMessages \in Nat
    BY ReactorAssumption
  <2>. QED BY <2>2, <2>3 DEF Roomy
<1>5. \A m \in NodesInUse(u) : u.fdOf[m] # f
  BY <1>3
<1>6. ExactTable(v) /\ Restarted(u, v, f)
  BY <1>2, <1>3, <1>4, <1>5, AddExact
<1>7. SlotAt(u, Timeout) = SlotAt(w, Timeout)
  BY <1>3 DEF SlotAt
<1>8. PICK n \in Nodes :
       /\ v.fdOf[n] = f /\ Listed(v, SlotAt(w, Timeout), n)
       /\ \A m \in NodesInUse(v) : m # n =>
            /\ m \in NodesInUse(u) /\ u.fdOf[m] # f /\ v.fdOf[m] = u.fdOf[m]
            /\ \A i \in Slots : Listed(u, i, m) => Listed(v, i, m)
  BY <1>6, <1>7 DEF Restarted
<1>9. \A m \in NodesInUse(v) : m # n =>
            /\ m \in NodesInUse(w) /\ w.fdOf[m] # f /\ v.fdOf[m] = w.fdOf[m]
            /\ \A i \in Slots : Listed(w, i, m) => Listed(v, i, m)
  BY <1>3, <1>8
<1>10. v.currentIndex = w.currentIndex
  BY <1>3, <1>6 DEF Restarted
<1>. QED BY <1>6, <1>8, <1>9, <1>10 DEF Restarted

-------------------------------------------------------------------------------
(* The countdown: what it shows *)

\* No client has hung up or asked for a transfer, and the workers hold few numbers.
Clean == hangups = 0 /\ started = 0 /\ FewHeld

\* How long the connection of f has been silent.
Silence(f) == idle[fdTab[f][2]]

\* A list node is an open connection's, and as far ahead as its silence leaves.
OnTime ==
  \A n \in NodesInUse(wheel) :
    /\ wheel.fdOf[n] \in Fds /\ IsConn(wheel.fdOf[n])
    /\ \E d \in Slots : Listed(wheel, SlotAt(wheel, d), n) /\ Silence(wheel.fdOf[n]) + d = Timeout

\* Connections have numbers of their own.
OwnNumbers ==
  /\ \A f \in Fds : IsConn(f) => fdTab[f][2] \in 1..accepted
  /\ \A f, g \in Fds : IsConn(f) /\ IsConn(g) /\ fdTab[f][2] = fdTab[g][2] => f = g

\* The node that tick stands on, unless it has been freed, is in the list whose turn it is.
OnTurn ==
  pc = "visit" /\ current \in NodesInUse(wheel) => Listed(wheel, wheel.currentIndex, current)

\* The inductive invariant of the countdown, on top of the others.
CountdownInv ==
  /\ hangups \in Nat
  /\ Clean => Intact /\ OnTime /\ ExactTable(wheel) /\ OwnNumbers /\ OnTurn

\* All of them.
WholeInv(low) == OwnInv /\ TimedInv /\ WindowInv(low) /\ CountdownInv

\* What silence and slots are.
LEMMA SilenceType ==
  ASSUME OwnInv, TimedInv, NEW f \in Fds, IsConn(f)
  PROVE  fdTab[f][2] \in ConnIds /\ Silence(f) \in 0..WheelSize
<1>1. fdTab[f][2] \in ConnIds
  BY ConnNumber DEF OwnInv
<1>. QED BY <1>1 DEF TimedInv, Types, Silence

\* So that a connection has one list node.
LEMMA OneTimer ==
  ASSUME OwnInv, TimedInv, CountdownInv, Clean
  PROVE  OneNode(wheel)
<1>. SUFFICES ASSUME NEW n \in NodesInUse(wheel), NEW m \in NodesInUse(wheel),
                     wheel.fdOf[n] = wheel.fdOf[m]
              PROVE  n = m
  BY DEF OneNode
<1>1. PICK f \in Fds : f = wheel.fdOf[n] /\ f = wheel.fdOf[m] /\ IsConn(f)
  BY DEF CountdownInv, OnTime
<1>2. PICK d \in Slots : Listed(wheel, SlotAt(wheel, d), n) /\ Silence(f) + d = Timeout
  BY <1>1 DEF CountdownInv, OnTime
<1>3. PICK e \in Slots : Listed(wheel, SlotAt(wheel, e), m) /\ Silence(f) + e = Timeout
  BY <1>1 DEF CountdownInv, OnTime
<1>4. d = e
  <2>1. /\ \A x \in Slots : x \in Nat
        /\ \A x \in 0..WheelSize : x \in Nat
        /\ Timeout \in Nat
    BY WheelConstants DEF Slots
  <2>2. Silence(f) \in 0..WheelSize
    BY <1>1, SilenceType
  <2>. QED BY <1>2, <1>3, <2>1, <2>2
<1>5. SlotAt(wheel, d) \in Slots
  BY SlotsAhead DEF TimedInv, Types, GoodWheel
<1>. QED BY <1>1, <1>2, <1>3, <1>4, <1>5 DEF TimedInv, Distinct, CountdownInv

\* Nobody's number is in the table or in the lists unless it is an open connection's.
LEMMA ClosedIsUnknown ==
  ASSUME CountdownInv, Clean, NEW f \in Fds, ~IsConn(f)
  PROVE  ~ Named(wheel, f) /\ \A m \in NodesInUse(wheel) : wheel.fdOf[m] # f
<1>1. \A m \in NodesInUse(wheel) : wheel.fdOf[m] # f
  BY DEF CountdownInv, OnTime
<1>2. ~ Named(wheel, f)
  <2>. SUFFICES ASSUME NEW e, e \in ToSet(BucketHead(wheel, f)), e.peerfd = f PROVE FALSE
    BY DEF Named
  <2>1. \E n \in NodesInUse(wheel) : wheel.fdOf[n] = f
    BY DEF CountdownInv, ExactTable, InTable
  <2>. QED BY <1>1, <2>1
<1>. QED BY <1>1, <1>2

\* The list node of an open connection.
LEMMA TimerOf ==
  ASSUME OwnInv, TimedInv, CountdownInv, Clean, NEW f \in Fds, IsConn(f)
  PROVE  \E n \in NodesInUse(wheel) : \E d \in Slots :
           /\ wheel.fdOf[n] = f /\ Listed(wheel, SlotAt(wheel, d), n) /\ Silence(f) + d = Timeout
<1>0. PICK d \in 0..Timeout : \E n : Listed(wheel, SlotAt(wheel, d), n) /\ wheel.fdOf[n] = f
  BY DEF TimedInv, Timed, InTime
<1>1. PICK n : Listed(wheel, SlotAt(wheel, d), n) /\ wheel.fdOf[n] = f
  BY <1>0
<1>2. n \in NodesInUse(wheel)
  <2>1. d \in Slots
    BY WheelConstants DEF Slots
  <2>2. SlotAt(wheel, d) \in Slots
    BY <2>1, SlotsAhead DEF TimedInv, Types, GoodWheel
  <2>3. n \in Nodes
    BY <1>1, <2>2, NodesHaveFds DEF TimedInv
  <2>. QED BY <1>1, <2>3, WheelConstants DEF NodesInUse
<1>. QED BY <1>1, <1>2 DEF CountdownInv, OnTime

\* Timers' view: Timeout + 1 less the silence.
LEMMA LeftOf ==
  ASSUME OwnInv, TimedInv, CountdownInv, Clean, NEW f \in Fds, IsConn(f)
  PROVE  TicksLeft(wheel, f) = Timeout + 1 - Silence(f)
<1>1. PICK n \in NodesInUse(wheel), d \in Slots :
        wheel.fdOf[n] = f /\ Listed(wheel, SlotAt(wheel, d), n) /\ Silence(f) + d = Timeout
  BY TimerOf
<1>2. /\ WheelSize \in Nat /\ Timeout \in Nat /\ Silence(f) \in Nat /\ d \in Nat
      /\ Slots = 0..(WheelSize - 1)
  <2>1. WheelSize \in Nat /\ Timeout \in Nat
    BY WheelConstants
  <2>. QED BY <2>1, SilenceType DEF Slots
<1>3. IsWheel(wheel) /\ OnceListed(wheel)
  BY NodesHaveFds DEF TimedInv
<1>4. /\ \A e \in Slots : SlotAt(wheel, e) \in Slots /\ Ahead(wheel, e) = wheel.slots[SlotAt(wheel, e)]
      /\ \A e, h \in Slots : SlotAt(wheel, e) = SlotAt(wheel, h) => e = h
  BY <1>3, SlotsAhead
<1>5. ASSUME NEW e \in Slots
      PROVE  (\E m \in ToSet(Ahead(wheel, e)) : wheel.fdOf[m] = f) <=> e = d
  <2>1. \A m : m \in ToSet(Ahead(wheel, e)) <=> Listed(wheel, SlotAt(wheel, e), m)
    BY <1>3, <1>4, ListsOf
  <2>2. ASSUME NEW m, Listed(wheel, SlotAt(wheel, e), m), wheel.fdOf[m] = f PROVE e = d
    <3>1. m \in NodesInUse(wheel)
      <4>1. m \in Nodes
        BY <1>4, <2>2, NodesHaveFds DEF TimedInv
      <4>. QED BY <2>2, <4>1, WheelConstants DEF NodesInUse
    <3>2. m = n
      BY <1>1, <2>2, <3>1, OneTimer DEF OneNode
    <3>3. SlotAt(wheel, e) = SlotAt(wheel, d)
      BY <1>1, <1>3, <1>4, <2>2, <3>2 DEF OnceListed, Listed
    <3>. QED BY <1>4, <3>3
  <2>. QED BY <1>1, <2>1, <2>2
<1>6. \A x \in 1..WheelSize :
        (\E m \in ToSet(Ahead(wheel, x - 1)) : wheel.fdOf[m] = f) <=> x = d + 1
  <2>. SUFFICES ASSUME NEW x \in 1..WheelSize
                PROVE  (\E m \in ToSet(Ahead(wheel, x - 1)) : wheel.fdOf[m] = f) <=> x = d + 1
    OBVIOUS
  <2>1. x - 1 \in Slots /\ (x - 1 = d <=> x = d + 1)
    BY <1>2
  <2>. QED BY <1>5, <2>1
<1>7. d + 1 \in 1..WheelSize /\ d + 1 = Timeout + 1 - Silence(f)
  BY <1>1, <1>2
<1>8. TicksLeft(wheel, f) = d + 1
  <2>. DEFINE P(x) == \E m \in ToSet(Ahead(wheel, x - 1)) : wheel.fdOf[m] = f
  <2>1. \A x \in 1..WheelSize : P(x) <=> x = d + 1
    BY <1>6
  <2>2. TicksLeft(wheel, f) = CHOOSE x \in 1..WheelSize : P(x)
    BY DEF TicksLeft
  <2>. HIDE DEF P
  <2>. QED BY <1>7, <2>1, <2>2
<1>. QED BY <1>7, <1>8

-------------------------------------------------------------------------------
(* The countdown: its steps *)

\* What a step makes of the timer of g: nothing; ...
Unmoved(g) == (IsConn(g)' <=> IsConn(g)) /\ (IsConn(g) => Silence(g)' = Silence(g))

\* ... it starts that of f, or starts it again; ...
Renews(f) == IsConn(f)' /\ Silence(f)' = 0 /\ \A g \in Fds \ {f} : Unmoved(g)

\* ... that of f is over, as it is due; ...
Expires(f) == IsConn(f) /\ Silence(f) = Timeout /\ ~IsConn(f)' /\ \A g \in Fds \ {f} : Unmoved(g)

\* ... it brings all of them down, none of which is due.
Advances ==
  \A g \in Fds : /\ IsConn(g)' <=> IsConn(g)
                 /\ IsConn(g) => Silence(g) # Timeout /\ Silence(g)' = Silence(g) + 1

\* A step that leaves the wheel and the connections alone.
LEMMA QuietExact ==
  ASSUME CountdownInv, UNCHANGED <<wheel, idle, hangups, cut, accepted>>, Clean' => Clean,
         \A g \in Fds : (IsConn(g)' <=> IsConn(g)) /\ (IsConn(g) => fdTab'[g] = fdTab[g]),
         pc' = "visit" /\ current' \in NodesInUse(wheel) => Listed(wheel, wheel.currentIndex, current')
  PROVE  CountdownInv' /\ \A g \in Fds : Unmoved(g)
<1>2. Clean => Intact' /\ OnTime' /\ ExactTable(wheel)' /\ OwnNumbers' /\ OnTurn'
  <2>. SUFFICES ASSUME Clean PROVE Intact' /\ OnTime' /\ ExactTable(wheel)' /\ OwnNumbers' /\ OnTurn'
    OBVIOUS
  <2>1. Intact /\ OnTime /\ ExactTable(wheel) /\ OwnNumbers
    BY DEF CountdownInv
  <2>2. Intact'
    BY <2>1, Zenon DEF Intact
  <2>3. OnTime'
    <3>1. ASSUME NEW n \in NodesInUse(wheel)
          PROVE  \E g \in Fds : /\ wheel'.fdOf[n] = g /\ IsConn(g)'
                                /\ \E d \in Slots : /\ Listed(wheel', SlotAt(wheel', d), n)
                                                   /\ Silence(g)' + d = Timeout
      <4>1. PICK g \in Fds : g = wheel.fdOf[n] /\ IsConn(g)
        BY <2>1 DEF OnTime
      <4>2. PICK d \in Slots : Listed(wheel, SlotAt(wheel, d), n) /\ Silence(g) + d = Timeout
        BY <2>1, <4>1 DEF OnTime
      <4>3. IsConn(g)' /\ Silence(g)' = Silence(g)
        BY <4>1 DEF Silence
      <4>. QED BY <4>1, <4>2, <4>3
    <3>2. NodesInUse(wheel') = NodesInUse(wheel)
      OBVIOUS
    <3>. QED BY <3>1, <3>2 DEF OnTime, IsConn, Open, Silence
  <2>4. OwnNumbers'
    BY <2>1 DEF OwnNumbers
  <2>. QED BY <2>1, <2>2, <2>3, <2>4 DEF OnTurn
<1>3. \A g \in Fds : Unmoved(g)
  BY DEF Unmoved, Silence
<1>. QED BY <1>2, <1>3 DEF CountdownInv

\* A timer is started, or started again.
LEMMA RestartExact ==
  ASSUME OwnInv, TimedInv, CountdownInv, Clean, NEW f \in Fds, NEW c \in ConnIds,
         ExactTable(wheel'), Restarted(wheel, wheel', f),
         IsConn(f)', fdTab'[f][2] = c, idle' = [idle EXCEPT ![c] = 0],
         \A g \in Fds : g # f => fdTab'[g] = fdTab[g],
         \A g \in Fds : g # f /\ IsConn(g) => fdTab[g][2] # c,
         c \in 1..accepted', \A i \in 1..accepted : i \in 1..accepted',
         pc' # "visit", UNCHANGED <<cut, hangups, started>>
  PROVE  CountdownInv' /\ Renews(f)
<1>1. Silence(f)' = 0 /\ \A g \in Fds : g # f /\ IsConn(g) => Silence(g)' = Silence(g)
  <2>1. idle \in [ConnIds -> 0..WheelSize] /\ \A g \in Fds : IsConn(g) => fdTab[g][2] \in ConnIds
    BY SilenceType DEF TimedInv, Types
  <2>. QED BY <2>1 DEF Silence
<1>2. \A g \in Fds : g # f => (IsConn(g)' <=> IsConn(g))
  BY DEF IsConn, Open
<1>3. Renews(f)
  BY <1>1, <1>2 DEF Renews, Unmoved
<1>4. PICK n \in Nodes :
       /\ wheel'.fdOf[n] = f /\ Listed(wheel', SlotAt(wheel, Timeout), n)
       /\ \A m \in NodesInUse(wheel') : m # n =>
            /\ m \in NodesInUse(wheel) /\ wheel.fdOf[m] # f /\ wheel'.fdOf[m] = wheel.fdOf[m]
            /\ \A i \in Slots : Listed(wheel, i, m) => Listed(wheel', i, m)
  BY DEF Restarted
<1>5. \A d : SlotAt(wheel', d) = SlotAt(wheel, d)
  BY DEF SlotAt, Restarted
<1>6. OnTime'
  <2>. SUFFICES ASSUME NEW m \in NodesInUse(wheel')
                PROVE  \E g \in Fds : /\ wheel'.fdOf[m] = g /\ IsConn(g)'
                                      /\ \E d \in Slots : /\ Listed(wheel', SlotAt(wheel', d), m)
                                                         /\ Silence(g)' + d = Timeout
    BY DEF OnTime, IsConn, Open, Silence
  <2>1. CASE m = n
    <3>1. Timeout \in Slots /\ 0 + Timeout = Timeout
      BY WheelConstants DEF Slots
    <3>2. Listed(wheel', SlotAt(wheel', Timeout), m) /\ Silence(f)' + Timeout = Timeout
      BY <1>1, <1>4, <1>5, <2>1, <3>1
    <3>. QED BY <1>4, <2>1, <3>1, <3>2
  <2>2. CASE m # n
    <3>1. PICK g : g = wheel.fdOf[m] /\ g = wheel'.fdOf[m] /\ g # f /\ m \in NodesInUse(wheel)
      BY <1>4, <2>2
    <3>2. g \in Fds /\ IsConn(g)
      BY <3>1 DEF CountdownInv, OnTime
    <3>3. PICK d \in Slots : Listed(wheel, SlotAt(wheel, d), m) /\ Silence(g) + d = Timeout
      BY <3>1 DEF CountdownInv, OnTime
    <3>4. SlotAt(wheel, d) \in Slots
      BY SlotsAhead DEF TimedInv, Types, GoodWheel
    <3>5. Listed(wheel', SlotAt(wheel', d), m)
      BY <1>4, <1>5, <2>2, <3>3, <3>4
    <3>6. IsConn(g)' /\ Silence(g)' = Silence(g)
      BY <1>1, <1>2, <3>1, <3>2
    <3>. QED BY <3>1, <3>2, <3>3, <3>5, <3>6
  <2>. QED BY <2>1, <2>2
<1>7. OwnNumbers'
  <2>1. \A g \in Fds : IsConn(g)' => fdTab'[g][2] \in 1..accepted'
    BY <1>2 DEF CountdownInv, OwnNumbers
  <2>2. \A g, h \in Fds : IsConn(g)' /\ IsConn(h)' /\ fdTab'[g][2] = fdTab'[h][2] => g = h
    BY <1>2 DEF CountdownInv, OwnNumbers
  <2>. QED BY <2>1, <2>2 DEF OwnNumbers, IsConn, Open
<1>8. Intact'
  <2>1. Intact
    BY DEF CountdownInv
  <2>. QED BY <2>1, Zenon DEF Intact
<1>9. OnTurn' /\ hangups' \in Nat
  BY DEF OnTurn, CountdownInv
<1>. QED BY <1>3, <1>6, <1>7, <1>8, <1>9 DEF CountdownInv

\* A connection is accepted.
LEMMA AcceptExact ==
  ASSUME OwnInv, TimedInv, CountdownInv, Clean, Accept
  PROVE  CountdownInv' /\ \E f \in Fds : ~IsConn(f) /\ Renews(f)
<1>0. PICK f, c : f = LowestFd /\ c = accepted + 1
  OBVIOUS
<1>1. /\ pc' \in {"tick", "events"} /\ accepted < MaxConns /\ FreeFds # {}
      /\ fdTab' = [fdTab EXCEPT ![f] = Conn(c)] /\ accepted' = c
      /\ wheel' = addUser(wheel, f, Timeout) /\ idle' = [idle EXCEPT ![c] = 0]
      /\ UNCHANGED <<cut, hangups, started>>
  BY <1>0 DEF Accept, Handled
<1>2. DescriptorsOK
  BY DEF OwnInv
<1>3. f \in Fds /\ fdTab[f] = NULL
  BY <1>0, <1>1, LowestIsFree
<1>4. accepted \in Nat /\ c \in ConnIds
  BY <1>0, <1>1, <1>2, Constants DEF DescriptorsOK, ConnIds
<1>5. /\ fdTab'[f] = <<"conn", c>>
      /\ \A g \in Fds : g # f => fdTab'[g] = fdTab[g]
  BY <1>1, <1>2, <1>3 DEF DescriptorsOK, Conn
<1>6. IsConn(f)' /\ fdTab'[f][2] = c /\ ~IsConn(f)
  <2>1. <<"conn", c>> # NULL /\ <<"conn", c>>[1] = "conn" /\ <<"conn", c>>[2] = c
    BY <1>4, Constants
  <2>2. fdTab'[f] # NULL /\ fdTab'[f][1] = "conn" /\ fdTab'[f][2] = c
    BY <1>5, <2>1
  <2>. QED BY <1>3, <2>2 DEF IsConn, Open
<1>7. GoodWheel(wheel) /\ Roomy(wheel) /\ ExactTable(wheel)
  BY <1>1, <1>2, IsRoomy DEF TimedInv, Types, CountdownInv
<1>8. ~ Named(wheel, f) /\ \A m \in NodesInUse(wheel) : wheel.fdOf[m] # f
  BY <1>3, <1>6, ClosedIsUnknown
<1>9. ExactTable(wheel') /\ Restarted(wheel, wheel', f)
  BY <1>1, <1>3, <1>7, <1>8, AddExact
<1>10. c \in 1..accepted' /\ (\A i \in 1..accepted : i \in 1..accepted') /\ c \notin 1..accepted
  BY <1>0, <1>1, <1>4
<1>11. \A g \in Fds : g # f /\ IsConn(g) => fdTab[g][2] # c
  BY <1>10 DEF CountdownInv, OwnNumbers
<1>12. CountdownInv' /\ Renews(f)
  <2>1. pc' # "visit"
    BY <1>1
  <2>. QED BY <1>1, <1>3, <1>4, <1>5, <1>6, <1>9, <1>10, <1>11, <2>1, RestartExact
<1>. QED BY <1>3, <1>6, <1>12

\* The sender of a command is heard.
LEMMA CommandExact ==
  ASSUME OwnInv, TimedInv, CountdownInv, Clean, OwnBuckets(wheel), NEW f \in Fds, Command(f)
  PROVE  CountdownInv' /\ IsConn(f) /\ Renews(f)
<1>1. /\ IsConn(f) /\ messages < MaxMessages
      /\ wheel' = updateUserTimeout(wheel, f, Timeout) /\ idle' = [idle EXCEPT ![fdTab[f][2]] = 0]
      /\ pc' \in {"tick", "events"} /\ UNCHANGED <<cut, fdTab, accepted, hangups, started>>
  BY DEF Command, Received, Handled
<1>2. DescriptorsOK
  BY DEF OwnInv
<1>3. GoodWheel(wheel) /\ Roomy(wheel) /\ ExactTable(wheel) /\ OneNode(wheel) /\ Named(wheel, f)
  BY <1>1, <1>2, IsRoomy, OneTimer DEF TimedInv, Types, Timed, CountdownInv
<1>4. ExactTable(wheel') /\ Restarted(wheel, wheel', f)
  BY <1>1, <1>3, UpdateExact
<1>5. PICK c \in ConnIds : c = fdTab[f][2] /\ c \in 1..accepted
  BY <1>1, SilenceType DEF CountdownInv, OwnNumbers
<1>6. IsConn(f)' /\ fdTab'[f][2] = c
  BY <1>1, <1>5 DEF IsConn, Open
<1>7. \A g \in Fds : g # f /\ IsConn(g) => fdTab[g][2] # c
  BY <1>1, <1>5 DEF CountdownInv, OwnNumbers
<1>8. pc' # "visit" /\ idle' = [idle EXCEPT ![c] = 0] /\ accepted' = accepted
  BY <1>1, <1>5
<1>. QED BY <1>1, <1>4, <1>5, <1>6, <1>7, <1>8, RestartExact

\* A tick is over: every countdown comes down, none of which is due.
LEMMA TickDoneExact ==
  ASSUME OwnInv, TimedInv, CountdownInv, Clean, TickDone,
         UNCHANGED <<cut, fdTab, accepted, hangups, started>>,
         \A n : Listed(wheel, wheel.currentIndex, n) => ~IsConn(wheel.fdOf[n])
  PROVE  CountdownInv' /\ Advances
<1>. DEFINE x == wheel.currentIndex
<1>1. /\ wheel' = TickAdvance(wheel) /\ pc' = "wait" /\ GoodWheel(wheel)
      /\ idle' = [c \in ConnIds |-> IF idle[c] < WheelSize THEN idle[c] + 1 ELSE idle[c]]
  BY DEF TickDone, TimedInv, Types
<1>2. GoodWheel(wheel') /\ Advanced(wheel, wheel') /\ SameTable(wheel, wheel')
  BY <1>1, TickAdvanceStep
<1>3. /\ IsWheel(wheel) /\ x \in Slots /\ IsWheel(wheel')
      /\ \A i \in Slots : \A n : Listed(wheel, i, n) => n \in NodesInUse(wheel)
  BY <1>2, NodesHaveFds, WheelConstants DEF TimedInv, GoodWheel, NodesInUse
<1>4. SlotAt(wheel, 0) = x /\ \A d \in Slots : SlotAt(wheel, d) \in Slots
  BY <1>3, SlotsAhead
<1>5. \A d \in Slots : d + 1 \in Slots => SlotAt(wheel', d) = SlotAt(wheel, d + 1)
  BY <1>2, <1>3, SlotsNearer DEF Advanced
<1>6. /\ \A j \in Slots \ {x} : \A m :
           Listed(wheel, j, m) => Listed(wheel', j, m) /\ wheel'.fdOf[m] = wheel.fdOf[m]
      /\ NodesInUse(wheel') \subseteq NodesInUse(wheel)
  BY <1>2 DEF Advanced
<1>. HIDE DEF x
<1>7. WheelSize \in Nat \ {0} /\ Timeout \in 0..(WheelSize - 1) /\ Slots = 0..(WheelSize - 1)
  BY WheelConstants DEF Slots
<1>8. \A n : ~ Listed(wheel, x, n)
  BY <1>3 DEF CountdownInv, OnTime, x
<1>9. \A g : (IsConn(g)' <=> IsConn(g)) /\ fdTab' = fdTab
  BY DEF IsConn, Open
<1>10. ASSUME NEW g \in Fds, IsConn(g), Silence(g) # Timeout, Silence(g) <= Timeout
       PROVE  Silence(g)' = Silence(g) + 1
  <2>1. fdTab[g][2] \in ConnIds /\ Silence(g) \in 0..WheelSize
    BY <1>10, SilenceType
  <2>2. Silence(g)' = IF Silence(g) < WheelSize THEN Silence(g) + 1 ELSE Silence(g)
    BY <1>1, <2>1 DEF Silence
  <2>3. Silence(g) < WheelSize
    BY <1>7, <1>10, <2>1
  <2>. QED BY <2>2, <2>3
<1>11. ASSUME NEW n \in NodesInUse(wheel)
       PROVE  \E g \in Fds : \E d \in Slots :
                /\ wheel.fdOf[n] = g /\ IsConn(g) /\ Silence(g) + d = Timeout
                /\ d - 1 \in Slots /\ Silence(g)' = Silence(g) + 1
                /\ wheel'.fdOf[n] = g /\ Listed(wheel', SlotAt(wheel', d - 1), n)
                /\ Silence(g) # Timeout
  <2>1. PICK g \in Fds, d \in Slots :
          /\ wheel.fdOf[n] = g /\ IsConn(g)
          /\ Listed(wheel, SlotAt(wheel, d), n) /\ Silence(g) + d = Timeout
    BY DEF CountdownInv, OnTime
  <2>2. d # 0
    BY <1>4, <1>8, <2>1
  <2>3. Silence(g) \in Nat /\ d \in Nat
    BY <1>7, <2>1, SilenceType
  <2>4. d - 1 \in Slots /\ (d - 1) + 1 = d /\ Silence(g) # Timeout /\ Silence(g) <= Timeout
    BY <1>7, <2>1, <2>2, <2>3
  <2>5. SlotAt(wheel', d - 1) = SlotAt(wheel, d)
    BY <1>5, <2>4
  <2>6. SlotAt(wheel, d) \in Slots \ {x}
    BY <1>4, <1>8, <2>1
  <2>. QED BY <1>6, <1>10, <2>1, <2>4, <2>5, <2>6
<1>12. Advances
  <2>. SUFFICES ASSUME NEW g \in Fds, IsConn(g)
                PROVE  Silence(g) # Timeout /\ Silence(g)' = Silence(g) + 1
    BY <1>9 DEF Advances
  <2>. QED BY <1>11, TimerOf
<1>13. OnTime'
  <2>. SUFFICES ASSUME NEW n \in NodesInUse(wheel')
                PROVE  \E g \in Fds : /\ wheel'.fdOf[n] = g /\ IsConn(g)'
                                      /\ \E d \in Slots : /\ Listed(wheel', SlotAt(wheel', d), n)
                                                         /\ Silence(g)' + d = Timeout
    BY DEF OnTime, IsConn, Open, Silence
  <2>1. PICK g \in Fds, d \in Slots :
                /\ wheel.fdOf[n] = g /\ IsConn(g) /\ Silence(g) + d = Timeout
                /\ d - 1 \in Slots /\ Silence(g)' = Silence(g) + 1
                /\ wheel'.fdOf[n] = g /\ Listed(wheel', SlotAt(wheel', d - 1), n)
    BY <1>6, <1>11
  <2>2. Silence(g) \in Nat /\ d \in Nat
    BY <1>7, <2>1, SilenceType
  <2>3. Silence(g)' + (d - 1) = Timeout
    BY <2>1, <2>2
  <2>. QED BY <1>9, <2>1, <2>3
<1>14. ExactTable(wheel)'
  <2>1. \A g \in Fds : \A e : InTable(wheel', g, e) <=> InTable(wheel, g, e)
    BY <1>2 DEF SameTable, InTable, BucketHead
  <2>2. NamedFds(wheel') = NamedFds(wheel) /\ wheel'.elementCount = wheel.elementCount
    BY <1>2 DEF NamedFds, SameTable, Named, BucketHead
  <2>3. ASSUME NEW g \in Fds, NEW e, InTable(wheel, g, e)
        PROVE  \E n \in NodesInUse(wheel') : wheel'.fdOf[n] = g /\ Listed(wheel', e.index, n)
    <3>1. PICK n \in NodesInUse(wheel) : wheel.fdOf[n] = g /\ Listed(wheel, e.index, n)
      BY <2>3 DEF CountdownInv, ExactTable
    <3>2. e.index \in Slots \ {x}
      BY <1>1, <1>8, <2>3, <3>1, EntrySlot
    <3>3. wheel'.fdOf[n] = g /\ Listed(wheel', e.index, n)
      BY <1>6, <3>1, <3>2
    <3>. QED BY <3>1, <3>3, WheelConstants DEF NodesInUse
  <2>4. wheel.elementCount = Cardinality(NamedFds(wheel))
    BY DEF CountdownInv, ExactTable
  <2>. QED BY <2>1, <2>2, <2>3, <2>4 DEF ExactTable
<1>15. OwnNumbers'
  BY <1>9 DEF CountdownInv, OwnNumbers
<1>16. Intact'
  <2>1. Intact
    BY DEF CountdownInv
  <2>. QED BY <2>1, Zenon DEF Intact
<1>17. OnTurn' /\ hangups' \in Nat
  BY <1>1 DEF OnTurn, CountdownInv
<1>. QED BY <1>12, <1>13, <1>14, <1>15, <1>16, <1>17 DEF CountdownInv

\* The loop of tick closes a connection whose countdown is over.
LEMMA TickVisitExact ==
  ASSUME OwnInv, TimedInv, CountdownInv, Clean, OwnBuckets(wheel), transfers = {}, TickVisit
  PROVE  CountdownInv' /\ \E f \in Fds : Expires(f)
<1>0. PICK f, next : f = wheel.fdOf[current] /\ next = NextNode(wheel, current)
  OBVIOUS
<1>1. /\ pc = "visit" /\ f # NULL /\ wheel' = removeUser(wheel, f)
      /\ fdTab' = [fdTab EXCEPT ![f] = NULL] /\ current' = next
      /\ pc' \in {"ticked", "visit"} /\ UNCHANGED <<idle, accepted, hangups, started>>
  BY <1>0 DEF TickVisit, TabWithout, clients, workers
<1>2. GoodWheel(wheel) /\ IsWheel(wheel) /\ wheel.currentIndex \in Slots
  BY NodesHaveFds DEF TimedInv, Types
<1>3. current \in NodesInUse(wheel) /\ Listed(wheel, wheel.currentIndex, current)
  <2>1. current \in Nodes
    BY <1>1 DEF TimedInv, Visited
  <2>2. current \in NodesInUse(wheel)
    BY <1>0, <1>1, <2>1 DEF NodesInUse
  <2>. QED BY <1>1, <2>2 DEF CountdownInv, OnTurn
<1>4. f \in Fds /\ IsConn(f)
  BY <1>0, <1>3 DEF CountdownInv, OnTime
<1>5. Named(wheel, f) /\ OneNode(wheel)
  BY <1>4, OneTimer DEF TimedInv, Timed
<1>6. /\ GoodWheel(wheel') /\ ExactTable(wheel') /\ wheel'.currentIndex = wheel.currentIndex
      /\ \A m \in NodesInUse(wheel') :
           /\ m \in NodesInUse(wheel) /\ wheel.fdOf[m] # f /\ wheel'.fdOf[m] = wheel.fdOf[m]
           /\ \A i \in Slots : Listed(wheel, i, m) => Listed(wheel', i, m)
  BY <1>1, <1>2, <1>4, <1>5, RemoveExact DEF CountdownInv
<1>7. /\ \A g \in Fds : fdTab'[g] = IF g = f THEN NULL ELSE fdTab[g]
      /\ \A g \in Fds : IsConn(g)' <=> IsConn(g) /\ g # f
  <2>1. \A g \in Fds : fdTab'[g] = IF g = f THEN NULL ELSE fdTab[g]
    BY <1>1 DEF OwnInv, DescriptorsOK
  <2>. QED BY <2>1 DEF IsConn, Open
<1>8. \A g \in Fds : g # f => Silence(g)' = Silence(g)
  BY <1>1, <1>7 DEF Silence
<1>9. /\ SlotAt(wheel, 0) = wheel.currentIndex /\ \A d \in Slots : SlotAt(wheel, d) \in Slots
      /\ \A d, e \in Slots : SlotAt(wheel, d) = SlotAt(wheel, e) => d = e
      /\ \A d : SlotAt(wheel', d) = SlotAt(wheel, d)
  BY <1>2, <1>6, SlotsAhead DEF SlotAt
<1>10. Silence(f) = Timeout
  <2>1. PICK d \in Slots : Listed(wheel, SlotAt(wheel, d), current) /\ Silence(f) + d = Timeout
    BY <1>0, <1>3 DEF CountdownInv, OnTime
  <2>2. OnceListed(wheel)
    BY NodesHaveFds DEF TimedInv
  <2>3. SlotAt(wheel, d) = SlotAt(wheel, 0)
    BY <1>2, <1>3, <1>9, <2>1, <2>2 DEF OnceListed, Listed
  <2>4. 0 \in Slots
    BY WheelConstants DEF Slots
  <2>5. d = 0
    BY <1>9, <2>3, <2>4
  <2>6. Silence(f) \in 0..WheelSize /\ WheelSize \in Nat
    BY <1>4, SilenceType, WheelConstants
  <2>. QED BY <2>1, <2>5, <2>6
<1>11. Expires(f)
  BY <1>4, <1>7, <1>8, <1>10 DEF Expires, Unmoved
<1>12. OnTime'
  <2>. SUFFICES ASSUME NEW m \in NodesInUse(wheel')
                PROVE  \E g \in Fds : /\ wheel'.fdOf[m] = g /\ IsConn(g)'
                                      /\ \E d \in Slots : /\ Listed(wheel', SlotAt(wheel', d), m)
                                                         /\ Silence(g)' + d = Timeout
    BY DEF OnTime, IsConn, Open, Silence
  <2>1. PICK g \in Fds : g = wheel.fdOf[m] /\ IsConn(g) /\ g # f
    BY <1>6 DEF CountdownInv, OnTime
  <2>2. PICK d \in Slots : Listed(wheel, SlotAt(wheel, d), m) /\ Silence(g) + d = Timeout
    BY <1>6, <2>1 DEF CountdownInv, OnTime
  <2>. QED BY <1>6, <1>7, <1>8, <1>9, <2>1, <2>2
<1>13. OwnNumbers'
  BY <1>1, <1>7 DEF CountdownInv, OwnNumbers
<1>14. Intact'
  <2>1. /\ Intact
        /\ cut' = (cut \/ (\E t \in transfers : Uses(t, f)) \/ (\E o \in own : Holds(o, f)))
    BY <1>0, Zenon DEF TickVisit, CountdownInv
  <2>2. \A o \in own : ~ Holds(o, f)
    BY <1>4 DEF Holds, IsConn
  <2>. QED BY <2>1, <2>2, Zenon DEF Intact
<1>15. OnTurn'
  <2>. SUFFICES ASSUME current' \in NodesInUse(wheel') PROVE Listed(wheel', wheel'.currentIndex, current')
    BY DEF OnTurn
  <2>1. PICK k \in 1..Len(wheel.slots[wheel.currentIndex]) : wheel.slots[wheel.currentIndex][k] = current
    BY <1>3 DEF Listed
  <2>. DEFINE s == wheel.slots[wheel.currentIndex]
  <2>2. next = s[IF k = Len(s) THEN 1 ELSE k + 1]
    BY <1>0, <1>2, <2>1, NextOf
  <2>3. (IF k = Len(s) THEN 1 ELSE k + 1) \in 1..Len(s)
    BY <1>2, ListsOf
  <2>4. Listed(wheel, wheel.currentIndex, next)
    BY <2>2, <2>3 DEF Listed
  <2>. QED BY <1>1, <1>2, <1>6, <2>4
<1>16. hangups' \in Nat
  BY <1>1 DEF CountdownInv
<1>. QED BY <1>4, <1>6, <1>11, <1>12, <1>13, <1>14, <1>15, <1>16 DEF CountdownInv

\* What a step shows of the countdowns.
Shows ==
  /\ \/ \A g \in Fds : Unmoved(g)
     \/ \E f \in Fds : Renews(f) \/ Expires(f)
     \/ Advances
  /\ \A f \in Fds : Command(f) => IsConn(f) /\ Renews(f)
  /\ pc # "wait" /\ pc' = "wait" => Advances

\* The counters of hang-ups and transfers do not go down, nor does peak.
LEMMA Counters ==
  ASSUME OwnInv, CountdownInv, [Next]_vars
  PROVE  hangups' \in Nat /\ (Clean' => Clean /\ UNCHANGED <<hangups, started>>)
<1>1. started \in Nat /\ hangups \in Nat
  BY Constants DEF OwnInv, DescriptorsOK, CountdownInv
<1>. DEFINE Upwards == /\ hangups' = hangups \/ hangups' = hangups + 1
                       /\ started' = started \/ started' = started + 1
                       /\ peak' = peak \/ PeakNow
<1>2. Upwards
  <2>1. CASE EpollWait \/ Accept \/ AcceptFailed \/ AcceptNothing \/ Unlist
    BY <2>1 DEF EpollWait, Accept, AcceptFailed, AcceptNothing, Unlist, clients, workers
  <2>2. ASSUME NEW f \in Fds, HandleMessage(f)
        PROVE  Upwards
    BY <2>2 DEF HandleMessage, Command, ShortCommand, Transfer, StrayTransfer, Hangup, clients, workers
  <2>3. CASE Tick
    BY <2>3 DEF Tick, TickStart, TickVisit, TickVisitFreed, TickEnd, clients, workers
  <2>4. CASE WorkerStep
    BY <2>4 DEF WorkerStep, TransferStep, OpenFile, GiveUp, Repoll, CloseFile, OpenOwn, CloseOwn,
                OpenFails, clients, workers
  <2>5. CASE UNCHANGED vars
    BY <2>5 DEF vars, clients, workers
  <2>. QED BY <2>1, <2>2, <2>3, <2>4, <2>5 DEF Next, MainStep, Spin, Crashed
<1>3. hangups' = 0 => hangups = 0 /\ hangups' = hangups
  BY <1>1, <1>2
<1>4. started' = 0 => started = 0 /\ started' = started
  BY <1>1, <1>2
<1>5. FewHeld' => FewHeld
  <2>1. peak \in Nat /\ peak' \in Nat /\ peak <= peak'
    BY <1>2, PeakGrows DEF OwnInv, DescriptorsOK
  <2>. QED BY <2>1, FewBefore
<1>. QED BY <1>1, <1>2, <1>3, <1>4, <1>5 DEF Clean

\* Every step of Next, while Clean holds.
LEMMA CleanStep ==
  ASSUME NEW low \in Nat, NEW high \in Nat, Fds = low..high, WholeInv(low), [Next]_vars, Clean'
  PROVE  CountdownInv' /\ Shows
<1>1. OwnInv /\ TimedInv /\ CountdownInv /\ Clean /\ UNCHANGED <<hangups, started>>
  BY Counters DEF WholeInv
<1>2. transfers = {} /\ OwnBuckets(wheel)
  <2>1. FirstNodeIsOwn
    BY WindowIsOwn DEF WholeInv
  <2>. QED BY <1>1, <2>1 DEF FirstNodeIsOwn, WholeInv, WindowInv, Clean
<1>3. NULL \notin NodesInUse(wheel)
  BY WheelConstants DEF NodesInUse
<1>4. ASSUME NEW f \in Fds, Command(f) PROVE IsConn(f) /\ Renews(f)
  BY <1>1, <1>2, <1>4, CommandExact
<1>. DEFINE SameConns == \A g \in Fds : /\ IsConn(g)' <=> IsConn(g)
                                        /\ IsConn(g) => fdTab'[g] = fdTab[g]
            Silent == UNCHANGED <<wheel, idle, cut, accepted>> /\ SameConns
                      /\ (pc' = "wait" => pc = "wait")
                      /\ (pc' = "visit" /\ current' \in NodesInUse(wheel)
                            => Listed(wheel, wheel.currentIndex, current'))
<1>5. Silent => CountdownInv' /\ Shows
  BY <1>1, <1>4, QuietExact DEF Shows
<1>15. UNCHANGED fdTab => SameConns
  BY DEF IsConn, Open
<1>. HIDE DEF SameConns
<1>6. CASE EpollWait \/ AcceptFailed \/ AcceptNothing \/ Unlist \/ TickVisitFreed
  <2>1. Silent
    BY <1>3, <1>6, <1>15 DEF EpollWait, AcceptFailed, AcceptNothing, Unlist, TickVisitFreed, clients, workers, Handled
  <2>. QED BY <1>5, <2>1
<1>7. CASE Accept
  <2>1. CountdownInv' /\ \E f \in Fds : Renews(f)
    BY <1>1, <1>7, AcceptExact
  <2>2. pc' # "wait"
    BY <1>7 DEF Accept, Handled
  <2>. QED BY <1>4, <2>1, <2>2 DEF Shows
<1>8. ASSUME NEW f \in Fds, HandleMessage(f) PROVE CountdownInv' /\ Shows
  <2>1. CASE Command(f)
    <3>1. CountdownInv' /\ Renews(f)
      BY <1>1, <1>2, <2>1, CommandExact
    <3>2. pc' # "wait"
      BY <2>1 DEF Command, Handled
    <3>. QED BY <1>4, <3>1, <3>2 DEF Shows
  <2>2. CASE ShortCommand(f)
    <3>1. Silent
      BY <1>15, <2>2 DEF ShortCommand, clients, workers, Handled
    <3>. QED BY <1>5, <3>1
  <2>3. ~ Transfer(f) /\ ~ StrayTransfer(f)
    <3>1. started \in Nat
      BY <1>1, Constants DEF OwnInv, DescriptorsOK
    <3>. QED BY <1>1, <3>1 DEF Transfer, StrayTransfer
  <2>4. ~ Hangup(f)
    BY <1>1 DEF Hangup, CountdownInv
  <2>. QED BY <1>8, <2>1, <2>2, <2>3, <2>4 DEF HandleMessage
<1>9. ASSUME TickDone, UNCHANGED <<cut, fdTab, accepted>>,
             \A n : Listed(wheel, wheel.currentIndex, n) => ~IsConn(wheel.fdOf[n])
      PROVE  CountdownInv' /\ Shows
  BY <1>1, <1>4, <1>9, TickDoneExact DEF Shows
<1>10. CASE TickStart
  <2>1. pc = "tick" /\ UNCHANGED <<cut, fdTab, accepted>>
    BY <1>10 DEF TickStart, clients, workers
  <2>2. CASE Turn = <<>> /\ TickDone
    <3>1. \A n : ~ Listed(wheel, wheel.currentIndex, n)
      BY <2>2 DEF Listed, Turn
    <3>. QED BY <1>9, <2>1, <2>2, <3>1
  <2>3. CASE Turn # <<>> /\ current' = Turn[1] /\ pc' = "visit" /\ UNCHANGED <<wheel, idle>>
    <3>1. 1 \in 1..Len(Turn)
      BY <1>1, <2>3, NodesHaveFds DEF TimedInv
    <3>2. Listed(wheel, wheel.currentIndex, Turn[1])
      BY <3>1 DEF Listed, Turn
    <3>3. Silent
      BY <1>15, <2>1, <2>3, <3>2
    <3>. QED BY <1>5, <3>3
  <2>. QED BY <1>10, <2>2, <2>3 DEF TickStart, Turn
<1>11. CASE TickVisit
  <2>1. CountdownInv' /\ \E f \in Fds : Expires(f)
    BY <1>1, <1>2, <1>11, TickVisitExact
  <2>2. pc' # "wait"
    BY <1>11 DEF TickVisit
  <2>. QED BY <1>4, <2>1, <2>2 DEF Shows
<1>12. CASE TickEnd
  <2>1. pc = "ticked" /\ TickDone /\ UNCHANGED <<cut, fdTab, accepted>>
    BY <1>12 DEF TickEnd, clients, workers
  <2>2. \A n : Listed(wheel, wheel.currentIndex, n) => ~IsConn(wheel.fdOf[n])
    BY <1>1, <2>1 DEF TimedInv, Visited, Listed, Turn
  <2>. QED BY <1>9, <2>1, <2>2
<1>13. CASE WorkerStep
  <2>1. ~ \E t \in transfers : TransferStep(t)
    BY <1>2
  <2>2. CASE OpenFails
    <3>1. Silent
      BY <1>15, <2>2 DEF OpenFails, clients, workers
    <3>. QED BY <1>5, <3>1
  <2>3. pc' = pc /\ current' = current /\ wheel' = wheel
          => (pc' = "visit" /\ current' \in NodesInUse(wheel)
                => Listed(wheel, wheel.currentIndex, current'))
    BY <1>1 DEF CountdownInv, OnTurn
  <2>4. CASE OpenOwn
    <3>1. FreeFds # {} /\ UNCHANGED <<wheel, idle, cut, accepted, pc, current>>
      BY <2>4 DEF OpenOwn, clients
    <3>2. SameConns
      <4>1. PICK f : f = LowestFd
        OBVIOUS
      <4>2. f \in Fds /\ fdTab[f] = NULL
        BY <3>1, <4>1, LowestIsFree
      <4>3. \A g \in Fds : fdTab'[g] = IF g = f THEN <<"own", opened + 1>> ELSE fdTab[g]
        BY <1>1, <2>4, <4>1 DEF OpenOwn, OwnInv, DescriptorsOK
      <4>4. <<"own", opened + 1>>[1] # "conn"
        OBVIOUS
      <4>. QED BY <4>2, <4>3, <4>4 DEF SameConns, IsConn, Open
    <3>. QED BY <1>5, <2>3, <3>1, <3>2
  <2>5. ASSUME NEW o \in own, CloseOwn(o) PROVE CountdownInv' /\ Shows
    <3>1. UNCHANGED <<wheel, idle, cut, accepted, pc, current>> /\ fdTab' = TabWithout(o.fd)
      BY <2>5 DEF CloseOwn, clients
    <3>2. SameConns
      <4>1. Intact
        BY <1>1 DEF CountdownInv
      <4>2. ~cut
        BY <4>1, Zenon DEF Intact
      <4>3. \A p \in own : fdTab[p.fd] = <<"own", p.id>>
        BY <1>1, <4>2, Zenon DEF OwnInv, TransferOwnUntilCut
      <4>4. \A g \in Fds : fdTab'[g] = IF g = o.fd THEN NULL ELSE fdTab[g]
        BY <1>1, <3>1 DEF OwnInv, DescriptorsOK, TabWithout
      <4>5. <<"own", o.id>>[1] # "conn"
        OBVIOUS
      <4>. QED BY <4>3, <4>4, <4>5 DEF SameConns, IsConn, Open
    <3>. QED BY <1>5, <2>3, <3>1, <3>2
  <2>. QED BY <1>13, <2>1, <2>2, <2>4, <2>5 DEF WorkerStep
<1>14. CASE UNCHANGED vars
  <2>1. Silent
    BY <1>1, <1>14, <1>15 DEF vars, clients, workers, CountdownInv, OnTurn
  <2>. QED BY <1>5, <2>1
<1>. QED BY <1>6, <1>7, <1>8, <1>10, <1>11, <1>12, <1>13, <1>14
         DEF Next, MainStep, Tick, Spin, Crashed

\* The empty wheel has no countdown.
LEMMA InitExact == ASSUME Init PROVE CountdownInv
<1>1. /\ hangups = 0 /\ cut = FALSE /\ pc = "wait" /\ fdTab = [f \in Fds |-> NULL]
      /\ wheel = createTimeWheel
  BY Zenon DEF Init
<1>2. GoodWheel(wheel)
  BY InitTimed DEF TimedInv, Types
<1>3. ASSUME NEW f \in Fds PROVE ~ IsConn(f) /\ BucketHead(wheel, f) = <<>>
  <2>1. hashFunction(f, wheel.hashSize) \in 0..(wheel.hashSize - 1)
    BY <1>2, HashOf DEF GoodWheel
  <2>2. /\ wheel.hashTable = [b \in 0..(InitialHashSize - 1) |-> <<>>]
        /\ wheel.hashSize = InitialHashSize
    BY <1>1 DEF createTimeWheel
  <2>3. BucketHead(wheel, f) = <<>>
    BY <2>1, <2>2 DEF BucketHead
  <2>. QED BY <1>1, <2>3 DEF IsConn, Open
<1>4. NodesInUse(wheel) = {} /\ wheel.elementCount = 0
  BY <1>1 DEF createTimeWheel, NodesInUse
<1>5. NamedFds(wheel) = {}
  BY <1>3 DEF NamedFds, Named, ToSet
<1>6. ExactTable(wheel)
  BY <1>3, <1>4, <1>5, FS_EmptySet DEF ExactTable, InTable, ToSet
<1>7. OnTime /\ OwnNumbers /\ OnTurn
  BY <1>1, <1>3, <1>4 DEF OnTime, OwnNumbers, OnTurn
<1>. QED BY <1>1, <1>6, <1>7 DEF CountdownInv, Intact

\* All the invariants hold at the start, and every step keeps them.
LEMMA WholeInvariant ==
  ASSUME NEW low \in Nat, NEW high \in Nat, Fds = low..high
  PROVE  (Init => WholeInv(low)) /\ (WholeInv(low) /\ [Next]_vars => WholeInv(low)')
<1>1. Init => WholeInv(low)
  BY InitInv, InitTimed, InitWindow, InitExact DEF WholeInv
<1>2. ASSUME WholeInv(low), [Next]_vars PROVE WholeInv(low)'
  <2>1. OwnInv' /\ TimedInv' /\ WindowInv(low)'
    BY <1>2, NextInv, NextTimed, NextWindow DEF WholeInv
  <2>2. CountdownInv'
    <3>1. CASE Clean'
      BY <1>2, <3>1, CleanStep
    <3>2. CASE ~Clean'
      BY <1>2, <3>2, Counters DEF WholeInv, CountdownInv
    <3>. QED BY <3>1, <3>2
  <2>. QED BY <2>1, <2>2 DEF WholeInv
<1>. QED BY <1>1, <1>2

\* What Timers sees of f.
View(f) == IF IsConn(f) THEN Timeout + 1 - Silence(f) ELSE NULL

\* TimersOf's variable.
Shown == [f \in Fds |-> IF IsConn(f) THEN TicksLeft(wheel, f) ELSE NULL]

\* While Clean holds, it is what silence leaves.
ViewRight ==
  /\ \A f \in Fds : IsConn(f) => Silence(f) \in Nat
  /\ Clean => Shown = [f \in Fds |-> View(f)] /\ \A f \in Fds : IsConn(f) => Silence(f) <= Timeout

\* It is so in every state that the invariants allow.
LEMMA ViewIsRight == ASSUME OwnInv, TimedInv, CountdownInv PROVE ViewRight
<1>1. WheelSize \in Nat /\ Timeout \in Nat
  BY WheelConstants
<1>2. \A f \in Fds : IsConn(f) => Silence(f) \in Nat
  BY <1>1, SilenceType
<1>3. ASSUME Clean, NEW f \in Fds, IsConn(f)
      PROVE  TicksLeft(wheel, f) = Timeout + 1 - Silence(f) /\ Silence(f) <= Timeout
  <2>1. PICK d \in Slots : Silence(f) + d = Timeout
    BY <1>3, TimerOf
  <2>2. d \in Nat
    BY <1>1 DEF Slots
  <2>3. Silence(f) <= Timeout
    BY <1>1, <1>2, <1>3, <2>1, <2>2
  <2>. QED BY <1>3, <2>3, LeftOf
<1>4. Clean => Shown = [f \in Fds |-> View(f)]
  BY <1>3 DEF Shown, View
<1>. QED BY <1>2, <1>3, <1>4 DEF ViewRight

\* What the countdowns do is what timers do.
LEMMA TimersMove ==
  ASSUME ViewRight, ViewRight', Clean, Clean', Shows
  PROVE  TimersStep
<1>1. Timeout \in Nat /\ NULL \notin Nat
  BY WheelConstants
<1>2. ASSUME NEW f \in Fds, IsConn(f)
      PROVE  /\ Silence(f) \in Nat /\ Shown[f] = Timeout + 1 - Silence(f) /\ Shown[f] # NULL
             /\ Timeout + 1 - Silence(f) = 1 <=> Silence(f) = Timeout
  <2>1. Shown[f] = Timeout + 1 - Silence(f) /\ Silence(f) \in Nat /\ Silence(f) <= Timeout
    BY <1>2 DEF ViewRight, View
  <2>2. Timeout + 1 - Silence(f) \in Nat
    BY <1>1, <2>1
  <2>. QED BY <1>1, <2>1, <2>2
<1>3. \A f \in Fds : ~IsConn(f) => Shown[f] = NULL
  BY DEF Shown
<1>4. \A f \in Fds : Shown'[f] = IF IsConn(f)' THEN Timeout + 1 - Silence(f)' ELSE NULL
  BY DEF ViewRight, View
<1>5. Shown = [f \in Fds |-> Shown[f]] /\ Shown' = [f \in Fds |-> Shown'[f]]
  BY DEF Shown
<1>6. ASSUME NEW g \in Fds, Unmoved(g) PROVE Shown'[g] = Shown[g]
  BY <1>2, <1>3, <1>4, <1>6 DEF Unmoved
<1>7. ASSUME NEW f \in Fds, Renews(f) PROVE Shown' = [Shown EXCEPT ![f] = Timeout + 1]
  <2>1. Shown'[f] = Timeout + 1
    BY <1>1, <1>4, <1>7 DEF Renews
  <2>2. \A g \in Fds : g # f => Shown'[g] = Shown[g]
    BY <1>6, <1>7 DEF Renews
  <2>. QED BY <1>5, <2>1, <2>2
<1>8. ASSUME NEW f \in Fds, Expires(f) PROVE Shown[f] = 1 /\ Shown' = [Shown EXCEPT ![f] = NULL]
  <2>1. Shown[f] = 1
    BY <1>2, <1>8 DEF Expires
  <2>2. Shown'[f] = NULL
    BY <1>4, <1>8 DEF Expires
  <2>3. \A g \in Fds : g # f => Shown'[g] = Shown[g]
    BY <1>6, <1>8 DEF Expires
  <2>. QED BY <1>5, <2>1, <2>2, <2>3
<1>9. ASSUME Advances
      PROVE  /\ \A f \in Fds : Shown[f] # 1
             /\ Shown' = [f \in Fds |-> IF Shown[f] = NULL THEN NULL ELSE Shown[f] - 1]
  <2>1. ASSUME NEW f \in Fds, IsConn(f)
        PROVE  Shown[f] # 1 /\ Shown[f] # NULL /\ Shown'[f] = Shown[f] - 1
    <3>1. Silence(f) # Timeout /\ Silence(f)' = Silence(f) + 1 /\ IsConn(f)'
      BY <1>9, <2>1 DEF Advances
    <3>2. Shown'[f] = Timeout + 1 - (Silence(f) + 1)
      BY <1>4, <3>1
    <3>. QED BY <1>1, <1>2, <2>1, <3>1, <3>2
  <2>2. ASSUME NEW f \in Fds, ~IsConn(f) PROVE Shown[f] # 1 /\ Shown[f] = NULL /\ Shown'[f] = NULL
    BY <1>1, <1>3, <1>4, <1>9, <2>2 DEF Advances
  <2>. QED BY <1>5, <2>1, <2>2
<1>10. ASSUME NEW f \in Fds, Renews(f)
       PROVE  /\ IsConn(f) => TimersOf!Refresh(f)
              /\ ~IsConn(f) => TimersOf!Add(f)
  <2>1. IsConn(f) => Shown[f] # NULL
    BY <1>2
  <2>2. ~IsConn(f) => Shown[f] = NULL
    BY <1>3
  <2>3. Shown' = [Shown EXCEPT ![f] = Timeout + 1]
    BY <1>7, <1>10
  <2>4. (TimersOf!Refresh(f) <=> Shown[f] # NULL /\ Shown' = [Shown EXCEPT ![f] = Timeout + 1])
        /\ (TimersOf!Add(f) <=> Shown[f] = NULL /\ Shown' = [Shown EXCEPT ![f] = Timeout + 1])
    BY DEF TimersOf!Refresh, TimersOf!Add, Shown
  <2>. QED BY <2>1, <2>2, <2>3, <2>4
<1>11. ASSUME NEW f \in Fds, Expires(f) PROVE TimersOf!Expire(f)
  <2>1. TimersOf!Expire(f) <=> Shown[f] = 1 /\ Shown' = [Shown EXCEPT ![f] = NULL]
    BY DEF TimersOf!Expire, Shown
  <2>. QED BY <1>8, <1>11, <2>1
<1>12. ASSUME Advances PROVE TimersOf!Tick
  <2>1. TimersOf!Tick <=>
          /\ \A f \in Fds : Shown[f] # 1
          /\ Shown' = [f \in Fds |-> IF Shown[f] = NULL THEN NULL ELSE Shown[f] - 1]
    BY DEF TimersOf!Tick, Shown
  <2>. QED BY <1>9, <1>12, <2>1
<1>13. ASSUME \A g \in Fds : Unmoved(g) PROVE UNCHANGED TimersOf!vars
  <2>1. Shown' = Shown
    BY <1>5, <1>6, <1>13
  <2>2. UNCHANGED TimersOf!vars <=> Shown' = Shown
    BY DEF TimersOf!vars, Shown
  <2>. QED BY <2>1, <2>2
<1>14. [TimersOf!Next]_(TimersOf!vars)
  <2>1. CASE \A g \in Fds : Unmoved(g)
    BY <1>13, <2>1
  <2>2. CASE \E f \in Fds : Renews(f) \/ Expires(f)
    BY <1>10, <1>11, <2>2 DEF TimersOf!Next
  <2>3. CASE Advances
    BY <1>12, <2>3 DEF TimersOf!Next
  <2>. QED BY <2>1, <2>2, <2>3 DEF Shows
<1>15. \A f \in Fds : Command(f) => TimersOf!Refresh(f)
  BY <1>10 DEF Shows
<1>16. pc # "wait" /\ pc' = "wait" => TimersOf!Tick
  BY <1>12 DEF Shows
<1>. QED BY <1>14, <1>15, <1>16 DEF TimersStep

\* As long as no client has hung up or asked for a transfer, and the workers hold few numbers
\* at once (32 at most), the lists and the hash table of the wheel are one countdown per connection (timeWheel.c, tick's loop and the calls in
\* main.c and bussiness.c): accept starts it, a command with a content starts it again, a tick
\* closes the connections whose countdown is over, exactly those, and brings the others down.
THEOREM TimersImplemented ==
  ASSUME NEW low \in Nat, NEW high \in Nat, Fds = low..high
  PROVE  Spec => ImplementsTimers
<1>1. Init => WholeInv(low)
  BY WholeInvariant
<1>2. WholeInv(low) /\ [Next]_vars => WholeInv(low)'
  BY WholeInvariant
<1>3. Init => TimersOf!Init
  <2>1. Init => \A f \in Fds : ~IsConn(f)
    BY DEF Init, IsConn, Open
  <2>2. Init => Shown = [f \in Fds |-> NULL]
    BY <2>1 DEF Shown
  <2>. QED BY <2>2 DEF TimersOf!Init, Shown
<1>4. WholeInv(low) => ViewRight
  BY ViewIsRight DEF WholeInv
<1>5. WholeInv(low) /\ ViewRight /\ ViewRight' /\ [Next]_vars
        => [hangups' = 0 /\ started' = 0 /\ FewHeld' => TimersStep]_vars
  <2>. SUFFICES ASSUME WholeInv(low), ViewRight, ViewRight', [Next]_vars, Clean' PROVE TimersStep
    BY DEF Clean
  <2>1. Clean /\ Shows
    BY Counters, CleanStep DEF WholeInv
  <2>. QED BY <2>1, TimersMove
<1>. QED BY <1>1, <1>2, <1>3, <1>4, <1>5, PTL DEF Spec, ImplementsTimers
===============================================================================
