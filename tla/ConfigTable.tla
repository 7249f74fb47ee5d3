------------------------------- MODULE ConfigTable -------------------------------
(***************************************************************************)
(* The hash table of the configuration (server/hashtable.c) with open      *)
(* addressing and linear probing, filled by readConfig (server/config.c).  *)
(*                                                                         *)
(* A slot is [key |-> , value |-> ]; EMPTY is the NULL value of a free     *)
(* one.  erase clears the key as well.  Bounds: MaxOps operations; the     *)
(* table never fills (a full one makes the probing of insert endless).     *)
(***************************************************************************)
EXTENDS Integers, FiniteSets

CONSTANTS MAX_SIZE, Keys, Values, EMPTY, NoKey,
          hash,         \* [Keys -> 0..(MAX_SIZE - 1)]
          MaxOps

ASSUME ConfigTableAssumption ==
  /\ MAX_SIZE \in Nat \ {0} /\ EMPTY \notin Values /\ NoKey \notin Keys
  /\ hash \in [Keys -> 0..(MAX_SIZE - 1)] /\ MaxOps \in Nat

VARIABLES
  table, size,
  pc, index, key, value,  \* the operation in progress and its locals
  config,                 \* history: the value each key was given last, or EMPTY
  distinct,               \* history: so far no key was repeated, and none erased
  ops

tableVars == <<table, size, pc, index, key, value, config, distinct, ops>>

Free == [key |-> NoKey, value |-> EMPTY]
Next1(i) == (i + 1) % MAX_SIZE

TableInit ==
  /\ table = [i \in 0..(MAX_SIZE - 1) |-> Free] /\ size = 0
  /\ pc = "ready" /\ index = 0 /\ key = NoKey /\ value = EMPTY
  /\ config = [k \in Keys |-> EMPTY] /\ distinct = TRUE
  /\ ops = 0

Begin(op, k, v) ==
  /\ pc = "ready" /\ ops < MaxOps
  /\ pc' = op /\ key' = k /\ value' = v /\ index' = hash[k]
  /\ ops' = ops + 1
  /\ UNCHANGED <<table, size, config>>

End ==
  /\ pc' = "ready" /\ index' = 0 /\ key' = NoKey /\ value' = EMPTY
  /\ UNCHANGED <<distinct, ops>>

-------------------------------------------------------------------------------
(* insert *)

InsertBegin(k, v) ==
  /\ size < MAX_SIZE - 1
  /\ distinct' = (distinct /\ config[k] = EMPTY)
  /\ Begin("insert", k, v)

\* The slot is taken: the NEXT one is compared with the key, this one never was.
InsertProbe ==
  /\ pc = "insert" /\ table[index].value # EMPTY
  /\ table[Next1(index)].key # key
  /\ index' = Next1(index)
  /\ UNCHANGED <<table, size, pc, key, value, config, distinct, ops>>

InsertUpdate ==
  /\ pc = "insert" /\ table[index].value # EMPTY
  /\ table[Next1(index)].key = key
  /\ table' = [table EXCEPT ![Next1(index)].value = value]
  /\ config' = [config EXCEPT ![key] = value]
  /\ End
  /\ UNCHANGED size

\* Mutant of InsertNew: a collision ends the probing.
InsertNewOver ==
  /\ pc = "insert"
  /\ table' = [table EXCEPT ![index] = [key |-> key, value |-> value]]
  /\ size' = size + 1
  /\ config' = [config EXCEPT ![key] = value]
  /\ End

InsertNew ==
  /\ pc = "insert" /\ table[index].value = EMPTY
  /\ table' = [table EXCEPT ![index] = [key |-> key, value |-> value]]
  /\ size' = size + 1
  /\ config' = [config EXCEPT ![key] = value]
  /\ End

-------------------------------------------------------------------------------
(* erase *)

EraseBegin(k) == distinct' = FALSE /\ Begin("erase", k, EMPTY)

EraseProbe ==
  /\ pc = "erase" /\ table[index].value # EMPTY /\ table[index].key # key
  /\ index' = Next1(index)
  /\ UNCHANGED <<table, size, pc, key, value, config, distinct, ops>>

\* Mutant of EraseEnd: size is left alone.
EraseKeepsSize ==
  /\ pc = "erase"
  /\ table[index].value = EMPTY \/ table[index].key = key
  /\ table' = [table EXCEPT ![index] = Free]
  /\ config' = [config EXCEPT ![key] = EMPTY]
  /\ End
  /\ UNCHANGED size

EraseEnd ==
  /\ pc = "erase"
  /\ \/ /\ table[index].value = EMPTY
        /\ UNCHANGED <<table, size>>
     \/ /\ table[index].value # EMPTY /\ table[index].key = key
        /\ table' = [table EXCEPT ![index] = Free]
        /\ size' = size - 1
  /\ config' = [config EXCEPT ![key] = EMPTY]
  /\ End

-------------------------------------------------------------------------------
\* find: the first slot from the key's own that is free or has the key.  The
\* table is never full, so that there is one.
Slot(k, d) == (hash[k] + d) % MAX_SIZE
find(k) ==
  LET Stops(d) == table[Slot(k, d)].value = EMPTY \/ table[Slot(k, d)].key = k
      d == CHOOSE d \in 0..(MAX_SIZE - 1) : Stops(d) /\ \A e \in 0..(d - 1) : ~Stops(e)
  IN  table[Slot(k, d)].value

TableDone == pc = "ready" /\ (ops = MaxOps \/ size >= MAX_SIZE - 1) /\ UNCHANGED tableVars

TableNext ==
  \/ \E k \in Keys, v \in Values : InsertBegin(k, v)
  \/ InsertProbe \/ InsertUpdate \/ InsertNew
  \/ \E k \in Keys : EraseBegin(k)
  \/ EraseProbe \/ EraseEnd
  \/ TableDone

TableSpec == TableInit /\ [][TableNext]_tableVars

-------------------------------------------------------------------------------
(* Correctness *)

\* Between operations, find answers with what the key was given last: hashtable.c:28
\* "if the key exists, update the value", 51 "delete the pair".  It fails when a
\* key is repeated that is in its own slot, or one is erased before others that it
\* displaced.
FindsLast == pc = "ready" => \A k \in Keys : find(k) = config[k]

\* It holds while no line of the file repeats a key, whatever collides
\* with whatever, at the wrap-around too.
FindsDistinct == distinct => FindsLast

\* size is the number of slots in use, through collisions, updates and erasures.
SizeIsExact == size = Cardinality({ i \in DOMAIN table : table[i].value # EMPTY })

\* Together: the table answers right and counts right.
TableInv == FindsDistinct /\ SizeIsExact
===============================================================================
