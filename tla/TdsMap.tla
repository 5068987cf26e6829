------------------------------- MODULE TdsMap -------------------------------
(***************************************************************************)
(* The containers of tinycsocket.h: the unordered list (TdsUList), an      *)
(* array that grows and shrinks by realloc, and the map (TdsMap), a list   *)
(* of keys and a list of values with one count and one capacity for both.  *)
(*                                                                         *)
(* A list is the sequence of the elements its block has room for; its      *)
(* recorded capacity may differ from that room.  An operation is the set   *)
(* of its outcomes, since each realloc may fail; sts is what it returns.   *)
(***************************************************************************)
EXTENDS Integers, Sequences

CONSTANTS
  MinCapacity,   \* MINIMUM_CAPACITY, 8 in the code
  GrowFails,     \* realloc to a larger block may fail
  ShrinkFails,   \* realloc to a smaller block may fail
  Zero           \* an element of a fresh block, zeroed by memset

ASSUME MapAssumption ==
  MinCapacity \in Nat \ {0} /\ GrowFails \in BOOLEAN /\ ShrinkFails \in BOOLEAN

\* The capacity after k turns of the loop that looks for one.
Doubled[k \in Nat] == IF k = 0 THEN MinCapacity ELSE Doubled[k - 1] * 2

\* The first of them that holds n, unless that is just half of the old one.
BestCapacityFit(old, n) ==
  LET c == CHOOSE c \in {Doubled[k] : k \in 0 .. n} :
             c >= n /\ \A k \in 0 .. n : Doubled[k] >= n => c <= Doubled[k]
  IN  IF c * 2 = old THEN old ELSE c

Block(data, kept, c) ==
  [i \in 1 .. c |-> IF i <= kept /\ i <= Len(data) THEN data[i] ELSE Zero]

Outcome(sts, data, count, capacity) ==
  [sts |-> sts, data |-> data, count |-> count, capacity |-> capacity]

Reserve(data, count, capacity, n) ==
  LET c == BestCapacityFit(capacity, n)
      fails == IF c > capacity THEN GrowFails ELSE ShrinkFails
  IN  IF c = capacity THEN {Outcome(0, data, count, capacity)}
      ELSE {Outcome(0, Block(data, capacity, c), count, c)}
             \cup IF fails THEN {Outcome(-1, data, count, capacity)} ELSE {}

\* One element; past the block the bytes go to somebody else's memory.
Add(data, count, capacity, x) ==
  LET room == IF count + 1 > capacity
                THEN Reserve(data, count, capacity, count + 1)
                ELSE {Outcome(0, data, count, capacity)}
  IN  {IF r.sts # 0 THEN r
       ELSE Outcome(0, IF count < Len(r.data) THEN [r.data EXCEPT ![count + 1] = x]
                                              ELSE r.data, count + 1, r.capacity)
         : r \in room}

\* Bug: the hole is closed by moving everything down, in one list only.
RemoveShift(data, count, capacity, from) ==
  {Outcome(0, [i \in 1 .. Len(data) |->
                 IF i > from /\ i < count THEN data[i + 1] ELSE data[i]],
           count - 1, capacity)}

\* One element, in whose place the last one goes; from counts from 0.
Remove(data, count, capacity, from) ==
  IF from >= count THEN {Outcome(-1, data, count, capacity)}
  ELSE LET moved == [data EXCEPT ![from + 1] = data[count]]
       IN  IF count - 1 < capacity \div 2
             THEN Reserve(moved, count - 1, capacity, count - 1)
             ELSE {Outcome(0, moved, count - 1, capacity)}

(***************************************************************************)
(* The map.  Each operation works on copies of count and capacity, one per *)
(* list, and stores one of them in the end.                                *)
(***************************************************************************)
Map(keys, values, count, capacity) ==
  [keys |-> keys, values |-> values, count |-> count, capacity |-> capacity]

NoMap == Map(<<>>, <<>>, 0, 0)

\* Both lists are made before either result is looked at.
MapCreate ==
  LET made == Reserve(<<>>, 0, 0, 1) IN
  {IF k.sts = 0 /\ v.sts = 0
     THEN [sts |-> 0, map |-> Map(k.data, v.data, 0, k.capacity)]
     ELSE [sts |-> -1, map |-> NoMap] : k \in made, v \in made}

MapDestroy(m) == NoMap

\* Bug: when one list could not grow, the other's new capacity is stored.
MapAddKeepsCapacity(m, key, value) ==
  {LET ok == k.sts = 0 /\ v.sts = 0 IN
   [sts |-> IF ok THEN 0 ELSE -1,
    map |-> Map(k.data, v.data, IF ok THEN m.count + 1 ELSE m.count,
                IF k.sts = 0 THEN k.capacity ELSE v.capacity)]
     : k \in Add(m.keys, m.count, m.capacity, key),
       v \in Add(m.values, m.count, m.capacity, value)}

\* When one list could not grow, count and capacity stay.
MapAdd(m, key, value) ==
  {LET ok == k.sts = 0 /\ v.sts = 0 IN
   [sts |-> IF ok THEN 0 ELSE -1,
    map |-> Map(k.data, v.data, IF ok THEN m.count + 1 ELSE m.count,
                IF ok THEN k.capacity ELSE m.capacity)]
     : k \in Add(m.keys, m.count, m.capacity, key),
       v \in Add(m.values, m.count, m.capacity, value)}

\* Bug: the values are shifted, the keys swapped.
MapRemoveShift(m, i) ==
  {[sts |-> 0, map |-> Map(k.data, v.data, k.count, m.capacity)]
     : k \in {x \in Remove(m.keys, m.count, m.capacity, i) : x.capacity = m.capacity},
       v \in RemoveShift(m.values, m.count, m.capacity, i)}

\* When one list could not shrink, both have moved their last element.
MapRemove(m, i) ==
  IF i >= m.count THEN {[sts |-> -1, map |-> m]}
  ELSE {LET ok == k.sts = 0 /\ v.sts = 0 IN
        [sts |-> IF ok THEN 0 ELSE -2,
         map |-> Map(k.data, v.data, IF ok THEN k.count ELSE m.count,
                     IF ok THEN k.capacity ELSE m.capacity)]
          : k \in Remove(m.keys, m.count, m.capacity, i),
            v \in Remove(m.values, m.count, m.capacity, i)}
=============================================================================
