----------------------- MODULE ExtremeReductionProofs -----------------------
(***************************************************************************)
(* That ExecuteExtremeReduced answers with the extreme of the column over  *)
(* the join, that what it keeps of a relation is its semi join, and that   *)
(* its teams are joined: for every acyclic join graph and every tables.    *)
(*                                                                         *)
(* The argument, from the bottom up.  A key set is sound when every key in *)
(* it is reachable from its own slot over filled slots, is there once, and *)
(* is counted, and the count is less than the slots; then a slot is free,  *)
(* every probe ends, and it ends at the key if the key is there.  Put and  *)
(* Grow keep a set sound.  A tree is rooted when each relation but the     *)
(* first hangs below an earlier one by a predicate of its own; there are   *)
(* as many predicates as relations to hang, so all are used, and a tuple   *)
(* satisfies the predicates when it does along the tree.  A row is kept    *)
(* when every child holds its key, and a relation above the line remaining *)
(* draws holds the keys of the rows it keeps: so, bottom up, the rows of a *)
(* tuple are all kept, and, top down, a kept row extends to a tuple.  What *)
(* a worker has behind it, and what waits in the buckets, account for the  *)
(* kept rows of the relation being read, until the team is joined.         *)
(*                                                                         *)
(* Inductions are by a least counterexample, over a number.                *)
(***************************************************************************)
EXTENDS ExtremeReduction, FiniteSetTheorems, WellFoundedInduction, NaturalsInduction, TLAPS

(* What a quotient and a remainder are. *)
LEMMA DivMod ==
  ASSUME NEW n \in Int, NEW m \in Nat \ {0}
  PROVE  /\ n \div m \in Int /\ n % m \in 0 .. m - 1
         /\ n = m * (n \div m) + (n % m)
OBVIOUS

(* A product grows with its factor. *)
LEMMA ProductMonotonic ==
  ASSUME NEW a \in Int, NEW b \in Int, NEW m \in Nat, a <= b
  PROVE  m * a <= m * b
OBVIOUS

(* A number has one quotient and one remainder. *)
LEMMA DivisionUnique ==
  ASSUME NEW m \in Nat \ {0}, NEW q \in Int, NEW p \in Int,
         NEW r \in 0 .. m - 1, NEW s \in 0 .. m - 1,
         m * q + r = m * p + s
  PROVE  q = p /\ r = s
<1>1. m * q \in Int /\ m * p \in Int /\ m * (p - q) \in Int
  OBVIOUS
<1>2. m * (p - q) = r - s
  <2>1. m * (p - q) = m * p - m * q OBVIOUS
  <2> QED BY <1>1, <2>1
<1>3. ~(p - q >= 1)
  <2> SUFFICES ASSUME p - q >= 1 PROVE FALSE OBVIOUS
  <2>1. m * 1 <= m * (p - q) BY ProductMonotonic
  <2> QED BY <2>1, <1>2, <1>1
<1>4. ~(p - q <= -1)
  <2> SUFFICES ASSUME p - q <= -1 PROVE FALSE OBVIOUS
  <2>1. m * (p - q) <= m * (-1) BY ProductMonotonic
  <2> QED BY <2>1, <1>2, <1>1
<1> QED BY <1>3, <1>4, <1>1

(* Any such pair is the quotient and the remainder. *)
LEMMA DivisionIs ==
  ASSUME NEW n \in Int, NEW m \in Nat \ {0}, NEW q \in Int, NEW r \in 0 .. m - 1,
         n = m * q + r
  PROVE  n \div m = q /\ n % m = r
BY DivMod, DivisionUnique

-----------------------------------------------------------------------------
(* A set of numbers that is not empty has a least one.                     *)
LEMMA LeastOf ==
  ASSUME NEW T \in SUBSET Nat, T # {}
  PROVE  \E n \in T : \A m \in T : n <= m
<1>1. PICK n \in T : \A m \in T : ~(<<m, n>> \in OpToRel(<, Nat))
  BY WFMin, NatLessThanWellFounded
<1>2. \A m \in T : ~(m < n) BY <1>1 DEF OpToRel
<1> QED BY <1>2

(* Min picks it.                                                           *)
LEMMA MinOf ==
  ASSUME NEW T \in SUBSET Nat, T # {}
  PROVE  Min(T) \in T /\ \A m \in T : Min(T) <= m
BY LeastOf DEF Min

(* What a key set may look like.                                           *)
KeySets == [slots : Seq(Values), count : Nat, hasEmpty : BOOLEAN]

Filled(set) == {i \in DOMAIN set.slots : set.slots[i] # Empty}
Stored(set) == {set.slots[i] : i \in Filled(set)}
Members(set) == Stored(set) \cup (IF set.hasEmpty THEN {Empty} ELSE {})

SlotAt(set, key, d) == ((Slot[key] + d) % Capacity(set)) + 1

Reached(set, i) ==
  \E d \in 0 .. Capacity(set) - 1 :
    /\ SlotAt(set, set.slots[i], d) = i
    /\ \A e \in 0 .. d - 1 : set.slots[SlotAt(set, set.slots[i], e)] # Empty

SoundSet(set) ==
  /\ set \in KeySets
  /\ \A i, j \in Filled(set) : set.slots[i] = set.slots[j] => i = j
  /\ \A i \in Filled(set) : Reached(set, i)
  /\ set.count = Cardinality(Stored(set))
  /\ Capacity(set) > 0 => set.count < Capacity(set)

(* What a sound set is made of.                                            *)
LEMMA SetShape ==
  ASSUME NEW set, SoundSet(set)
  PROVE  /\ Capacity(set) \in Nat /\ DOMAIN set.slots = 1 .. Capacity(set)
         /\ \A i \in 1 .. Capacity(set) : set.slots[i] \in Values
         /\ Filled(set) \subseteq 1 .. Capacity(set)
         /\ Stored(set) \subseteq Values \ {Empty}
         /\ IsFiniteSet(Stored(set)) /\ Cardinality(Stored(set)) \in Nat
<1>1. /\ Capacity(set) \in Nat /\ DOMAIN set.slots = 1 .. Capacity(set)
      /\ \A i \in 1 .. Capacity(set) : set.slots[i] \in Values
  BY DEF SoundSet, KeySets, Capacity
<1>2. Filled(set) \subseteq 1 .. Capacity(set) BY <1>1 DEF Filled
<1>3. Stored(set) \subseteq Values \ {Empty} BY <1>1 DEF Stored, Filled
<1>4. IsFiniteSet(Stored(set)) BY <1>3, FS_Subset, ValuesAssumption
<1> QED BY <1>1, <1>2, <1>3, <1>4, FS_CardinalityType

(* A slot some distance from a key's own is a slot of the table.           *)
LEMMA SlotAtIs ==
  ASSUME NEW set, Capacity(set) \in Nat \ {0}, NEW key \in Values, NEW d \in Nat
  PROVE  /\ SlotAt(set, key, d) \in 1 .. Capacity(set)
         /\ At(set, Slot[key] + d) = set.slots[SlotAt(set, key, d)]
<1>1. Slot[key] \in Nat BY HashAssumption
<1> DEFINE n == Slot[key] + d  m == Capacity(set)
<1>2. n \in Int /\ m \in Nat \ {0} BY <1>1
<1> HIDE DEF n, m
<1>3. n % m \in 0 .. m - 1 BY <1>2, DivMod
<1>4. (n % m) + 1 \in 1 .. m BY <1>2, <1>3
<1> QED BY <1>4 DEF n, m, SlotAt, At

(* Every slot is some distance from a key's own.                           *)
LEMMA SlotHit ==
  ASSUME NEW set, Capacity(set) \in Nat \ {0}, NEW key \in Values, NEW i \in 1 .. Capacity(set)
  PROVE  \E d \in 0 .. Capacity(set) - 1 : SlotAt(set, key, d) = i
<1> DEFINE h == Slot[key]
           m == Capacity(set)
           n == i - 1 - h
           d == n % m
           q == n \div m
<1>1. h \in Nat /\ m \in Nat \ {0} /\ i \in 1 .. m BY HashAssumption
<1>2. n \in Int BY <1>1
<1> HIDE DEF h, m
<1>3. d \in 0 .. m - 1 /\ q \in Int /\ n = m * q + d BY <1>1, <1>2, DivMod
<1> HIDE DEF d, q
<1>4. h + d = m * (-q) + (i - 1) BY <1>1, <1>3
<1> DEFINE x == h + d  p == -q  r == i - 1
<1>5. x \in Int /\ p \in Int /\ r \in 0 .. m - 1 /\ x = m * p + r BY <1>1, <1>3, <1>4
<1> HIDE DEF x, p, r
<1>6. x % m = r BY <1>1, <1>5, DivisionIs
<1>7. SlotAt(set, key, d) = i BY <1>1, <1>6 DEF SlotAt, h, m, x, r
<1> QED BY <1>3, <1>7 DEF m

(* A table with room has an empty slot: its keys are in different slots,   *)
(* and fewer than the slots.                                               *)
LEMMA FreeSlot ==
  ASSUME NEW set, SoundSet(set), Capacity(set) # 0
  PROVE  \E i \in 1 .. Capacity(set) : set.slots[i] = Empty
<1> SUFFICES ASSUME \A i \in 1 .. Capacity(set) : set.slots[i] # Empty PROVE FALSE
  OBVIOUS
<1> DEFINE S == 1 .. Capacity(set)
           f == [i \in S |-> set.slots[i]]
<1>1. Capacity(set) \in Nat /\ S = Filled(set) BY SetShape DEF Filled
<1>2. f \in [S -> Stored(set)] BY <1>1 DEF Stored
<1>3. IsFiniteSet(S) /\ Cardinality(S) = Capacity(set) BY <1>1, FS_Interval
<1>4. IsFiniteSet(Stored(set)) /\ Cardinality(Stored(set)) < Cardinality(S)
  BY <1>1, <1>3, SetShape DEF SoundSet
<1>5. PICK x \in S, y \in S : x # y /\ f[x] = f[y]
  <2> HIDE DEF S, f
  <2> QED BY <1>2, <1>3, <1>4, FS_PigeonHole
<1> QED BY <1>1, <1>5 DEF SoundSet

(* The slot a probe ends at.                                               *)
LEMMA ProbeFinds ==
  ASSUME NEW set, SoundSet(set), Capacity(set) # 0, NEW key \in Values, key # Empty
  PROVE  LET p == Probe(set, key)
         IN  /\ p \in 1 .. Capacity(set)
             /\ set.slots[p] \in {key, Empty}
             /\ set.slots[p] = key <=> key \in Stored(set)
             /\ \E d \in 0 .. Capacity(set) - 1 :
                  /\ SlotAt(set, key, d) = p
                  /\ \A e \in 0 .. d - 1 : set.slots[SlotAt(set, key, e)] # Empty
<1> DEFINE steps == {d \in 0 .. Capacity(set) - 1 : At(set, Slot[key] + d) \in {key, Empty}}
           d == Min(steps)
           p == Probe(set, key)
<1>1. Capacity(set) \in Nat \ {0} BY SetShape
<1>2. steps # {}
  <2>1. PICK i \in 1 .. Capacity(set) : set.slots[i] = Empty BY FreeSlot
  <2>2. PICK e \in 0 .. Capacity(set) - 1 : SlotAt(set, key, e) = i BY <1>1, SlotHit
  <2>3. At(set, Slot[key] + e) = Empty BY <1>1, <2>1, <2>2, SlotAtIs
  <2> QED BY <2>3
<1>3. d \in steps /\ \A e \in steps : d <= e
  <2>1. steps \in SUBSET Nat BY <1>1
  <2> HIDE DEF steps
  <2> QED BY <1>2, <2>1, MinOf
<1>4. p = SlotAt(set, key, d) BY DEF Probe, SlotAt
<1> HIDE DEF d
<1>5. d \in 0 .. Capacity(set) - 1 /\ At(set, Slot[key] + d) \in {key, Empty} BY <1>3
<1>6. p \in 1 .. Capacity(set) /\ set.slots[p] \in {key, Empty} BY <1>1, <1>4, <1>5, SlotAtIs
<1>7. \A e \in 0 .. d - 1 : set.slots[SlotAt(set, key, e)] \notin {key, Empty}
  <2> TAKE e \in 0 .. d - 1
  <2>1. e \in 0 .. Capacity(set) - 1 /\ ~(d <= e) BY <1>1, <1>5
  <2>2. e \notin steps BY <1>3, <2>1
  <2>3. At(set, Slot[key] + e) \notin {key, Empty} BY <2>1, <2>2
  <2> QED BY <1>1, <2>1, <2>3, SlotAtIs
<1>8. set.slots[p] = key => key \in Stored(set) BY <1>6, SetShape DEF Stored, Filled
<1>9. key \in Stored(set) => set.slots[p] = key
  <2> SUFFICES ASSUME key \in Stored(set), set.slots[p] = Empty PROVE FALSE BY <1>6
  <2>1. PICK i \in Filled(set) : set.slots[i] = key BY DEF Stored
  <2>2. PICK c \in 0 .. Capacity(set) - 1 :
          /\ SlotAt(set, key, c) = i
          /\ \A e \in 0 .. c - 1 : set.slots[SlotAt(set, key, e)] # Empty
    BY <2>1 DEF SoundSet, Reached
  <2>3. ~(d < c) BY <1>1, <1>4, <1>5, <2>2
  <2>4. c \in steps BY <1>1, <2>1, <2>2, SlotAtIs
  <2>5. c = d BY <1>1, <1>3, <1>5, <2>3, <2>4
  <2> QED BY <1>4, <2>1, <2>2, <2>5
<1> HIDE DEF p
<1> QED BY <1>4, <1>5, <1>6, <1>7, <1>8, <1>9 DEF p

(* A key is found exactly when it was put, the one that looks like an      *)
(* empty slot included.                                                    *)
LEMMA ContainsIs ==
  ASSUME NEW set, SoundSet(set), NEW key \in Values
  PROVE  KeySetContains(set, key) <=> key \in Members(set)
<1>1. CASE key = Empty
  BY <1>1, SetShape DEF KeySetContains, Members
<1>2. CASE key # Empty /\ set.count = 0
  <2>1. Stored(set) = {} BY <1>2, SetShape, FS_EmptySet DEF SoundSet
  <2> QED BY <1>2, <2>1 DEF KeySetContains, Members
<1>3. CASE key # Empty /\ set.count # 0
  <2>1. Capacity(set) # 0
    <3> SUFFICES ASSUME Capacity(set) = 0 PROVE FALSE OBVIOUS
    <3>1. Filled(set) = {} BY SetShape
    <3>2. Stored(set) = {} BY <3>1 DEF Stored
    <3> QED BY <1>3, <3>2, FS_EmptySet DEF SoundSet
  <2>2. set.slots[Probe(set, key)] = key <=> key \in Stored(set) BY <1>3, <2>1, ProbeFinds
  <2> QED BY <1>3, <2>2 DEF KeySetContains, Members
<1> QED BY <1>1, <1>2, <1>3

(* Put adds the key and nothing else, and leaves every key where a probe   *)
(* finds it.                                                               *)
LEMMA PutKeeps ==
  ASSUME NEW set, SoundSet(set), NEW key \in Values, set.count + 1 < Capacity(set)
  PROVE  /\ SoundSet(Put(set, key))
         /\ Capacity(Put(set, key)) = Capacity(set)
         /\ Stored(Put(set, key)) = Stored(set) \cup ({key} \ {Empty})
         /\ Members(Put(set, key)) = Members(set) \cup {key}
<1> DEFINE p == Probe(set, key)
           new == Put(set, key)
           m == Capacity(set)
<1>1. set \in KeySets /\ m \in Nat /\ m # 0 BY SetShape DEF SoundSet, KeySets
<1>2. CASE key = Empty
  <2>1. new = [set EXCEPT !.hasEmpty = TRUE] BY <1>2 DEF Put
  <2>2. /\ new \in KeySets /\ new.slots = set.slots /\ new.count = set.count
        /\ new.hasEmpty = TRUE
    BY <1>1, <2>1 DEF KeySets
  <2> HIDE DEF new
  <2>3. Capacity(new) = m /\ Filled(new) = Filled(set) /\ Stored(new) = Stored(set)
    BY <2>2 DEF Capacity, Filled, Stored
  <2>4. \A i \in Filled(set) : Reached(new, i)
    BY <2>2 DEF SoundSet, Reached, SlotAt, Capacity
  <2>5. SoundSet(new) BY <2>2, <2>3, <2>4 DEF SoundSet
  <2> QED BY <1>2, <2>2, <2>3, <2>5 DEF Members, new
<1>3. CASE key # Empty
  <2>1. /\ p \in 1 .. m
        /\ set.slots[p] \in {key, Empty}
        /\ set.slots[p] = key <=> key \in Stored(set)
        /\ \E d \in 0 .. m - 1 :
              /\ SlotAt(set, key, d) = p
              /\ \A e \in 0 .. d - 1 : set.slots[SlotAt(set, key, e)] # Empty
    BY <1>1, <1>3, ProbeFinds
  <2>2. /\ new.slots = [set.slots EXCEPT ![p] = key]
        /\ new.count = IF set.slots[p] = Empty THEN set.count + 1 ELSE set.count
        /\ new.hasEmpty = set.hasEmpty
        /\ new \in KeySets
    <3>1. new = [set EXCEPT !.slots[p] = key,
                            !.count = IF set.slots[p] = Empty THEN set.count + 1 ELSE set.count]
      BY <1>1, <1>3 DEF Put, KeySets
    <3>2. [set.slots EXCEPT ![p] = key] \in Seq(Values)
      <4>1. set.slots \in Seq(Values) /\ m = Len(set.slots) BY <1>1 DEF KeySets, Capacity
      <4> HIDE DEF m, p
      <4> QED BY <2>1, <4>1
    <3> DEFINE slots == [set.slots EXCEPT ![p] = key]
               count == IF set.slots[p] = Empty THEN set.count + 1 ELSE set.count
    <3>3. slots \in Seq(Values) /\ count \in Nat BY <1>1, <3>2 DEF KeySets
    <3> HIDE DEF p, new, slots, count
    <3>4. new = [set EXCEPT !.slots = slots, !.count = count] BY <1>1, <3>1 DEF KeySets, slots, count
    <3>5. /\ new.slots = slots /\ new.count = count /\ new.hasEmpty = set.hasEmpty
          /\ new \in KeySets
      BY <1>1, <3>3, <3>4 DEF KeySets
    <3> QED BY <3>5 DEF slots, count
  <2> HIDE DEF p, new
  <2>3. DOMAIN set.slots = 1 .. m /\ DOMAIN new.slots = 1 .. m /\ Capacity(new) = m
    BY <1>1, <2>2, SetShape DEF Capacity, KeySets
  <2>4. Filled(new) = Filled(set) \cup {p}
    BY <1>3, <2>1, <2>2, <2>3 DEF Filled
  <2>5. \A i \in Filled(set) : new.slots[i] = set.slots[i]
    BY <1>3, <2>1, <2>2, <2>3 DEF Filled
  <2>6. new.slots[p] = key BY <2>1, <2>2, <2>3
  <2>7. Stored(new) = Stored(set) \cup {key} BY <2>4, <2>5, <2>6 DEF Stored
  <2>8. \A k \in Values, d \in Nat : SlotAt(new, k, d) = SlotAt(set, k, d) BY <2>3 DEF SlotAt
  <2>9. \A i, j \in Filled(new) : new.slots[i] = new.slots[j] => i = j
    <3>1. ASSUME NEW i \in Filled(set), set.slots[i] = key PROVE i = p
      <4>1. key \in Stored(set) BY <3>1 DEF Stored
      <4>2. set.slots[p] = key /\ p \in Filled(set) BY <1>3, <2>1, <2>3, <4>1 DEF Filled
      <4> QED BY <3>1, <4>2 DEF SoundSet
    <3> QED BY <2>4, <2>5, <2>6, <3>1 DEF SoundSet
  <2>10. \A i \in 1 .. m : set.slots[i] # Empty => new.slots[i] # Empty
    BY <1>3, <2>1, <2>2, <2>3
  <2>11. ASSUME NEW i \in Filled(new), NEW d \in 0 .. m - 1,
               SlotAt(set, new.slots[i], d) = i,
               \A e \in 0 .. d - 1 : set.slots[SlotAt(set, new.slots[i], e)] # Empty
         PROVE Reached(new, i)
    <3>1. new.slots[i] \in Values BY <2>2, <2>3, <2>4 DEF Filled, KeySets
    <3>2. SlotAt(new, new.slots[i], d) = i BY <1>1, <2>8, <2>11, <3>1
    <3>3. \A e \in 0 .. d - 1 : new.slots[SlotAt(new, new.slots[i], e)] # Empty
      <4> TAKE e \in 0 .. d - 1
      <4>1. e \in Nat BY <1>1
      <4>2. SlotAt(set, new.slots[i], e) \in 1 .. m BY <1>1, <3>1, <4>1, SlotAtIs
      <4> QED BY <2>8, <2>10, <2>11, <3>1, <4>1, <4>2
    <3> QED BY <2>3, <3>2, <3>3 DEF Reached
  <2>12. \A i \in Filled(new) : Reached(new, i)
    <3> TAKE i \in Filled(new)
    <3>1. CASE i \in Filled(set)
      <4>1. PICK d \in 0 .. m - 1 :
              /\ SlotAt(set, set.slots[i], d) = i
              /\ \A e \in 0 .. d - 1 : set.slots[SlotAt(set, set.slots[i], e)] # Empty
        BY <3>1 DEF SoundSet, Reached
      <4> QED BY <2>5, <2>11, <3>1, <4>1
    <3>2. CASE i = p
      <4> QED BY <2>1, <2>6, <2>11, <3>2
    <3> QED BY <2>4, <3>1, <3>2
  <2>13. new.count = Cardinality(Stored(new)) /\ new.count \in Nat /\ new.count < m
    <3>1. /\ set.count = Cardinality(Stored(set)) /\ set.count \in Nat
          /\ IsFiniteSet(Stored(set))
      BY SetShape DEF SoundSet
    <3>2. Cardinality(Stored(set) \cup {key})
            = IF key \in Stored(set) THEN Cardinality(Stored(set)) ELSE Cardinality(Stored(set)) + 1
      BY <3>1, FS_AddElement
    <3>3. set.slots[p] = Empty <=> key \notin Stored(set) BY <1>3, <2>1
    <3> QED BY <1>1, <2>2, <2>7, <3>1, <3>2, <3>3
  <2>14. SoundSet(new) BY <2>2, <2>3, <2>9, <2>12, <2>13 DEF SoundSet
  <2> QED BY <1>3, <2>2, <2>3, <2>7, <2>14 DEF Members, new
<1> QED BY <1>2, <1>3

(* A key moved into a grown table: what Grow does with one slot.           *)
Wanted(set) == IF Capacity(set) = 0 THEN FirstCapacity ELSE Capacity(set) * 2
Bare(set) == [NoKeys EXCEPT !.slots = [i \in 1 .. Wanted(set) |-> Empty]]
Moved(set, into, n) == IF set.slots[n] = Empty THEN into ELSE Put(into, set.slots[n])
Moves(set, g, last) ==
  g = [n \in 0 .. last |-> IF n = 0 THEN Bare(set) ELSE Moved(set, g[n - 1], n)]

(* The tables that growing goes through exist, one for each slot.          *)
LEMMA MovesExist ==
  ASSUME NEW set, Capacity(set) \in Nat
  PROVE  \E g : Moves(set, g, Capacity(set))
<1> DEFINE T == {last \in Nat : ~ \E g : Moves(set, g, last)}
<1> SUFFICES T = {} OBVIOUS
<1> SUFFICES ASSUME T # {} PROVE FALSE OBVIOUS
<1>1. PICK last \in T : \A m \in T : last <= m
  <2>1. T \in SUBSET Nat OBVIOUS
  <2> HIDE DEF T
  <2> QED BY <2>1, LeastOf
<1>2. last \in Nat /\ ~ \E g : Moves(set, g, last) BY <1>1
<1>3. CASE last = 0
  <2> DEFINE h == [n \in 0 .. 0 |-> Bare(set)]
  <2>1. h = [n \in 0 .. 0 |-> IF n = 0 THEN Bare(set) ELSE Moved(set, h[n - 1], n)] OBVIOUS
  <2>2. Moves(set, h, 0) BY <2>1, Zenon DEF Moves
  <2> QED BY <1>2, <1>3, <2>2
<1>4. CASE last # 0
  <2>1. last - 1 \in Nat /\ last - 1 \notin T BY <1>1, <1>2, <1>4
  <2>2. PICK g : Moves(set, g, last - 1) BY <2>1
  <2>3. \A n \in 0 .. last - 1 : g[n] = IF n = 0 THEN Bare(set) ELSE Moved(set, g[n - 1], n)
    BY <2>2 DEF Moves
  <2> DEFINE h == [n \in 0 .. last |-> IF n = last THEN Moved(set, g[last - 1], last) ELSE g[n]]
  <2>4. h = [n \in 0 .. last |-> IF n = 0 THEN Bare(set) ELSE Moved(set, h[n - 1], n)]
    <3>1. ASSUME NEW n \in 0 .. last
          PROVE  h[n] = IF n = 0 THEN Bare(set) ELSE Moved(set, h[n - 1], n)
      <4>1. CASE n = last BY <1>2, <1>4, <4>1
      <4>2. CASE n # last
        <5>1. n \in 0 .. last - 1 /\ h[n] = g[n] BY <1>2, <4>2
        <5>2. n # 0 => n - 1 \in 0 .. last /\ h[n - 1] = g[n - 1] BY <1>2, <4>2
        <5> QED BY <2>3, <5>1, <5>2
      <4> QED BY <4>1, <4>2
    <3> DEFINE k == [n \in 0 .. last |-> IF n = 0 THEN Bare(set) ELSE Moved(set, h[n - 1], n)]
    <3>2. \A n \in 0 .. last : h[n] = k[n] BY <3>1
    <3>3. h \in [0 .. last -> {h[n] : n \in 0 .. last}] /\ k \in [0 .. last -> {k[n] : n \in 0 .. last}]
      OBVIOUS
    <3> HIDE DEF h, k
    <3>4. h = k BY <3>2, <3>3
    <3> QED BY <3>4 DEF k
  <2>5. Moves(set, h, last) BY <2>4, Zenon DEF Moves
  <2> QED BY <1>2, <2>5
<1> QED BY <1>3, <1>4

(* Growing ends with the last of them.                                     *)
LEMMA GrowIs ==
  ASSUME NEW set, Capacity(set) \in Nat
  PROVE  \E g : /\ Moves(set, g, Capacity(set))
                /\ Grow(set) = [set EXCEPT !.slots = g[Capacity(set)].slots]
<1>1. PICK f : Moves(set, f, Capacity(set)) BY MovesExist
<1> QED BY <1>1, Zenon DEF Grow, Moves, Bare, Wanted, Moved

(* What growing has put after the first n slots.                           *)
Prefix(set, n) == {set.slots[i] : i \in {k \in Filled(set) : k <= n}}

(* Growing keeps the keys, wherever it moves them.                         *)
LEMMA GrowKeeps ==
  ASSUME NEW set, SoundSet(set)
  PROVE  /\ SoundSet(Grow(set))
         /\ Stored(Grow(set)) = Stored(set)
         /\ Members(Grow(set)) = Members(set)
<1> DEFINE m == Capacity(set)
           wanted == Wanted(set)
<1>1. /\ m \in Nat /\ set \in KeySets /\ wanted \in Nat /\ wanted > m /\ set.count < wanted
      /\ set.count = Cardinality(Stored(set))
  <2>1. m \in Nat /\ FirstCapacity \in Nat \ {0} BY SetShape, SizesAssumption
  <2>2. m = 0 => set.count = 0
    <3> SUFFICES ASSUME m = 0 PROVE set.count = 0 OBVIOUS
    <3>1. Filled(set) = {} BY SetShape
    <3>2. Stored(set) = {} BY <3>1 DEF Stored
    <3> QED BY <3>2, FS_EmptySet DEF SoundSet
  <2> QED BY <2>1, <2>2 DEF SoundSet, Wanted, KeySets
<1>2. PICK g : /\ Moves(set, g, m)
               /\ Grow(set) = [set EXCEPT !.slots = g[m].slots]
  BY <1>1, GrowIs
<1>3. g[0] = Bare(set) /\ \A n \in 1 .. m : g[n] = Moved(set, g[n - 1], n)
  <2> HIDE DEF m
  <2>1. g = [n \in 0 .. m |-> IF n = 0 THEN Bare(set) ELSE Moved(set, g[n - 1], n)]
    BY <1>2, Zenon DEF Moves
  <2>2. \A n \in 0 .. m : g[n] = IF n = 0 THEN Bare(set) ELSE Moved(set, g[n - 1], n)
    BY <2>1
  <2>3. 0 \in 0 .. m /\ \A n \in 1 .. m : n \in 0 .. m /\ n # 0 BY <1>1
  <2> QED BY <2>2, <2>3
<1> HIDE DEF wanted, m
<1> DEFINE Good(n) == /\ SoundSet(g[n]) /\ Capacity(g[n]) = wanted
                      /\ Stored(g[n]) = Prefix(set, n)
<1>4. Good(0)
  <2> DEFINE b == Bare(set)
             slots == [i \in 1 .. wanted |-> Empty]
  <2>1. b = [NoKeys EXCEPT !.slots = slots] BY Zenon DEF Bare, wanted
  <2>2. slots \in Seq(Values) /\ Len(slots) = wanted /\ DOMAIN slots = 1 .. wanted
    BY <1>1, ValuesAssumption
  <2>3. \A i \in 1 .. wanted : slots[i] = Empty OBVIOUS
  <2> HIDE DEF slots, b
  <2>4. b \in KeySets /\ b.slots = slots /\ b.count = 0
    <3>1. NoKeys \in KeySets /\ NoKeys.count = 0 BY DEF KeySets, NoKeys
    <3> QED BY <2>1, <2>2, <3>1 DEF KeySets
  <2>5. Capacity(b) = wanted /\ Filled(b) = {} /\ Stored(b) = {}
    BY <2>2, <2>3, <2>4 DEF Capacity, Filled, Stored
  <2>6. SoundSet(b) BY <1>1, <2>4, <2>5, FS_EmptySet DEF SoundSet
  <2>7. Prefix(set, 0) = {} BY <1>1, SetShape DEF Prefix
  <2> QED BY <1>3, <2>5, <2>6, <2>7 DEF b
<1>5. ASSUME NEW n \in 1 .. m, Good(n - 1) PROVE Good(n)
  <2> DEFINE key == set.slots[n]
  <2>1. n \in Nat /\ n - 1 \in Nat /\ key \in Values /\ DOMAIN set.slots = 1 .. m
    BY <1>1, SetShape DEF m
  <2>2. CASE key = Empty
    <3>1. Prefix(set, n) = Prefix(set, n - 1)
      BY <1>1, <2>1, <2>2, SetShape DEF Prefix, Filled
    <3>2. g[n] = g[n - 1] BY <1>3, <2>2 DEF Moved
    <3> QED BY <1>5, <3>1, <3>2
  <2>3. CASE key # Empty
    <3>1. g[n] = Put(g[n - 1], key) BY <1>3, <2>3 DEF Moved
    <3>2. n \in Filled(set) BY <2>1, <2>3 DEF Filled
    <3>3. Prefix(set, n) = Prefix(set, n - 1) \cup {key}
      <4>1. \A k \in Filled(set) : k \in Int /\ (k <= n <=> k <= n - 1 \/ k = n)
        BY <1>1, <2>1, SetShape
      <4> QED BY <2>1, <3>2, <4>1 DEF Prefix
    <3>4. key \notin Prefix(set, n - 1)
      <4> SUFFICES ASSUME NEW k \in Filled(set), k <= n - 1, set.slots[k] = key PROVE FALSE
        BY DEF Prefix
      <4>1. k = n BY <3>2 DEF SoundSet
      <4> QED BY <2>1, <4>1
    <3>5. Prefix(set, n) \subseteq Stored(set) BY DEF Prefix, Stored
    <3>6. g[n - 1].count = Cardinality(Prefix(set, n - 1)) /\ g[n - 1].count \in Nat
      BY <1>5 DEF SoundSet, KeySets
    <3>7. IsFiniteSet(Prefix(set, n - 1)) /\ IsFiniteSet(Stored(set))
      BY <1>5, SetShape
    <3>8. Cardinality(Prefix(set, n)) = g[n - 1].count + 1
      BY <3>3, <3>4, <3>6, <3>7, FS_AddElement
    <3>9. Cardinality(Prefix(set, n)) <= Cardinality(Stored(set)) BY <3>5, <3>7, FS_Subset
    <3>10. g[n - 1].count + 1 < Capacity(g[n - 1])
      BY <1>1, <1>5, <3>6, <3>8, <3>9 DEF SoundSet, KeySets
    <3> HIDE DEF key
    <3>11. /\ SoundSet(Put(g[n - 1], key))
           /\ Capacity(Put(g[n - 1], key)) = Capacity(g[n - 1])
           /\ Stored(Put(g[n - 1], key)) = Stored(g[n - 1]) \cup ({key} \ {Empty})
      BY <1>5, <2>1, <3>10, PutKeeps
    <3> QED BY <1>5, <2>3, <3>1, <3>3, <3>11
  <2> QED BY <2>2, <2>3
<1>6. Good(m)
  <2> DEFINE T == {n \in 0 .. m : ~Good(n)}
  <2> SUFFICES T = {} BY <1>1
  <2> SUFFICES ASSUME T # {} PROVE FALSE OBVIOUS
  <2>1. T \in SUBSET Nat BY <1>1
  <2> HIDE DEF T
  <2>2. PICK n \in T : \A k \in T : n <= k BY <2>1, LeastOf
  <2>3. n \in 0 .. m /\ ~Good(n) BY <2>2 DEF T
  <2>4. n # 0 BY <1>4, <2>3
  <2>5. n \in 1 .. m /\ n - 1 \in 0 .. m /\ ~(n <= n - 1) BY <1>1, <2>3, <2>4
  <2>6. n - 1 \notin T BY <2>2, <2>5
  <2>7. Good(n - 1) BY <2>5, <2>6 DEF T
  <2> QED BY <1>5, <2>3, <2>5, <2>7
<1>7. Stored(g[m]) = Stored(set)
  <2>1. \A k \in Filled(set) : k <= m BY <1>1, SetShape DEF m
  <2>2. Prefix(set, m) = Stored(set) BY <2>1 DEF Prefix, Stored
  <2> QED BY <1>6, <2>2
<1> DEFINE old == g[m]
           new == Grow(set)
<1>8. /\ new.slots = old.slots /\ new.count = set.count /\ new.hasEmpty = set.hasEmpty
      /\ new \in KeySets /\ SoundSet(old) /\ Capacity(old) = wanted
  <2>1. old \in KeySets BY <1>6 DEF SoundSet
  <2> HIDE DEF old
  <2> QED BY <1>1, <1>2, <1>6, <2>1 DEF KeySets, old
<1> HIDE DEF old, new
<1>9. Capacity(new) = wanted /\ Filled(new) = Filled(old) /\ Stored(new) = Stored(old)
  BY <1>8 DEF Capacity, Filled, Stored
<1>10. \A i \in Filled(old) : Reached(new, i)
  BY <1>8, <1>9 DEF SoundSet, Reached, SlotAt
<1>11. SoundSet(new) BY <1>1, <1>7, <1>8, <1>9, <1>10 DEF SoundSet, old
<1> QED BY <1>7, <1>8, <1>9, <1>11 DEF Members, old, new

(***************************************************************************)
(* The inductive invariant.                                                *)
(***************************************************************************)
InputsInv == graph \in Graphs /\ tables \in TablesOf(graph) /\ ask \in AsksOf(graph)

(* A predicate is the edge by which a relation hangs from its parent.      *)
Hangs(p, c) ==
  LET node == tree.node[c]
  IN  \/ p.left = node.parent /\ p.lcol = node.up /\ p.right = c /\ p.rcol = node.own
      \/ p.right = node.parent /\ p.rcol = node.up /\ p.left = c /\ p.lcol = node.own

Rooted ==
  /\ IsSpanning(graph)
  /\ ask.relation \in Relations(graph) /\ ask.column \in Columns(graph, ask.relation)
  /\ tree.order[1] = ask.relation
  /\ \A i, j \in DOMAIN tree.order : tree.order[i] = tree.order[j] => i = j
  /\ DOMAIN tree.node = ToSet(tree.order) \ {ask.relation}
  /\ tree.used \subseteq DOMAIN graph.predicates
  /\ Cardinality(tree.used) + 1 = Len(tree.order)
  /\ \A j \in 2 .. Len(tree.order) :
        \E i \in 1 .. j - 1 : tree.node[tree.order[j]].parent = tree.order[i]
  /\ \A c \in DOMAIN tree.node : \E i \in tree.used : Hangs(graph.predicates[i], c)
  /\ \A i \in tree.used : \E c \in DOMAIN tree.node : Hangs(graph.predicates[i], c)

TreeInv ==
  /\ tree.order \in Seq(Relations(graph))
  /\ tree.order # <<>> => Rooted
  /\ visit[1] \in Nat \ {0} /\ visit[2] \in Nat \ {0}

RoundInv ==
  /\ round \in {"plan", "walk", "read", "probe", "fill", "done", "terminated"}
  /\ remaining \in Nat
  /\ round = "plan" => tree = [order |-> <<>>, used |-> {}, node |-> << >>]
  /\ round = "walk" => tree.order # <<>>
  /\ round \in {"plan", "walk"} => remaining = 0
  /\ round \in {"read", "probe", "fill"} => remaining # 0
  /\ remaining # 0 => /\ tree.order # <<>> /\ Len(tree.order) = Len(graph.types)
                      /\ remaining <= Len(tree.order)
  /\ round = "fill" => ~IsRoot

(* The row's key, and the rows that match something in every child.        *)
Own(x, j) == tables[x][j][tree.node[x].own]
Passes(x, j) == \A c \in ChildrenOf(x) : Held(surviving[c], tables[x][j][tree.node[c].up])
Kept(x) == {j \in DOMAIN tables[x] : Passes(x, j)}

SoundShards(shards) ==
  /\ shards \in Seq(KeySets) /\ shards # <<>>
  /\ \A s \in DOMAIN shards : SoundSet(shards[s])

ReducedRelations == {tree.order[j] : j \in {i \in DOMAIN tree.order : i > remaining}}

SurvivingInv ==
  /\ DOMAIN surviving = IF remaining = 0 THEN {} ELSE ReducedRelations
  /\ \A x \in DOMAIN surviving :
        /\ SoundShards(surviving[x])
        /\ \A k \in Values : Held(surviving[x], k) <=> \E j \in Kept(x) : Own(x, j) = k

Crew == 1 .. Workers

TeamInv ==
  /\ \A w \in DOMAIN pc : pc[w] \in {"unborn", "waiting", "running", "ended"}
  /\ round \in {"probe", "fill"} => DOMAIN pc = Crew /\ pc[1] \in {"waiting", "ended"}
  /\ round \notin {"probe", "fill", "terminated"} => \A w \in DOMAIN pc : pc[w] # "running"

WorkInv ==
  round \in {"probe", "fill"} =>
    /\ SoundShards(keys) /\ Len(keys) = Workers
    /\ buckets \in [Crew -> [Crew -> Seq(Values)]]
    /\ at \in [Crew -> Nat]
    /\ best \in [Crew -> SUBSET Values]

Behind(w) == {j \in Kept(Current) : FirstRow(w) <= j /\ j < at[w]}
OfShard(rows, s) == {Own(Current, j) : j \in {i \in rows : ShardOf(keys, Own(Current, i)) = s}}
Asked(rows) == {tables[Current][j][ask.column] : j \in rows}

IsBest(chosen, values) ==
  \/ chosen = {} /\ values = {}
  \/ \E m \in values : chosen = {m} /\ \A v \in values : IF ask.min THEN m <= v ELSE m >= v

ProbeInv ==
  round = "probe" =>
    /\ \A s \in Crew : keys[s] = NoKeys
    /\ \A w \in Crew : FirstRow(w) <= at[w]
    /\ \A w \in Crew : pc[w] = "ended" /\ ~failed => at[w] > LastRow(w)
    /\ ~IsRoot => \A w, s \in Crew : ToSet(buckets[w][s]) = OfShard(Behind(w), s)
    /\ IsRoot => \A w \in Crew : IsBest(best[w], Asked(Behind(w)))

Waiting(s) == UNION {ToSet(buckets[b][s]) : b \in Crew}

FillInv ==
  round = "fill" =>
    /\ \A s \in Crew : pc[s] = "ended" /\ ~failed => Waiting(s) = {}
    /\ \A s \in Crew : Members(keys[s]) \cup Waiting(s) = OfShard(Kept(Current), s)

IInv ==
  /\ InputsInv /\ TreeInv /\ RoundInv /\ SurvivingInv /\ TeamInv
  /\ WorkInv /\ ProbeInv /\ FillInv /\ ReducedExtremeIsExact

(* What a graph, its tables and a question look like.                      *)
LEMMA InputsAre ==
  ASSUME InputsInv
  PROVE  /\ Len(graph.types) \in Nat /\ Relations(graph) = 1 .. Len(graph.types)
         /\ Len(graph.predicates) \in Nat
         /\ DOMAIN graph.predicates = 1 .. Len(graph.predicates)
         /\ \A i \in DOMAIN graph.predicates :
              LET p == graph.predicates[i]
              IN  /\ p \in ToSet(graph.predicates)
                  /\ p.left \in Relations(graph) /\ p.lcol \in Columns(graph, p.left)
                  /\ p.right \in Relations(graph) /\ p.rcol \in Columns(graph, p.right)
         /\ DOMAIN tables = Relations(graph)
         /\ \A r \in Relations(graph) :
              /\ Len(tables[r]) \in Nat /\ DOMAIN tables[r] = 1 .. Len(tables[r])
              /\ \A j \in DOMAIN tables[r], c \in Columns(graph, r) : tables[r][j][c] \in Values
         /\ ask.threads \in Nat /\ ask.min \in BOOLEAN
<1>1. /\ graph.types \in Seq(Seq(STRING))
      /\ graph.predicates \in Seq([left : Nat, lcol : Nat, right : Nat, rcol : Nat])
      /\ \A p \in ToSet(graph.predicates) :
              /\ p.left \in Relations(graph) /\ p.lcol \in Columns(graph, p.left)
              /\ p.right \in Relations(graph) /\ p.rcol \in Columns(graph, p.right)
  BY GraphsAssumption DEF InputsInv
<1>2. /\ DOMAIN tables = Relations(graph)
      /\ \A r \in Relations(graph) : tables[r] \in Seq([Columns(graph, r) -> Values])
  BY TablesAssumption DEF InputsInv
<1>3. ask \in [relation : Nat, column : Nat, min : BOOLEAN, threads : Nat]
  BY AsksAssumption DEF InputsInv
<1>4. Len(graph.types) \in Nat /\ Relations(graph) = 1 .. Len(graph.types)
  BY <1>1 DEF Relations
<1>5. Len(graph.predicates) \in Nat /\ DOMAIN graph.predicates = 1 .. Len(graph.predicates)
  BY <1>1
<1>6. \A i \in DOMAIN graph.predicates : graph.predicates[i] \in ToSet(graph.predicates)
  BY DEF ToSet
<1>7. ASSUME NEW r \in Relations(graph)
      PROVE  /\ Len(tables[r]) \in Nat /\ DOMAIN tables[r] = 1 .. Len(tables[r])
             /\ \A j \in DOMAIN tables[r], c \in Columns(graph, r) : tables[r][j][c] \in Values
  <2> DEFINE R == [Columns(graph, r) -> Values]
  <2>1. tables[r] \in Seq(R) BY <1>2
  <2> HIDE DEF R
  <2>2. /\ Len(tables[r]) \in Nat /\ DOMAIN tables[r] = 1 .. Len(tables[r])
        /\ \A j \in DOMAIN tables[r] : tables[r][j] \in R
    BY <2>1
  <2> QED BY <2>2 DEF R
<1> QED BY <1>1, <1>2, <1>3, <1>4, <1>5, <1>6, <1>7

(* There are as many predicates as the graph lists.                        *)
LEMMA PredicatesFinite ==
  ASSUME InputsInv
  PROVE  IsFiniteSet(DOMAIN graph.predicates)
         /\ Cardinality(DOMAIN graph.predicates) = Len(graph.predicates)
<1> DEFINE n == Len(graph.predicates)
<1>1. n \in Nat /\ DOMAIN graph.predicates = 1 .. n BY InputsAre
<1> HIDE DEF n
<1>2. IsFiniteSet(1 .. n) /\ Cardinality(1 .. n) = n BY <1>1, FS_Interval
<1> QED BY <1>1, <1>2 DEF n

(* Hanging a new relation below one that is placed keeps the tree a tree.  *)
LEMMA HangKeeps ==
  ASSUME InputsInv, TreeInv, UNCHANGED <<graph, tables, ask>>,
         NEW parent \in DOMAIN tree.order, NEW i \in DOMAIN graph.predicates, i \notin tree.used,
         NEW child \in Relations(graph), child \notin ToSet(tree.order), NEW own, NEW up,
         LET p == graph.predicates[i]
         IN  \/ /\ p.left = tree.order[parent] /\ p.lcol = up
                /\ p.right = child /\ p.rcol = own
             \/ /\ p.right = tree.order[parent] /\ p.rcol = up
                /\ p.left = child /\ p.lcol = own,
         tree' = [order |-> Append(tree.order, child), used |-> tree.used \cup {i},
                  node |-> With(tree.node, child,
                                [parent |-> tree.order[parent], own |-> own, up |-> up])]
  PROVE  tree'.order \in Seq(Relations(graph)) /\ tree'.order # <<>> /\ Rooted'
<1> DEFINE o == tree.order
           n == Len(o)
           entry == [parent |-> o[parent], own |-> own, up |-> up]
<1>1. o \in Seq(Relations(graph)) /\ o # <<>> /\ Rooted /\ n \in Nat /\ n # 0
      /\ DOMAIN o = 1 .. n
  BY DEF TreeInv
<1>2. /\ tree'.order = Append(o, child) /\ tree'.used = tree.used \cup {i}
      /\ tree'.node = With(tree.node, child, entry)
  OBVIOUS
<1> HIDE DEF o
<1>3. /\ tree'.order \in Seq(Relations(graph)) /\ Len(tree'.order) = n + 1
      /\ DOMAIN tree'.order = 1 .. n + 1 /\ tree'.order[n + 1] = child
      /\ \A j \in 1 .. n : tree'.order[j] = o[j]
  <2> DEFINE R == Relations(graph)
  <2>1. o \in Seq(R) /\ child \in R BY <1>1
  <2> HIDE DEF R
  <2>2. /\ Append(o, child) \in Seq(R) /\ Len(Append(o, child)) = n + 1
        /\ DOMAIN Append(o, child) = 1 .. n + 1 /\ Append(o, child)[n + 1] = child
        /\ \A j \in 1 .. n : Append(o, child)[j] = o[j]
    BY <1>1, <2>1
  <2> QED BY <1>2, <2>2 DEF R
<1>4. ToSet(tree'.order) = ToSet(o) \cup {child}
  <2>1. \A x : x \in ToSet(tree'.order) <=> \E j \in 1 .. n + 1 : x = tree'.order[j]
    BY <1>3 DEF ToSet
  <2>2. \A x : x \in ToSet(o) <=> \E j \in 1 .. n : x = o[j] BY <1>1 DEF ToSet
  <2>3. 1 .. n + 1 = (1 .. n) \cup {n + 1} BY <1>1
  <2> QED BY <1>3, <2>1, <2>2, <2>3
<1>5. child # ask.relation /\ child \notin ToSet(o) /\ o[1] = ask.relation /\ o[1] \in ToSet(o)
      /\ DOMAIN tree.node = ToSet(o) \ {ask.relation}
  BY <1>1 DEF Rooted, o, ToSet
<1>6. /\ DOMAIN tree'.node = DOMAIN tree.node \cup {child}
      /\ tree'.node[child] = entry
      /\ \A c \in DOMAIN tree.node : c # child /\ tree'.node[c] = tree.node[c]
  <2> DEFINE f == tree.node
             g == With(f, child, entry)
  <2> HIDE DEF entry, f
  <2>1. /\ DOMAIN g = DOMAIN f \cup {child} /\ g[child] = entry
        /\ \A y \in DOMAIN f : y # child => g[y] = f[y]
    BY DEF With
  <2>2. tree'.node = g /\ \A c \in DOMAIN f : c # child BY <1>2, <1>5 DEF f
  <2> HIDE DEF g
  <2> QED BY <2>1, <2>2 DEF f
<1>7. /\ \A c \in DOMAIN tree.node : \A p : Hangs(p, c) <=> Hangs(p, c)'
      /\ Hangs(graph.predicates[i], child)'
  BY <1>6 DEF Hangs, o
<1>8. \A a, b \in DOMAIN tree'.order : tree'.order[a] = tree'.order[b] => a = b
  <2>1. \A a \in 1 .. n : o[a] # child BY <1>1, <1>5 DEF ToSet
  <2>2. \A a, b \in 1 .. n : o[a] = o[b] => a = b BY <1>1 DEF Rooted, o
  <2>3. 1 .. n + 1 = (1 .. n) \cup {n + 1} BY <1>1
  <2> QED BY <1>3, <2>1, <2>2, <2>3
<1>9. Cardinality(tree'.used) + 1 = Len(tree'.order) /\ tree'.used \subseteq DOMAIN graph.predicates
  <2>1. tree.used \subseteq DOMAIN graph.predicates /\ Cardinality(tree.used) + 1 = n
    BY <1>1 DEF Rooted, o
  <2>2. IsFiniteSet(tree.used)
    <3>1. IsFiniteSet(DOMAIN graph.predicates) BY PredicatesFinite
    <3> QED BY <2>1, <3>1, FS_Subset
  <2>3. Cardinality(tree.used \cup {i}) = Cardinality(tree.used) + 1 BY <2>2, FS_AddElement
  <2> QED BY <1>2, <1>3, <2>1, <2>3
<1>10. \A j \in 2 .. Len(tree'.order) :
          \E k \in 1 .. j - 1 : tree'.node[tree'.order[j]].parent = tree'.order[k]
  <2> TAKE j \in 2 .. Len(tree'.order)
  <2>1. CASE j = n + 1
    <3>1. tree'.node[tree'.order[j]].parent = o[parent] BY <1>3, <1>6, <2>1
    <3>2. parent \in 1 .. j - 1 BY <1>1, <2>1 DEF o
    <3> QED BY <1>1, <1>3, <2>1, <3>1, <3>2
  <2>2. CASE j # n + 1
    <3>1. j \in 2 .. n /\ j \in 1 .. n BY <1>1, <1>3, <2>2
    <3>2. PICK k \in 1 .. j - 1 : tree.node[o[j]].parent = o[k] BY <1>1, <3>1 DEF Rooted, o
    <3>3. o[j] # o[1]
      <4>1. j # 1 /\ j \in DOMAIN o /\ 1 \in DOMAIN o BY <1>1, <3>1
      <4> QED BY <1>1, <4>1 DEF Rooted, o
    <3>4. o[j] \in DOMAIN tree.node BY <1>1, <1>5, <3>1, <3>3 DEF ToSet
    <3>5. k \in 1 .. n BY <1>1, <3>1
    <3> QED BY <1>3, <1>6, <3>1, <3>2, <3>4, <3>5
  <2> QED BY <2>1, <2>2
<1>11. IsSpanning(graph) /\ ask.relation \in Relations(graph)
       /\ ask.column \in Columns(graph, ask.relation)
  BY <1>1 DEF Rooted
<1>12. tree'.order[1] = ask.relation BY <1>1, <1>3, <1>5
<1>13. DOMAIN tree'.node = ToSet(tree'.order) \ {ask.relation} BY <1>4, <1>5, <1>6
<1>14. \A c \in DOMAIN tree'.node : \E k \in tree'.used : Hangs(graph.predicates[k], c)'
  BY <1>1, <1>2, <1>6, <1>7 DEF Rooted
<1>15. \A k \in tree'.used : \E c \in DOMAIN tree'.node : Hangs(graph.predicates[k], c)'
  BY <1>1, <1>2, <1>6, <1>7 DEF Rooted
<1>16. Rooted'
  BY <1>8, <1>9, <1>10, <1>11, <1>12, <1>13, <1>14, <1>15 DEF Rooted
<1> QED BY <1>1, <1>3, <1>16

(* A step of the walk keeps the tree a tree.                               *)
LEMMA VisitKeeps ==
  ASSUME InputsInv, TreeInv, RoundInv, Visit
  PROVE  TreeInv' /\ tree'.order # <<>>
<1> DEFINE parent == visit[1]
           i == visit[2]
           up == tree.order[parent]
           p == graph.predicates[i]
<1>1. /\ parent \in Nat \ {0} /\ i \in Nat \ {0} /\ parent <= Len(tree.order)
      /\ tree.order \in Seq(Relations(graph)) /\ tree.order # <<>>
      /\ UNCHANGED <<graph, tables, ask>>
  BY DEF Visit, TreeInv, RoundInv, Untouched
<1>2. parent \in DOMAIN tree.order /\ up \in ToSet(tree.order) BY <1>1 DEF ToSet
<1>3. CASE i > Len(graph.predicates)
  <2>1. visit' = <<parent + 1, 1>> /\ tree' = tree BY <1>1, <1>3, InputsAre DEF Visit
  <2>2. visit'[1] \in Nat \ {0} /\ visit'[2] \in Nat \ {0} BY <1>1, <2>1
  <2>3. Rooted' <=> Rooted BY <1>1, <2>1 DEF Rooted, Hangs
  <2> QED BY <1>1, <2>1, <2>2, <2>3 DEF TreeInv
<1>4. CASE i <= Len(graph.predicates)
  <2>1. visit' = <<parent, i + 1>> /\ tree' = Place(graph, up, tree, i)
    BY <1>1, <1>4, InputsAre DEF Visit
  <2>2. visit'[1] \in Nat \ {0} /\ visit'[2] \in Nat \ {0} BY <1>1, <2>1
  <2>3. i \in DOMAIN graph.predicates BY <1>1, <1>4, InputsAre
  <2>4. p.left \in Relations(graph) /\ p.right \in Relations(graph) BY <2>3, InputsAre
  <2>5. CASE tree' = tree
    <3>1. Rooted' <=> Rooted BY <1>1, <2>5 DEF Rooted, Hangs
    <3> QED BY <1>1, <2>2, <2>5, <3>1 DEF TreeInv
  <2>6. CASE i \notin tree.used /\ p.left = up /\ p.right \notin ToSet(tree.order)
    <3>1. tree' = [order |-> Append(tree.order, p.right), used |-> tree.used \cup {i},
                   node |-> With(tree.node, p.right,
                                 [parent |-> up, own |-> p.rcol, up |-> p.lcol])]
      BY <2>1, <2>6, Zenon DEF Place
    <3>2. tree'.order \in Seq(Relations(graph)) /\ tree'.order # <<>> /\ Rooted'
      BY <1>1, <1>2, <2>3, <2>4, <2>6, <3>1, HangKeeps
    <3> QED BY <1>1, <2>2, <3>2 DEF TreeInv
  <2>7. CASE /\ i \notin tree.used /\ p.right = up /\ p.left \notin ToSet(tree.order)
             /\ ~(p.left = up /\ p.right \notin ToSet(tree.order))
    <3>1. tree' = [order |-> Append(tree.order, p.left), used |-> tree.used \cup {i},
                   node |-> With(tree.node, p.left,
                                 [parent |-> up, own |-> p.lcol, up |-> p.rcol])]
      BY <2>1, <2>7, Zenon DEF Place
    <3>2. tree'.order \in Seq(Relations(graph)) /\ tree'.order # <<>> /\ Rooted'
      BY <1>1, <1>2, <2>3, <2>4, <2>7, <3>1, HangKeeps
    <3> QED BY <1>1, <2>2, <3>2 DEF TreeInv
  <2>8. \/ tree' = tree
        \/ i \notin tree.used /\ p.left = up /\ p.right \notin ToSet(tree.order)
        \/ /\ i \notin tree.used /\ p.right = up /\ p.left \notin ToSet(tree.order)
           /\ ~(p.left = up /\ p.right \notin ToSet(tree.order))
    BY <2>1, Zenon DEF Place
  <2> QED BY <2>5, <2>6, <2>7, <2>8
<1> QED BY <1>1, <1>3, <1>4, InputsAre

(* The tree an answer is found with: all relations, all predicates.        *)
LEMMA WholeTree ==
  ASSUME InputsInv, TreeInv, RoundInv, remaining # 0
  PROVE  /\ Rooted /\ Len(tree.order) \in Nat /\ DOMAIN tree.order = 1 .. Len(tree.order)
         /\ remaining \in DOMAIN tree.order
         /\ ToSet(tree.order) = Relations(graph)
         /\ tree.used = DOMAIN graph.predicates
<1> DEFINE n == Len(tree.order)
<1>1. /\ tree.order \in Seq(Relations(graph)) /\ tree.order # <<>> /\ Rooted
      /\ n = Len(graph.types) /\ remaining <= n /\ remaining \in Nat
  BY DEF TreeInv, RoundInv
<1>2. /\ n \in Nat /\ DOMAIN tree.order = 1 .. n /\ remaining \in DOMAIN tree.order
      /\ ToSet(tree.order) \subseteq Relations(graph)
  BY <1>1 DEF ToSet
<1>3. Relations(graph) = 1 .. n /\ Len(graph.predicates) + 1 = n /\ Len(graph.predicates) \in Nat
  BY <1>1, InputsAre DEF Rooted, IsSpanning
<1>4. ToSet(tree.order) = Relations(graph)
  <2> DEFINE S == 1 .. n
             f == tree.order
  <2>1. IsFiniteSet(S) /\ Relations(graph) = S BY <1>2, <1>3, FS_Interval
  <2>2. f \in [S -> S]
    <3> DEFINE R == Relations(graph)
    <3>1. f \in Seq(R) /\ Len(f) = n BY <1>1
    <3> HIDE DEF f, R, n
    <3>2. f \in [1 .. Len(f) -> R] BY <3>1
    <3>3. R = S BY <2>1 DEF R
    <3> HIDE DEF S
    <3>4. S = 1 .. Len(f) BY <3>1 DEF S
    <3> QED BY <3>2, <3>3, <3>4
  <2>3. \A i, j \in S : f[i] = f[j] => i = j BY <1>1, <1>2 DEF Rooted
  <2> HIDE DEF f, S
  <2>4. f \in Injection(S, S) BY <2>2, <2>3 DEF Injection, IsInjective
  <2>5. f \in Surjection(S, S) BY <2>1, <2>4, FS_Injection
  <2>6. \A x \in S : \E i \in S : f[i] = x BY <2>5 DEF Surjection
  <2>7. S \subseteq ToSet(f) BY <2>2, <2>6 DEF ToSet
  <2> QED BY <1>2, <2>1, <2>7 DEF f
<1>5. tree.used = DOMAIN graph.predicates
  <2>1. /\ tree.used \subseteq DOMAIN graph.predicates
        /\ Cardinality(tree.used) + 1 = n
    BY <1>1 DEF Rooted
  <2>2. /\ IsFiniteSet(DOMAIN graph.predicates)
        /\ Cardinality(DOMAIN graph.predicates) + 1 = n
    BY <1>3, PredicatesFinite
  <2>3. Cardinality(tree.used) = Cardinality(DOMAIN graph.predicates)
    BY <2>1, <2>2, FS_Subset, FS_CardinalityType
  <2> QED BY <2>1, <2>2, <2>3, FS_Subset
<1> QED BY <1>1, <1>2, <1>4, <1>5

TreeStands == InputsInv /\ TreeInv /\ RoundInv /\ remaining # 0

(* A relation hangs below one that was placed before it.                   *)
LEMMA ParentEarlier ==
  ASSUME TreeStands, NEW j \in DOMAIN tree.order, j # 1
  PROVE  /\ tree.order[j] \in DOMAIN tree.node
         /\ \E i \in 1 .. j - 1 : tree.node[tree.order[j]].parent = tree.order[i]
<1>1. Rooted /\ Len(tree.order) \in Nat /\ DOMAIN tree.order = 1 .. Len(tree.order)
  BY WholeTree DEF TreeStands
<1>2. j \in 2 .. Len(tree.order) /\ 1 \in DOMAIN tree.order BY <1>1
<1>3. tree.order[j] # ask.relation BY <1>1, <1>2 DEF Rooted
<1> QED BY <1>1, <1>2, <1>3 DEF Rooted, ToSet

(* Its children were placed after it.                                      *)
LEMMA ChildrenLater ==
  ASSUME TreeStands, NEW i \in DOMAIN tree.order, NEW c \in ChildrenOf(tree.order[i])
  PROVE  \E j \in DOMAIN tree.order : j > i /\ j # 1 /\ tree.order[j] = c
<1>1. Rooted /\ Len(tree.order) \in Nat /\ DOMAIN tree.order = 1 .. Len(tree.order)
  BY WholeTree DEF TreeStands
<1>2. c \in DOMAIN tree.node /\ tree.node[c].parent = tree.order[i] BY DEF ChildrenOf
<1>3. PICK j \in DOMAIN tree.order : tree.order[j] = c /\ c # ask.relation
  BY <1>1, <1>2 DEF Rooted, ToSet
<1>4. j # 1 BY <1>1, <1>3 DEF Rooted
<1>5. PICK k \in 1 .. j - 1 : tree.node[c].parent = tree.order[k] BY <1>3, <1>4, ParentEarlier
<1>6. k \in DOMAIN tree.order BY <1>1, <1>5
<1>7. k = i BY <1>1, <1>2, <1>5, <1>6 DEF Rooted
<1> QED BY <1>1, <1>3, <1>4, <1>5, <1>7

(* An edge of the tree joins columns that exist.                           *)
LEMMA EdgeIs ==
  ASSUME TreeStands, NEW c \in DOMAIN tree.node
  PROVE  LET node == tree.node[c]
         IN  /\ c \in Relations(graph) /\ node.parent \in Relations(graph)
             /\ node.own \in Columns(graph, c) /\ node.up \in Columns(graph, node.parent)
             /\ c \in ChildrenOf(node.parent)
<1>1. PICK i \in tree.used : Hangs(graph.predicates[i], c)
  BY WholeTree DEF Rooted, TreeStands
<1>2. i \in DOMAIN graph.predicates BY WholeTree DEF TreeStands
<1> QED BY <1>1, <1>2, InputsAre DEF Hangs, ChildrenOf, TreeStands

Tuples(B) ==
  FlatJoinOver(graph, tables, B, {p \in ToSet(graph.predicates) : {p.left, p.right} \subseteq B})

Meets(t, c) ==
  Own(c, t[c]) = tables[tree.node[c].parent][t[tree.node[c].parent]][tree.node[c].up]

(* A tuple satisfies all predicates when it does so along the tree.        *)
LEMMA TuplesAre ==
  ASSUME TreeStands, NEW B \in SUBSET Relations(graph), NEW t
  PROVE  t \in Tuples(B) <=>
           /\ t \in [B -> UNION {DOMAIN tables[r] : r \in B}]
           /\ \A r \in B : t[r] \in DOMAIN tables[r]
           /\ \A c \in DOMAIN tree.node : c \in B /\ tree.node[c].parent \in B => Meets(t, c)
<1> DEFINE E == {p \in ToSet(graph.predicates) : {p.left, p.right} \subseteq B}
           Holds(p) == tables[p.left][t[p.left]][p.lcol] = tables[p.right][t[p.right]][p.rcol]
<1>1. t \in Tuples(B) <=>
        /\ t \in [B -> UNION {DOMAIN tables[r] : r \in B}]
        /\ \A r \in B : t[r] \in DOMAIN tables[r]
        /\ \A p \in E : Holds(p)
  BY DEF Tuples, FlatJoinOver
<1>2. Rooted /\ tree.used = DOMAIN graph.predicates BY WholeTree DEF TreeStands
<1>3. \A c \in DOMAIN tree.node : \A p :
         Hangs(p, c) => /\ Holds(p) <=> Meets(t, c)
                        /\ {p.left, p.right} = {c, tree.node[c].parent}
  BY DEF Hangs, Meets, Own
<1>4. \A p \in ToSet(graph.predicates) : \E c \in DOMAIN tree.node : Hangs(p, c)
  BY <1>2 DEF Rooted, ToSet
<1>5. \A c \in DOMAIN tree.node : \E p \in ToSet(graph.predicates) : Hangs(p, c)
  BY <1>2 DEF Rooted, ToSet
<1>6. (\A p \in E : Holds(p)) <=>
      \A c \in DOMAIN tree.node : c \in B /\ tree.node[c].parent \in B => Meets(t, c)
  <2> HIDE DEF Holds
  <2>1. ASSUME \A p \in E : Holds(p), NEW c \in DOMAIN tree.node,
               c \in B, tree.node[c].parent \in B
        PROVE  Meets(t, c)
    <3>1. PICK p \in ToSet(graph.predicates) : Hangs(p, c) BY <1>5
    <3>2. p \in E BY <1>3, <2>1, <3>1
    <3> QED BY <1>3, <2>1, <3>1, <3>2
  <2>2. ASSUME \A c \in DOMAIN tree.node : c \in B /\ tree.node[c].parent \in B => Meets(t, c),
               NEW p \in E
        PROVE  Holds(p)
    <3>1. PICK c \in DOMAIN tree.node : Hangs(p, c) BY <1>4
    <3>2. {c, tree.node[c].parent} \subseteq B BY <1>3, <3>1
    <3> QED BY <1>3, <2>2, <3>1, <3>2
  <2> QED BY <2>1, <2>2
<1> QED BY <1>1, <1>6

Reducible == TreeStands /\ SurvivingInv

(* A reduced relation is none but the later ones, and so are its children. *)
LEMMA ReducedAre ==
  ASSUME Reducible, NEW j \in DOMAIN tree.order
  PROVE  /\ tree.order[j] \in DOMAIN surviving <=> j > remaining
         /\ j >= remaining => ChildrenOf(tree.order[j]) \subseteq DOMAIN surviving
         /\ j > remaining => j # 1
<1>1. /\ DOMAIN surviving = ReducedRelations /\ Rooted /\ remaining \in Nat /\ remaining # 0
      /\ Len(tree.order) \in Nat /\ DOMAIN tree.order = 1 .. Len(tree.order)
  BY WholeTree DEF Reducible, TreeStands, SurvivingInv, RoundInv
<1>2. \A k \in DOMAIN tree.order : tree.order[k] \in DOMAIN surviving <=> k > remaining
  BY <1>1 DEF ReducedRelations, Rooted
<1>3. ASSUME j >= remaining, NEW c \in ChildrenOf(tree.order[j]) PROVE c \in DOMAIN surviving
  <2>1. PICK k \in DOMAIN tree.order : k > j /\ tree.order[k] = c
    BY ChildrenLater DEF Reducible
  <2>2. k > remaining BY <1>1, <1>3, <2>1
  <2> QED BY <1>2, <2>1, <2>2
<1> QED BY <1>1, <1>2, <1>3

(* The walk has placed every relation.                                     *)
LEMMA RelationsPlaced ==
  ASSUME TreeStands
  PROVE  \A x \in Relations(graph) : \E j \in DOMAIN tree.order : tree.order[j] = x
BY WholeTree DEF TreeStands, ToSet

(* A relation's key is a value.                                            *)
LEMMA OwnValue ==
  ASSUME TreeStands, NEW c \in DOMAIN tree.node, NEW j \in DOMAIN tables[c]
  PROVE  Own(c, j) \in Values
<1>1. c \in Relations(graph) /\ tree.node[c].own \in Columns(graph, c) BY EdgeIs
<1> QED BY <1>1, InputsAre DEF Own, TreeStands

(* A tuple over a set of relations closed towards the leaves is seen by    *)
(* every probe: the rows it consists of are kept, and their keys held.     *)
LEMMA TupleSurvives ==
  ASSUME Reducible, NEW B \in SUBSET Relations(graph), \A x \in B : ChildrenOf(x) \subseteq B,
         NEW t \in Tuples(B), NEW i \in DOMAIN tree.order, tree.order[i] \in B, i >= remaining
  PROVE  /\ t[tree.order[i]] \in Kept(tree.order[i])
         /\ i > remaining => Held(surviving[tree.order[i]], Own(tree.order[i], t[tree.order[i]]))
<1> DEFINE o == tree.order
           n == Len(o)
           Placed(j) == j \in DOMAIN o /\ o[j] \in B
           IsKept(j) == t[o[j]] \in Kept(o[j])
           Seen(j) == Held(surviving[o[j]], Own(o[j], t[o[j]]))
<1>1. TreeStands /\ n \in Nat /\ DOMAIN o = 1 .. n /\ remaining \in Nat
  BY WholeTree DEF Reducible, TreeStands, RoundInv
<1>2. \A x \in B : t[x] \in DOMAIN tables[x] BY <1>1, TuplesAre
<1>3. \A c \in DOMAIN tree.node : c \in B /\ tree.node[c].parent \in B => Meets(t, c)
  BY <1>1, TuplesAre
<1>4. ASSUME NEW j \in DOMAIN o, o[j] \in B, j >= remaining,
             \A k \in DOMAIN o : k > j /\ o[k] \in B => Seen(k)
      PROVE  IsKept(j) /\ (j > remaining => Seen(j))
  <2> DEFINE x == o[j]
  <2>1. ASSUME NEW c \in ChildrenOf(x)
        PROVE  Held(surviving[c], tables[x][t[x]][tree.node[c].up])
    <3>1. PICK k \in DOMAIN o : k > j /\ o[k] = c BY <1>1, ChildrenLater
    <3>2. c \in B /\ c \in DOMAIN tree.node /\ tree.node[c].parent = x BY <1>4 DEF ChildrenOf
    <3>3. Seen(k) BY <1>4, <3>1, <3>2
    <3>4. Own(c, t[c]) = tables[x][t[x]][tree.node[c].up] BY <1>3, <1>4, <3>2 DEF Meets
    <3> QED BY <3>1, <3>3, <3>4
  <2>2. IsKept(j) BY <1>2, <1>4, <2>1 DEF Kept, Passes
  <2>3. ASSUME j > remaining PROVE Seen(j)
    <3>1. x \in DOMAIN surviving /\ j # 1 BY <2>3, ReducedAre
    <3>2. x \in DOMAIN tree.node BY <1>1, <3>1, ParentEarlier
    <3>3. Own(x, t[x]) \in Values BY <1>1, <1>2, <1>4, <3>2, OwnValue
    <3> QED BY <2>2, <3>1, <3>3 DEF Reducible, SurvivingInv
  <2> QED BY <2>2, <2>3
<1>5. \A j \in DOMAIN o : j > remaining /\ o[j] \in B => Seen(j)
  <2> DEFINE T == {d \in Nat : \E j \in DOMAIN o : /\ d = n - j /\ j > remaining /\ o[j] \in B
                                                   /\ ~Seen(j)}
  <2> SUFFICES ASSUME T # {} PROVE FALSE
    <3> SUFFICES ASSUME NEW j \in DOMAIN o, j > remaining, o[j] \in B, ~Seen(j) PROVE T # {}
      BY Zenon
    <3>1. n - j \in Nat BY <1>1
    <3> QED BY <3>1
  <2>1. PICK d \in T : \A e \in T : d <= e
    <3>1. T \in SUBSET Nat OBVIOUS
    <3> HIDE DEF T
    <3> QED BY <3>1, LeastOf
  <2>2. PICK j \in DOMAIN o : d = n - j /\ j > remaining /\ o[j] \in B /\ ~Seen(j) BY <2>1
  <2> HIDE DEF Seen
  <2>3. ASSUME NEW k \in DOMAIN o, k > j, o[k] \in B PROVE Seen(k)
    <3> HIDE DEF n, T, o
    <3>0. k \in 1 .. n /\ j \in 1 .. n /\ d = n - j /\ j > remaining BY <1>1, <2>2, <2>3
    <3>1. n - k \in Nat /\ ~(d <= n - k) /\ k > remaining BY <1>1, <2>3, <3>0
    <3>2. n - k \notin T BY <2>1, <3>1
    <3> QED BY <2>3, <3>1, <3>2 DEF T
  <2>4. j >= remaining BY <1>1, <2>2
  <2> QED BY <1>4, <2>2, <2>3, <2>4
<1>6. \A k \in DOMAIN o : k > i /\ o[k] \in B => Seen(k)
  <2> HIDE DEF Seen
  <2> QED BY <1>1, <1>5
<1> QED BY <1>4, <1>6

(* The rows of a set of relations that hang together: one is its root, and *)
(* the others are reduced.                                                 *)
HangsTogether(B, r) ==
  /\ B \subseteq Relations(graph) /\ r \in B
  /\ r \in DOMAIN tree.node => tree.node[r].parent \notin B
  /\ \A x \in B \ {r} : x \in DOMAIN tree.node /\ tree.node[x].parent \in B /\ x \in DOMAIN surviving

UpTo(B, n) == {x \in B : \E j \in DOMAIN tree.order : j <= n /\ tree.order[j] = x}

(* A choice of kept rows that meet along the tree, as far as it goes.      *)
Chosen(B, r, row, n, t) ==
  /\ t = [x \in UpTo(B, n) |-> t[x]]
  /\ \A x \in UpTo(B, n) : t[x] \in Kept(x)
  /\ r \in UpTo(B, n) => t[r] = row
  /\ \A x \in UpTo(B, n) \ {r} : tree.node[x].parent \in UpTo(B, n) /\ Meets(t, x)

(* A row that is kept is part of a tuple: top down, each probe that found  *)
(* a key names a row below that was kept.                                  *)
LEMMA KeptExtends ==
  ASSUME Reducible, NEW B, NEW r, HangsTogether(B, r), NEW row \in Kept(r)
  PROVE  \E t \in Tuples(B) : t[r] = row
<1> DEFINE o == tree.order
           n == Len(o)
           T == {k \in Nat : ~ \E t : Chosen(B, r, row, k, t)}
<1>1. /\ TreeStands /\ n \in Nat /\ DOMAIN o = 1 .. n /\ Rooted
      /\ \A i, j \in DOMAIN o : o[i] = o[j] => i = j
  BY WholeTree DEF Reducible, TreeStands, Rooted
<1>2. T = {}
  <2> SUFFICES ASSUME T # {} PROVE FALSE OBVIOUS
  <2>1. PICK k \in T : \A m \in T : k <= m
    <3>1. T \in SUBSET Nat OBVIOUS
    <3> HIDE DEF T
    <3> QED BY <3>1, LeastOf
  <2>2. k \in Nat /\ ~ \E t : Chosen(B, r, row, k, t) BY <2>1
  <2> HIDE DEF T
  <2>3. CASE k = 0
    <3>1. UpTo(B, k) = {} BY <1>1, <2>3 DEF UpTo
    <3>2. Chosen(B, r, row, k, [x \in {} |-> row]) BY <3>1 DEF Chosen
    <3> QED BY <2>2, <3>2
  <2>4. CASE k # 0
    <3>1. k - 1 \in Nat /\ ~(k <= k - 1) BY <2>2, <2>4
    <3>2. k - 1 \notin T BY <2>1, <3>1
    <3>3. PICK t : Chosen(B, r, row, k - 1, t) BY <3>1, <3>2 DEF T
    <3> DEFINE y == o[k]
               old == UpTo(B, k - 1)
    <3>4. CASE k \notin DOMAIN o \/ y \notin B
      <4>1. UpTo(B, k) = old
        <5>1. \A j \in DOMAIN o : o[j] \in B => (j <= k <=> j <= k - 1) BY <1>1, <2>2, <3>4
        <5> QED BY <5>1 DEF UpTo
      <4>2. Chosen(B, r, row, k, t) BY <3>3, <4>1 DEF Chosen
      <4> QED BY <2>2, <4>2
    <3>5. CASE k \in DOMAIN o /\ y \in B
      <4>1. UpTo(B, k) = old \cup {y}
        <5>1. \A j \in DOMAIN o : j <= k <=> j <= k - 1 \/ j = k BY <1>1, <2>2
        <5> QED BY <3>5, <5>1 DEF UpTo
      <4>2. y \notin old
        <5>1. \A j \in DOMAIN o : j <= k - 1 => j # k BY <1>1, <2>2
        <5> QED BY <1>1, <3>5, <5>1 DEF UpTo
      <4>3. ASSUME NEW v \in Kept(y), y = r => v = row,
                   y # r => /\ tree.node[y].parent \in old
                            /\ Own(y, v) = tables[tree.node[y].parent][t[tree.node[y].parent]][tree.node[y].up]
            PROVE  FALSE
        <5> DEFINE u == [x \in old \cup {y} |-> IF x = y THEN v ELSE t[x]]
        <5>1. /\ u[y] = v /\ (\A x \in old : u[x] = t[x]) /\ DOMAIN u = old \cup {y}
              /\ u = [x \in old \cup {y} |-> u[x]]
          BY <4>2
        <5> HIDE DEF u
        <5>2. \A x \in old : u[x] \in Kept(x) BY <3>3, <5>1 DEF Chosen
        <5>3. r \in old \cup {y} => u[r] = row
          <6>1. CASE r = y BY <4>3, <5>1, <6>1
          <6>2. CASE r # y
            <7>1. r \in old => u[r] = t[r] BY <5>1
            <7>2. r \in old => t[r] = row BY <3>3 DEF Chosen
            <7> HIDE DEF old
            <7> QED BY <6>2, <7>1, <7>2
          <6> QED BY <6>1, <6>2
        <5>4. ASSUME NEW x \in old \ {r} PROVE tree.node[x].parent \in old /\ Meets(u, x)
          <6>1. tree.node[x].parent \in old /\ Meets(t, x) BY <3>3 DEF Chosen
          <6> QED BY <5>1, <6>1 DEF Meets
        <5>5. ASSUME y # r PROVE tree.node[y].parent \in old /\ Meets(u, y)
          <6> QED BY <4>3, <5>1, <5>5 DEF Meets
        <5>6. Chosen(B, r, row, k, u) BY <4>1, <4>3, <5>1, <5>2, <5>3, <5>4, <5>5 DEF Chosen
        <5> QED BY <2>2, <5>6
      <4>4. CASE y = r
        <5> QED BY <4>3, <4>4
      <4>5. CASE y # r
        <5> DEFINE p == tree.node[y].parent
                   v == tables[p][t[p]][tree.node[y].up]
        <5>1. y \in DOMAIN tree.node /\ p \in B /\ y \in DOMAIN surviving
          BY <3>5, <4>5 DEF HangsTogether
        <5>2. k # 1
          BY <1>1, <5>1 DEF Rooted
        <5>3. PICK i \in 1 .. k - 1 : p = o[i] BY <1>1, <3>5, <5>2, ParentEarlier
        <5>4. p \in old
          <6>1. i \in DOMAIN o /\ i <= k - 1 BY <1>1, <3>5, <5>3
          <6> QED BY <5>1, <5>3, <6>1 DEF UpTo
        <5>5. /\ t[p] \in Kept(p) /\ y \in ChildrenOf(p) /\ p \in Relations(graph)
              /\ tree.node[y].up \in Columns(graph, p)
          BY <1>1, <3>3, <5>1, <5>4, EdgeIs DEF Chosen
        <5>6. v \in Values /\ Held(surviving[y], v)
          BY <1>1, <5>5, InputsAre DEF Kept, Passes, TreeStands
        <5>7. PICK w \in Kept(y) : Own(y, w) = v BY <5>1, <5>6 DEF Reducible, SurvivingInv
        <5> QED BY <4>3, <4>5, <5>4, <5>7
      <4> QED BY <4>4, <4>5
    <3> QED BY <3>4, <3>5
  <2> QED BY <2>3, <2>4
<1>3. PICK t : Chosen(B, r, row, n, t)
  <2>1. n \notin T BY <1>2
  <2> QED BY <1>1, <2>1
<1> HIDE DEF T
<1>4. UpTo(B, n) = B
  <2>1. \A x \in B : \E j \in DOMAIN o : o[j] = x BY <1>1, RelationsPlaced DEF HangsTogether
  <2>2. \A j \in DOMAIN o : j <= n BY <1>1
  <2> QED BY <2>1, <2>2 DEF UpTo
<1>5. \A x \in B : t[x] \in DOMAIN tables[x] BY <1>3, <1>4 DEF Chosen, Kept
<1>6. t \in [B -> UNION {DOMAIN tables[x] : x \in B}]
  <2> DEFINE rows == UNION {DOMAIN tables[x] : x \in B}
  <2>1. \A x \in B : t[x] \in rows BY <1>5
  <2>2. t = [x \in B |-> t[x]] BY <1>3, <1>4 DEF Chosen
  <2> HIDE DEF rows
  <2> DEFINE f == [x \in B |-> t[x]]
  <2>3. f \in [B -> rows] BY <2>1
  <2>4. t = f BY <2>2
  <2> HIDE DEF f
  <2> QED BY <2>3, <2>4 DEF rows
<1>7. \A c \in DOMAIN tree.node : c \in B /\ tree.node[c].parent \in B => Meets(t, c)
  BY <1>3, <1>4 DEF Chosen, HangsTogether
<1>8. t \in Tuples(B) BY <1>1, <1>5, <1>6, <1>7, TuplesAre DEF HangsTogether
<1>9. t[r] = row BY <1>3, <1>4 DEF Chosen, HangsTogether
<1> QED BY <1>8, <1>9

(* What is below a relation is the least set that holds it and all         *)
(* children of its members.                                                *)
LEMMA BelowCloses ==
  ASSUME TreeStands, NEW r \in Relations(graph)
  PROVE  /\ Below(r) \subseteq Relations(graph) /\ r \in Below(r)
         /\ \A y \in Below(r) : ChildrenOf(y) \subseteq Below(r)
         /\ \A S \in SUBSET Relations(graph) :
              r \in S /\ (\A y \in S : ChildrenOf(y) \subseteq S) => Below(r) \subseteq S
<1> DEFINE Closed(S) == r \in S /\ (\A y \in S : ChildrenOf(y) \subseteq S)
<1>1. Below(r) = {x \in Relations(graph) : \A S \in SUBSET Relations(graph) : Closed(S) => x \in S}
  BY DEF Below
<1>2. ASSUME NEW y \in Below(r), NEW c \in ChildrenOf(y) PROVE c \in Below(r)
  <2>1. c \in Relations(graph) BY EdgeIs DEF ChildrenOf
  <2>2. ASSUME NEW S \in SUBSET Relations(graph), Closed(S) PROVE c \in S
    <3>1. y \in S BY <1>1, <2>2
    <3> QED BY <2>2, <3>1
  <2> HIDE DEF Closed
  <2> QED BY <1>1, <2>1, <2>2
<1> QED BY <1>1, <1>2

(* The relations below a reduced one hang together.                        *)
LEMMA BelowHangs ==
  ASSUME Reducible, NEW i \in DOMAIN tree.order, i >= remaining
  PROVE  HangsTogether(Below(tree.order[i]), tree.order[i])
<1> DEFINE o == tree.order
           r == o[i]
           L == {o[j] : j \in {k \in DOMAIN o : k >= i}}
<1>1. /\ TreeStands /\ Rooted /\ Len(o) \in Nat /\ DOMAIN o = 1 .. Len(o) /\ remaining \in DOMAIN o
      /\ ToSet(o) = Relations(graph)
      /\ \A j, k \in DOMAIN o : o[j] = o[k] => j = k
  BY WholeTree DEF Reducible, TreeStands, Rooted
<1>2. r \in Relations(graph) /\ L \subseteq Relations(graph) BY <1>1 DEF ToSet
<1>3. r \in L BY <1>1
<1>4. \A y \in L : ChildrenOf(y) \subseteq L
  <2> SUFFICES ASSUME NEW j \in DOMAIN o, j >= i, NEW c \in ChildrenOf(o[j]) PROVE c \in L OBVIOUS
  <2>1. PICK k \in DOMAIN o : k > j /\ o[k] = c BY <1>1, ChildrenLater
  <2>2. k >= i BY <1>1, <2>1
  <2> QED BY <2>1, <2>2
<1> HIDE DEF L
<1>5. /\ Below(r) \subseteq L /\ r \in Below(r) /\ Below(r) \subseteq Relations(graph)
      /\ \A y \in Below(r) : ChildrenOf(y) \subseteq Below(r)
  <2> HIDE DEF r
  <2> QED BY <1>1, <1>2, <1>3, <1>4, BelowCloses
<1>6. r \in DOMAIN tree.node => tree.node[r].parent \notin Below(r)
  <2> SUFFICES ASSUME r \in DOMAIN tree.node, tree.node[r].parent \in L PROVE FALSE BY <1>5
  <2>1. i # 1 BY <1>1 DEF Rooted
  <2>2. PICK k \in 1 .. i - 1 : tree.node[r].parent = o[k] BY <1>1, <2>1, ParentEarlier
  <2>3. PICK j \in DOMAIN o : j >= i /\ tree.node[r].parent = o[j] BY DEF L
  <2>4. k \in DOMAIN o /\ ~(k >= i) BY <1>1, <2>2
  <2> QED BY <1>1, <2>2, <2>3, <2>4
<1>7. \A x \in Below(r) \ {r} : x \in DOMAIN tree.node /\ tree.node[x].parent \in Below(r)
  <2> DEFINE S == {r} \cup {x \in Below(r) : x \in DOMAIN tree.node /\ tree.node[x].parent \in Below(r)}
  <2>1. S \subseteq Relations(graph) /\ r \in S BY <1>2, <1>5
  <2>2. \A y \in S : ChildrenOf(y) \subseteq S
    <3> SUFFICES ASSUME NEW y \in Below(r), NEW c \in ChildrenOf(y) PROVE c \in S BY <1>5
    <3>1. c \in Below(r) BY <1>5
    <3>2. c \in DOMAIN tree.node /\ tree.node[c].parent = y BY DEF ChildrenOf
    <3> QED BY <3>1, <3>2
  <2>3. Below(r) \subseteq S
    <3> HIDE DEF S, r
    <3> QED BY <1>1, <1>2, <2>1, <2>2, BelowCloses
  <2> QED BY <2>3
<1>8. \A x \in Below(r) \ {r} : x \in DOMAIN surviving
  <2> TAKE x \in Below(r) \ {r}
  <2>1. PICK j \in DOMAIN o : j >= i /\ x = o[j] BY <1>5 DEF L
  <2>2. j > remaining BY <1>1, <2>1
  <2> QED BY <2>1, <2>2, ReducedAre
<1> QED BY <1>5, <1>6, <1>7, <1>8 DEF HangsTogether

(* The flat join is the choice of one row of every relation that meets     *)
(* along the tree.                                                         *)
LEMMA FlatIsTuples ==
  ASSUME TreeStands
  PROVE  /\ FlatJoin(graph, tables) = Tuples(Relations(graph))
         /\ \A x \in Relations(graph) : ChildrenOf(x) \subseteq Relations(graph)
<1>1. \A p \in ToSet(graph.predicates) : {p.left, p.right} \subseteq Relations(graph)
  BY InputsAre DEF ToSet, TreeStands
<1>2. ToSet(graph.predicates)
        = {p \in ToSet(graph.predicates) : {p.left, p.right} \subseteq Relations(graph)}
  BY <1>1
<1>3. FlatJoin(graph, tables) = Tuples(Relations(graph)) BY <1>2, Zenon DEF FlatJoin, Tuples
<1>4. \A x \in Relations(graph) : ChildrenOf(x) \subseteq Relations(graph)
  BY EdgeIs DEF ChildrenOf
<1> QED BY <1>3, <1>4

(* What is left when the root is read: all relations hang below it.        *)
LEMMA AllHang ==
  ASSUME Reducible, remaining = 1
  PROVE  /\ HangsTogether(Relations(graph), ask.relation)
         /\ ask.relation = Current /\ ask.relation = tree.order[1] /\ 1 \in DOMAIN tree.order
         /\ FlatJoin(graph, tables) = Tuples(Relations(graph))
         /\ \A x \in Relations(graph) : ChildrenOf(x) \subseteq Relations(graph)
<1> DEFINE o == tree.order
<1>1. /\ TreeStands /\ Rooted /\ Len(o) \in Nat /\ DOMAIN o = 1 .. Len(o) /\ remaining \in DOMAIN o
      /\ ToSet(o) = Relations(graph)
      /\ \A j, k \in DOMAIN o : o[j] = o[k] => j = k
  BY WholeTree DEF Reducible, TreeStands, Rooted
<1>2. ask.relation = o[1] /\ ask.relation \in Relations(graph) BY <1>1 DEF Rooted
<1>3. ask.relation \notin DOMAIN tree.node /\ DOMAIN tree.node = Relations(graph) \ {ask.relation}
  BY <1>1 DEF Rooted
<1>4. \A x \in Relations(graph) \ {ask.relation} : x \in DOMAIN surviving
  <2> TAKE x \in Relations(graph) \ {ask.relation}
  <2>1. PICK j \in DOMAIN o : x = o[j] BY <1>1 DEF ToSet
  <2>2. j # 1 BY <1>2, <2>1
  <2>3. j > remaining BY <1>1, <2>2
  <2> QED BY <2>1, <2>3, ReducedAre
<1>5. \A x \in DOMAIN tree.node : tree.node[x].parent \in Relations(graph) BY <1>1, EdgeIs
<1>6. HangsTogether(Relations(graph), ask.relation)
  BY <1>2, <1>3, <1>4, <1>5 DEF HangsTogether
<1> QED BY <1>1, <1>2, <1>6, FlatIsTuples DEF Current

(* The keys held are those of the rows that take part in the join below.   *)
LEMMA SurvivorsDecide ==
  ASSUME Reducible
  PROVE  SurvivorsAreTheSemiJoin
<1> SUFFICES ASSUME NEW r \in DOMAIN surviving
             PROVE  {key \in Values : Held(surviving[r], key)}
                      = {tables[r][t[r]][tree.node[r].own] : t \in Tuples(Below(r))}
  BY Zenon DEF SurvivorsAreTheSemiJoin, Tuples
<1>1. PICK i \in DOMAIN tree.order : r = tree.order[i] /\ i > remaining
  BY DEF Reducible, SurvivingInv, ReducedRelations, TreeStands
<1>2. TreeStands /\ remaining \in Nat /\ i \in Nat /\ r \in Relations(graph) /\ i >= remaining
  BY <1>1, WholeTree DEF Reducible, TreeStands, RoundInv, ToSet
<1>3. r \in DOMAIN tree.node BY <1>1, <1>2, ReducedAre, ParentEarlier
<1>4. HangsTogether(Below(r), r) BY <1>1, <1>2, BelowHangs
<1>5. /\ Below(r) \subseteq Relations(graph) /\ r \in Below(r)
      /\ \A y \in Below(r) : ChildrenOf(y) \subseteq Below(r)
  BY <1>2, BelowCloses
<1>6. \A k \in Values : Held(surviving[r], k) <=> \E j \in Kept(r) : Own(r, j) = k
  BY DEF Reducible, SurvivingInv
<1>7. ASSUME NEW j \in Kept(r) PROVE \E t \in Tuples(Below(r)) : t[r] = j
  BY <1>4, KeptExtends
<1>8. ASSUME NEW t \in Tuples(Below(r)) PROVE t[r] \in Kept(r)
  BY <1>1, <1>2, <1>5, TupleSurvives
<1>9. \A j \in Kept(r) : Own(r, j) \in Values BY <1>2, <1>3, OwnValue DEF Kept
<1>10. \A j : Own(r, j) = tables[r][j][tree.node[r].own] BY DEF Own
<1> QED BY <1>6, <1>7, <1>8, <1>9, <1>10

(* The root's kept rows are the rows of the join's tuples.                 *)
LEMMA RootDecides ==
  ASSUME Reducible, remaining = 1
  PROVE  /\ Kept(ask.relation) = {t[ask.relation] : t \in FlatJoin(graph, tables)}
         /\ Current = ask.relation
<1>1. /\ HangsTogether(Relations(graph), ask.relation)
      /\ ask.relation = Current /\ ask.relation = tree.order[1] /\ 1 \in DOMAIN tree.order
      /\ FlatJoin(graph, tables) = Tuples(Relations(graph))
      /\ \A x \in Relations(graph) : ChildrenOf(x) \subseteq Relations(graph)
  BY AllHang
<1>2. ask.relation \in Relations(graph) BY <1>1 DEF HangsTogether
<1>3. ASSUME NEW j \in Kept(ask.relation) PROVE \E t \in Tuples(Relations(graph)) : t[ask.relation] = j
  BY <1>1, KeptExtends
<1>4. ASSUME NEW t \in Tuples(Relations(graph)) PROVE t[ask.relation] \in Kept(ask.relation)
  <2> DEFINE B == Relations(graph)
  <2>1. B \in SUBSET Relations(graph) /\ \A x \in B : ChildrenOf(x) \subseteq B BY <1>1
  <2> HIDE DEF B
  <2> QED BY <1>1, <1>2, <2>1, TupleSurvives DEF B
<1> QED BY <1>1, <1>3, <1>4

(***************************************************************************)
(* Extremes.                                                               *)
(***************************************************************************)

(* Finitely many numbers have a least and a greatest one.                  *)
LEMMA Bounded ==
  ASSUME NEW S \in SUBSET Int, S # {}, IsFiniteSet(S)
  PROVE  /\ \E m \in S : \A x \in S : m <= x
         /\ \E m \in S : \A x \in S : m >= x
<1> DEFINE Good(X) == /\ \E m \in X : \A x \in X : m <= x
                      /\ \E m \in X : \A x \in X : m >= x
           T == {n \in Nat : \E X \in SUBSET Int : /\ X # {} /\ IsFiniteSet(X) /\ Cardinality(X) = n
                                                   /\ ~Good(X)}
<1>1. SUFFICES ASSUME T # {} PROVE FALSE
  <2>1. Cardinality(S) \in Nat BY FS_CardinalityType
  <2> HIDE DEF Good
  <2>2. ~Good(S) => Cardinality(S) \in T BY <2>1
  <2>3. Good(S) BY <1>1, <2>2
  <2> QED BY <2>3 DEF Good
<1>2. PICK n \in T : \A k \in T : n <= k
  <2>1. T \in SUBSET Nat OBVIOUS
  <2> HIDE DEF T
  <2> QED BY <1>1, <2>1, LeastOf
<1>3. PICK X \in SUBSET Int : /\ X # {} /\ IsFiniteSet(X) /\ Cardinality(X) = n /\ ~Good(X)
  BY <1>2
<1>4. PICK y \in X : y \in Int BY <1>3
<1> DEFINE Y == X \ {y}
<1>5. IsFiniteSet(Y) /\ Cardinality(Y) = n - 1 /\ n \in Nat /\ n - 1 \in Nat
  <2>1. IsFiniteSet(Y) /\ Cardinality(Y) = n - 1 BY <1>3, <1>4, FS_RemoveElement
  <2>2. Cardinality(Y) \in Nat /\ n \in Nat BY <1>2, <2>1, FS_CardinalityType
  <2> QED BY <2>1, <2>2
<1>6. CASE Y = {}
  <2>1. X = {y} BY <1>4, <1>6
  <2> QED BY <1>3, <1>4, <2>1
<1>7. CASE Y # {}
  <2>1. n - 1 \notin T BY <1>2, <1>5
  <2>2. Good(Y)
    <3>1. Y \in SUBSET Int BY <1>3
    <3> HIDE DEF Y, Good
    <3> QED BY <1>5, <1>7, <2>1, <3>1
  <2>3. PICK lo \in Y, hi \in Y : \A x \in Y : lo <= x /\ hi >= x BY <2>2
  <2>4. lo \in X /\ hi \in X /\ X \subseteq Int /\ X = Y \cup {y} BY <1>3, <1>4
  <2> HIDE DEF Y, T
  <2>5. \E m \in X : \A x \in X : m <= x
    <3>1. CASE lo <= y BY <2>3, <2>4, <3>1
    <3>2. CASE ~(lo <= y)
      <4>1. \A x \in X : y <= x BY <2>3, <2>4, <3>2, <1>4
      <4> QED BY <1>4, <4>1
    <3> QED BY <3>1, <3>2
  <2>6. \E m \in X : \A x \in X : m >= x
    <3>1. CASE hi >= y BY <2>3, <2>4, <3>1
    <3>2. CASE ~(hi >= y)
      <4>1. \A x \in X : y >= x BY <2>3, <2>4, <3>2, <1>4
      <4> QED BY <1>4, <4>1
    <3> QED BY <3>1, <3>2
  <2> QED BY <1>3, <2>5, <2>6
<1> QED BY <1>6, <1>7

(* The extreme of some values is in them and none is beyond it; there is   *)
(* but one like that.                                                      *)
LEMMA ExtremeIs ==
  ASSUME NEW V \in SUBSET Values, NEW e
  PROVE  IsBest(e, V) <=> e = Extreme(V)
<1>1. V \in SUBSET Int /\ IsFiniteSet(V) BY ValuesAssumption, FS_Subset
<1>2. CASE V = {} BY <1>2 DEF IsBest, Extreme
<1>3. CASE V # {}
  <2>1. /\ Min(V) \in V /\ \A x \in V : Min(V) <= x
        /\ Max(V) \in V /\ \A x \in V : Max(V) >= x
    BY <1>1, <1>3, Bounded DEF Min, Max
  <2>2. IsBest(e, V) <=>
          \E m \in V : e = {m} /\ \A v \in V : IF ask.min THEN m <= v ELSE m >= v
    BY <1>3 DEF IsBest
  <2>3. CASE ask.min
    <3>1. \A m \in V : (\A v \in V : m <= v) <=> m = Min(V)
      <4> TAKE m \in V
      <4>1. (\A v \in V : m <= v) => m <= Min(V) /\ Min(V) <= m BY <2>1
      <4>2. m \in Int /\ Min(V) \in Int BY <1>1, <2>1
      <4> QED BY <2>1, <4>1, <4>2
    <3>2. Extreme(V) = {Min(V)} BY <1>3, <2>3 DEF Extreme
    <3> QED BY <2>1, <2>2, <2>3, <3>1, <3>2
  <2>4. CASE ~ask.min
    <3>1. \A m \in V : (\A v \in V : m >= v) <=> m = Max(V)
      <4> TAKE m \in V
      <4>1. (\A v \in V : m >= v) => m >= Max(V) /\ Max(V) >= m BY <2>1
      <4>2. m \in Int /\ Max(V) \in Int BY <1>1, <2>1
      <4> QED BY <2>1, <4>1, <4>2
    <3>2. Extreme(V) = {Max(V)} BY <1>3, <2>4 DEF Extreme
    <3> QED BY <2>1, <2>2, <2>4, <3>1, <3>2
  <2> QED BY <2>3, <2>4
<1> QED BY <1>2, <1>3

(* The extremes of parts have the extreme of the whole.                    *)
LEMMA BestOfBests ==
  ASSUME NEW C, NEW b, NEW V, \A w \in C : V[w] \in SUBSET Values /\ IsBest(b[w], V[w])
  PROVE  IsBest(Extreme(UNION {b[w] : w \in C}), UNION {V[w] : w \in C})
<1> DEFINE all == UNION {V[w] : w \in C}
           some == UNION {b[w] : w \in C}
           e == Extreme(some)
<1>1. all \in SUBSET Values /\ some \subseteq all
  <2>1. \A w \in C : b[w] \subseteq V[w] BY DEF IsBest
  <2> QED BY <2>1
<1>2. some \in SUBSET Values BY <1>1
<1>3. IsBest(e, some)
  <2> HIDE DEF some
  <2> QED BY <1>2, ExtremeIs
<1> HIDE DEF e
<1>4. CASE some = {}
  <2>1. \A w \in C : b[w] = {} BY <1>4
  <2>2. \A w \in C : V[w] = {} BY <2>1 DEF IsBest
  <2>3. all = {} BY <2>2
  <2>4. e = {} BY <1>3, <1>4 DEF IsBest
  <2> QED BY <2>3, <2>4 DEF IsBest, e
<1>5. CASE some # {}
  <2>1. PICK m \in some : e = {m} /\ \A v \in some : IF ask.min THEN m <= v ELSE m >= v
    BY <1>3, <1>5 DEF IsBest
  <2>2. m \in all BY <1>1
  <2>3. ASSUME NEW v \in all PROVE IF ask.min THEN m <= v ELSE m >= v
    <3>1. PICK w \in C : v \in V[w] OBVIOUS
    <3>2. PICK k \in V[w] : b[w] = {k} /\ IF ask.min THEN k <= v ELSE k >= v BY <3>1 DEF IsBest
    <3>3. k \in some BY <3>2
    <3>4. IF ask.min THEN m <= k ELSE m >= k BY <2>1, <3>3
    <3>5. m \in Int /\ k \in Int /\ v \in Int BY <1>1, <2>2, <3>3, ValuesAssumption
    <3> HIDE DEF all, some
    <3> QED BY <3>2, <3>4, <3>5
  <2> QED BY <2>1, <2>2, <2>3 DEF IsBest, e
<1> QED BY <1>4, <1>5

(* The extreme of a value and an extreme is that of all the values.        *)
LEMMA BestOfMore ==
  ASSUME NEW b, NEW V \in SUBSET Values, IsBest(b, V), NEW v \in Values
  PROVE  IsBest(Extreme(b \cup {v}), V \cup {v})
<1> DEFINE C == {1, 2}
           parts == [w \in C |-> IF w = 1 THEN b ELSE {v}]
           whole == [w \in C |-> IF w = 1 THEN V ELSE {v}]
<1>1. IsBest({v}, {v}) BY ValuesAssumption DEF IsBest
<1>2. \A w \in C : whole[w] \in SUBSET Values /\ IsBest(parts[w], whole[w])
  BY <1>1
<1>3. UNION {parts[w] : w \in C} = b \cup {v} /\ UNION {whole[w] : w \in C} = V \cup {v}
  OBVIOUS
<1> HIDE DEF C, parts, whole
<1>4. IsBest(Extreme(UNION {parts[w] : w \in C}), UNION {whole[w] : w \in C})
  BY <1>2, BestOfBests
<1> QED BY <1>3, <1>4

(***************************************************************************)
(* Shards.                                                                 *)
(***************************************************************************)

(* A key has its shard among the shards.                                   *)
LEMMA ShardIs ==
  ASSUME NEW shards, shards \in Seq(KeySets), shards # <<>>, NEW key \in Values
  PROVE  ShardOf(shards, key) \in DOMAIN shards
<1> DEFINE n == Shard[key]  m == Len(shards)
<1>1. n \in Int /\ m \in Nat \ {0} /\ DOMAIN shards = 1 .. m BY HashAssumption
<1> HIDE DEF n, m
<1>2. n % m \in 0 .. m - 1 BY <1>1, DivMod
<1>3. (n % m) + 1 \in 1 .. m BY <1>1, <1>2
<1> QED BY <1>1, <1>3 DEF ShardOf, n, m

(* A key is held when its own shard has it.                                *)
LEMMA HeldIs ==
  ASSUME NEW shards, SoundShards(shards), NEW key \in Values
  PROVE  /\ ShardOf(shards, key) \in DOMAIN shards
         /\ Held(shards, key) <=> key \in Members(shards[ShardOf(shards, key)])
<1> DEFINE s == ShardOf(shards, key)
<1>1. s \in DOMAIN shards BY ShardIs DEF SoundShards
<1>2. SoundSet(shards[s]) BY <1>1 DEF SoundShards
<1> QED BY <1>1, <1>2, ContainsIs DEF Held

(* No count and no flag means no key.                                      *)
LEMMA NoKeyInIs ==
  ASSUME NEW shards, SoundShards(shards), NoKeyIn(shards)
  PROVE  \A s \in DOMAIN shards : Members(shards[s]) = {}
<1> TAKE s \in DOMAIN shards
<1>1. SoundSet(shards[s]) /\ shards[s].count = 0 /\ ~shards[s].hasEmpty BY DEF SoundShards, NoKeyIn
<1>2. Stored(shards[s]) = {} BY <1>1, SetShape, FS_EmptySet DEF SoundSet
<1> QED BY <1>1, <1>2 DEF Members

(* A set with room for a key has an empty slot besides.                    *)
LEMMA HasRoomIs ==
  ASSUME NEW set, SoundSet(set), HasRoom(set)
  PROVE  set.count + 1 < Capacity(set)
<1> DEFINE m == Capacity(set)  q == m \div 5  r == m % 5
<1>1. m \in Nat /\ set.count \in Nat BY SetShape DEF SoundSet, KeySets
<1> HIDE DEF m
<1>2. q \in Int /\ r \in 0 .. 4 /\ m = 5 * q + r BY <1>1, DivMod
<1>3. set.count + 1 < q * 3 BY DEF HasRoom, m
<1> HIDE DEF q, r
<1> QED BY <1>1, <1>2, <1>3 DEF m

(* The set that nothing was put in.                                        *)
LEMMA NoKeysIs == SoundSet(NoKeys) /\ Members(NoKeys) = {} /\ NoKeys \in KeySets
<1>1. NoKeys \in KeySets /\ NoKeys.slots = <<>> /\ NoKeys.count = 0 /\ ~NoKeys.hasEmpty
  BY DEF NoKeys, KeySets
<1>2. Filled(NoKeys) = {} /\ Capacity(NoKeys) = 0 BY <1>1 DEF Filled, Capacity
<1>3. Stored(NoKeys) = {} BY <1>2 DEF Stored
<1> QED BY <1>1, <1>2, <1>3, FS_EmptySet DEF SoundSet, Members

(***************************************************************************)
(* Spans.                                                                  *)
(***************************************************************************)

(* A team has at least its caller.                                         *)
LEMMA WorkersAre ==
  ASSUME InputsInv
  PROVE  Workers \in Nat \ {0}
<1> DEFINE S == {1} \cup {n \in {2, 4, 8, 16, 32, 64} : n <= ask.threads}
           all == {1, 2, 4, 8, 16, 32, 64}
<1>1. S \in SUBSET Int /\ S # {} /\ S \subseteq 1 .. 64 OBVIOUS
<1>2. IsFiniteSet(S)
  <2>0. 1 \in Int /\ 64 \in Int OBVIOUS
  <2>1. IsFiniteSet(1 .. 64) BY <2>0, FS_Interval, Zenon
  <2> HIDE DEF S
  <2> QED BY <1>1, <2>1, FS_Subset
<1> HIDE DEF S
<1>3. \E m \in S : \A x \in S : m >= x BY <1>1, <1>2, Bounded
<1>4. Max(S) \in S BY <1>3 DEF Max
<1>5. ParallelWorkers(ask.threads) = Max(S) BY DEF ParallelWorkers, S
<1>6. ParallelWorkers(ask.threads) \in Nat \ {0}
  <2>1. \A x \in S : x \in Nat \ {0} BY <1>1
  <2> QED BY <1>4, <1>5, <2>1, Zenon
<1>7. 1 \in Nat \ {0} OBVIOUS
<1> QED BY <1>6, <1>7, Zenon DEF Workers

(* The smaller of two numbers.                                             *)
LEMMA MinOfTwo ==
  ASSUME NEW a \in Int, NEW b \in Int
  PROVE  Min({a, b}) \in {a, b} /\ Min({a, b}) <= a /\ Min({a, b}) <= b
<1>1. \E m \in {a, b} : \A x \in {a, b} : m <= x
  <2>1. CASE a <= b BY <2>1
  <2>2. CASE ~(a <= b) BY <2>2
  <2> QED BY <2>1, <2>2
<1> QED BY <1>1 DEF Min

(* A span begins within the rows' numbers and ends no later than they do.  *)
LEMMA SpansAre ==
  ASSUME InputsInv, Current \in Relations(graph), NEW w \in Crew
  PROVE  /\ SpanSize \in Nat /\ FirstRow(w) \in Nat \ {0} /\ LastRow(w) \in Nat
         /\ LastRow(w) <= Len(Rows) /\ LastRow(w) <= w * SpanSize
         /\ LastRow(w) \in {Len(Rows), w * SpanSize}
<1> DEFINE n == Len(Rows) + Workers - 1  m == Workers  L == Len(Rows)
<1>1. m \in Nat \ {0} /\ L \in Nat /\ w \in 1 .. m
  BY WorkersAre, InputsAre DEF Rows, Crew
<1>2. n \in Nat BY <1>1
<1>3. SpanSize = n \div m BY DEF SpanSize
<1> HIDE DEF n, m, L
<1> DEFINE q == SpanSize  r == n % m
<1>4. q \in Int /\ r \in 0 .. m - 1 /\ n = m * q + r BY <1>1, <1>2, <1>3, DivMod
<1> HIDE DEF q, r
<1>5. q \in Nat
  <2> SUFFICES ASSUME q <= -1 PROVE FALSE BY <1>4
  <2>1. m * q <= m * (-1) BY <1>1, <1>4, ProductMonotonic
  <2> QED BY <1>1, <1>2, <1>4, <2>1
<1>6. (w - 1) * q + 1 \in Nat \ {0} /\ w * q \in Nat
  <2>1. w - 1 \in Nat /\ w \in Nat BY <1>1
  <2> QED BY <1>5, <2>1
<1>7. FirstRow(w) = (w - 1) * q + 1 /\ LastRow(w) = Min({L, w * q}) BY DEF FirstRow, LastRow, q, L
<1> DEFINE e == w * q
<1>8. e \in Int /\ L \in Int BY <1>1, <1>6
<1>9. Min({L, e}) \in {L, e} /\ Min({L, e}) <= L /\ Min({L, e}) <= e
  <2> HIDE DEF e
  <2> QED BY <1>8, MinOfTwo
<1> QED BY <1>1, <1>5, <1>6, <1>7, <1>9 DEF q, L

(* The spans are all the rows.                                             *)
LEMMA SpansCover ==
  ASSUME InputsInv, Current \in Relations(graph), NEW j \in DOMAIN Rows
  PROVE  \E w \in Crew : FirstRow(w) <= j /\ j <= LastRow(w)
<1> DEFINE n == Len(Rows) + Workers - 1  m == Workers  L == Len(Rows)
<1>1. m \in Nat \ {0} /\ L \in Nat /\ DOMAIN Rows = 1 .. L
  BY WorkersAre, InputsAre DEF Rows
<1>2. n \in Nat /\ j \in 1 .. L BY <1>1
<1>21. n = L + m - 1 OBVIOUS
<1>3. SpanSize = n \div m /\ Crew = 1 .. m BY DEF SpanSize, Crew
<1> HIDE DEF n, m, L
<1> DEFINE q == SpanSize  r == n % m
<1>4. q \in Int /\ r \in 0 .. m - 1 /\ n = m * q + r
  <2>1. n \in Int /\ m \in Nat \ {0} /\ q = n \div m BY <1>1, <1>2, <1>3
  <2> HIDE DEF q
  <2> QED BY <2>1, DivMod
<1> HIDE DEF q, r
<1>5. m * q >= L BY <1>1, <1>2, <1>21, <1>4
<1>6. q \in Nat \ {0}
  <2> SUFFICES ASSUME q <= 0 PROVE FALSE BY <1>4
  <2>1. m * q <= m * 0 BY <1>1, <1>4, ProductMonotonic
  <2>2. m * 0 = 0 /\ m * q \in Int BY <1>1, <1>4
  <2> QED BY <1>1, <1>2, <1>5, <2>1, <2>2
<1> DEFINE i == j - 1  p == i \div q  s == i % q
<1>7. i \in Int /\ i \in 0 .. L - 1 BY <1>1, <1>2
<1> HIDE DEF i
<1>8. p \in Int /\ s \in 0 .. q - 1 /\ i = q * p + s BY <1>6, <1>7, DivMod
<1> HIDE DEF p, s
<1>9. p >= 0
  <2> SUFFICES ASSUME p <= -1 PROVE FALSE BY <1>8
  <2>1. q * p <= q * (-1) BY <1>6, <1>8, ProductMonotonic
  <2> QED BY <1>6, <1>7, <1>8, <2>1
<1>10. p < m
  <2> SUFFICES ASSUME m <= p PROVE FALSE BY <1>1, <1>8
  <2>1. q * m <= q * p BY <1>1, <1>6, <1>8, ProductMonotonic
  <2>2. q * m = m * q BY <1>1, <1>6
  <2> QED BY <1>1, <1>5, <1>6, <1>7, <1>8, <2>1, <2>2
<1> DEFINE w == p + 1
<1>11. w \in 1 .. m BY <1>1, <1>8, <1>9, <1>10
<1>12. w * q = q * p + q /\ (w - 1) * q = q * p BY <1>6, <1>8
<1> HIDE DEF w
<1>13. FirstRow(w) = (w - 1) * q + 1 BY DEF FirstRow, q
<1>14. LastRow(w) \in {L, w * q}
  <2>1. w \in Crew BY <1>3, <1>11
  <2> QED BY <2>1, SpansAre DEF L, q
<1>15. j = q * p + s + 1 BY <1>2, <1>7, <1>8 DEF i
<1>16. q * p \in Int BY <1>6, <1>8
<1>17. FirstRow(w) <= j BY <1>8, <1>12, <1>13, <1>15, <1>16
<1>18. j <= LastRow(w) BY <1>1, <1>2, <1>6, <1>8, <1>12, <1>14, <1>15, <1>16
<1> QED BY <1>3, <1>11, <1>17, <1>18

(* The parts of the invariant stay as long as what they are about does.    *)
LEMMA InputsStay ==
  ASSUME InputsInv, UNCHANGED <<graph, tables, ask>>
  PROVE  InputsInv'
BY DEF InputsInv

(* The tree stays a tree.                                                  *)
LEMMA TreeStays ==
  ASSUME TreeInv, UNCHANGED <<graph, ask, tree, visit>>
  PROVE  TreeInv'
<1>1. Rooted => Rooted' BY DEF Rooted, IsSpanning, Relations, Columns, Hangs
<1> QED BY <1>1 DEF TreeInv, Relations

(* What a relation keeps is decided by what is below it.                   *)
LEMMA KeptStays ==
  ASSUME UNCHANGED <<tables, tree, surviving>>
  PROVE  \A x, j : /\ Own(x, j)' = Own(x, j) /\ Passes(x, j)' = Passes(x, j) /\ Kept(x)' = Kept(x)
                   /\ ChildrenOf(x)' = ChildrenOf(x)
BY DEF Own, Passes, Kept, ChildrenOf, Held, KeySetContains, ShardOf, Probe, At, Capacity

(* What was reduced stays reduced.                                         *)
LEMMA SurvivingStays ==
  ASSUME SurvivingInv, UNCHANGED <<tables, tree, surviving, remaining>>
  PROVE  SurvivingInv'
<1>1. ReducedRelations' = ReducedRelations BY DEF ReducedRelations
<1>2. \A k : \A x : Held(surviving[x], k)' = Held(surviving[x], k)
  BY DEF Held, KeySetContains, ShardOf, Probe, At, Capacity
<1>3. \A x : SoundShards(surviving[x])' = SoundShards(surviving[x])
  BY DEF SoundShards
<1> QED BY <1>1, <1>2, <1>3, KeptStays DEF SurvivingInv

(* An answer that was exact stays exact.                                   *)
LEMMA ExactStays ==
  ASSUME ReducedExtremeIsExact, UNCHANGED <<graph, tables, ask, result>>
  PROVE  ReducedExtremeIsExact'
<1> DEFINE join == FlatJoin(graph, tables)
           values == {tables[ask.relation][t[ask.relation]][ask.column] : t \in join}
<1>1. join' = join OBVIOUS
<1>2. values' = values BY <1>1
<1>3. Extreme(values)' = Extreme(values) BY <1>2 DEF Extreme
<1>4. ReducedExtremeIsExact
        <=> (result.ok => (result.any <=> join # {}) /\ result.value = Extreme(values))
  BY Zenon DEF ReducedExtremeIsExact
<1>5. ReducedExtremeIsExact'
        <=> (result'.ok => (result'.any <=> join' # {}) /\ result'.value = Extreme(values)')
  BY Zenon DEF ReducedExtremeIsExact
<1> HIDE DEF join, values
<1> QED BY <1>1, <1>3, <1>4, <1>5

(* An error answers nothing.                                               *)
LEMMA ErrorIsExact ==
  ASSUME ~result'.ok
  PROVE  ReducedExtremeIsExact'
BY DEF ReducedExtremeIsExact

(* What the team of a relation works with.                                 *)
LEMMA ShapeStays ==
  ASSUME UNCHANGED <<graph, tables, ask, tree, remaining>>
  PROVE  /\ Current' = Current /\ Rows' = Rows /\ IsRoot' = IsRoot /\ Workers' = Workers
         /\ Crew' = Crew /\ SpanSize' = SpanSize
         /\ \A w : FirstRow(w)' = FirstRow(w) /\ LastRow(w)' = LastRow(w)
<1>1. Current' = Current /\ Rows' = Rows /\ IsRoot' = IsRoot BY DEF Current, Rows, IsRoot
<1>2. Workers' = Workers BY <1>1 DEF Workers, ParallelWorkers
<1>3. Crew' = Crew /\ SpanSize' = SpanSize BY <1>1, <1>2 DEF Crew, SpanSize
<1>4. \A w : FirstRow(w)' = FirstRow(w) /\ LastRow(w)' = LastRow(w)
  BY <1>1, <1>3 DEF FirstRow, LastRow
<1> QED BY <1>1, <1>2, <1>3, <1>4

(* A step of the team leaves everything but its own work as it was.        *)
Framed == /\ UNCHANGED <<graph, tables, ask, tree, visit, remaining, surviving, result>>
          /\ round' = round

(* What such a step keeps.                                                 *)
LEMMA FrameKeeps ==
  ASSUME IInv, Framed
  PROVE  /\ InputsInv' /\ TreeInv' /\ RoundInv' /\ SurvivingInv' /\ ReducedExtremeIsExact'
         /\ Current' = Current /\ Rows' = Rows /\ IsRoot' = IsRoot /\ Workers' = Workers
         /\ Crew' = Crew
         /\ \A w : FirstRow(w)' = FirstRow(w) /\ LastRow(w)' = LastRow(w)
         /\ \A x, j : Own(x, j)' = Own(x, j) /\ Kept(x)' = Kept(x)
<1>1. /\ InputsInv /\ TreeInv /\ RoundInv /\ SurvivingInv /\ ReducedExtremeIsExact
      /\ UNCHANGED <<graph, tables, ask, tree, visit, remaining, surviving, result>>
      /\ round' = round
  BY DEF IInv, Framed
<1>2. InputsInv' BY <1>1, InputsStay
<1>3. TreeInv' BY <1>1, TreeStays
<1>4. SurvivingInv' BY <1>1, SurvivingStays
<1>5. ReducedExtremeIsExact' BY <1>1, ExactStays
<1>6. /\ Current' = Current /\ Rows' = Rows /\ IsRoot' = IsRoot /\ Workers' = Workers
      /\ Crew' = Crew
      /\ \A w : FirstRow(w)' = FirstRow(w) /\ LastRow(w)' = LastRow(w)
  BY <1>1, ShapeStays
<1>7. RoundInv' BY <1>1, <1>6 DEF RoundInv
<1>8. \A x, j : Own(x, j)' = Own(x, j) /\ Kept(x)' = Kept(x) BY <1>1, KeptStays
<1> QED BY <1>2, <1>3, <1>4, <1>5, <1>6, <1>7, <1>8

(* The relation a team works on, and the team.                             *)
LEMMA TeamIs ==
  ASSUME IInv, InTeam
  PROVE  /\ Reducible /\ remaining \in DOMAIN tree.order /\ Current \in Relations(graph)
         /\ DOMAIN tree.order = 1 .. Len(tree.order) /\ Len(tree.order) \in Nat
         /\ Workers \in Nat \ {0} /\ Crew = 1 .. Workers /\ 1 \in Crew
         /\ DOMAIN pc = Crew /\ DOMAIN keys = Crew
         /\ IsRoot <=> remaining = 1
<1>1. round \in {"probe", "fill"} /\ InputsInv /\ TreeInv /\ RoundInv /\ SurvivingInv /\ TeamInv /\ WorkInv
  BY DEF IInv, InTeam
<1>2. remaining # 0 BY <1>1 DEF RoundInv
<1>3. Reducible BY <1>1, <1>2 DEF Reducible, TreeStands
<1>4. /\ Rooted /\ Len(tree.order) \in Nat /\ DOMAIN tree.order = 1 .. Len(tree.order)
      /\ remaining \in DOMAIN tree.order
      /\ ToSet(tree.order) = Relations(graph)
  BY <1>1, <1>2, WholeTree
<1>5. Current \in Relations(graph) BY <1>4 DEF Current, ToSet
<1>6. Workers \in Nat \ {0} /\ Crew = 1 .. Workers /\ 1 \in Crew BY <1>1, WorkersAre DEF Crew
<1>7. DOMAIN pc = Crew BY <1>1 DEF TeamInv
<1>8. DOMAIN keys = Crew BY <1>1, <1>6 DEF WorkInv, SoundShards
<1>9. IsRoot <=> remaining = 1 BY <1>4 DEF IsRoot, Current, Rooted
<1> QED BY <1>3, <1>4, <1>5, <1>6, <1>7, <1>8, <1>9

(* The invariant holds at first.                                           *)
LEMMA InitHolds == Init => IInv
<1> SUFFICES ASSUME Init PROVE IInv OBVIOUS
<1> USE DEF Init
<1>1. InputsInv BY DEF InputsInv
<1>2. TreeInv BY DEF TreeInv
<1>3. RoundInv BY DEF RoundInv
<1>4. SurvivingInv BY DEF SurvivingInv
<1>5. TeamInv BY DEF TeamInv
<1>6. WorkInv /\ ProbeInv /\ FillInv BY DEF WorkInv, ProbeInv, FillInv
<1>7. ReducedExtremeIsExact BY DEF ReducedExtremeIsExact, Error
<1> QED BY <1>1, <1>2, <1>3, <1>4, <1>5, <1>6, <1>7 DEF IInv

(* Between the teams nothing is said of their work.                        *)
LEMMA NoWork ==
  ASSUME ~InTeam
  PROVE  WorkInv /\ ProbeInv /\ FillInv
BY DEF InTeam, WorkInv, ProbeInv, FillInv

(* Preparing refuses the question or places its relation as the root.      *)
LEMMA PrepareKeeps ==
  ASSUME IInv, Prepare
  PROVE  IInv'
<1>1. /\ InputsInv /\ TreeInv /\ RoundInv /\ SurvivingInv /\ TeamInv /\ ReducedExtremeIsExact
      /\ round = "plan" /\ remaining = 0 /\ tree = [order |-> <<>>, used |-> {}, node |-> << >>]
      /\ UNCHANGED <<graph, tables, ask, visit, remaining, surviving, at, buckets, best, keys>>
      /\ UNCHANGED pc
  BY DEF IInv, RoundInv, Prepare, Untouched, WorkKept, Return
<1>2. InputsInv' BY <1>1, InputsStay
<1>3. CASE \E why : Return(Error(why)) /\ UNCHANGED tree
  <2>1. round' = "done" /\ ~result'.ok /\ UNCHANGED tree BY <1>3 DEF Return, Error
  <2>2. TreeInv' BY <1>1, <2>1, TreeStays
  <2>3. SurvivingInv' BY <1>1, <2>1, SurvivingStays
  <2>4. RoundInv' BY <1>1, <2>1 DEF RoundInv
  <2>5. TeamInv' BY <1>1, <2>1 DEF TeamInv
  <2>6. (WorkInv /\ ProbeInv /\ FillInv)'
    <3>1. ~InTeam' BY <2>1 DEF InTeam
    <3>2. ~InTeam' => (WorkInv /\ ProbeInv /\ FillInv)' BY NoWork, PTL
    <3> QED BY <3>1, <3>2
  <2> QED BY <1>2, <2>1, <2>2, <2>3, <2>4, <2>5, <2>6, ErrorIsExact DEF IInv
<1>4. CASE /\ ~Refused /\ IsSpanning(graph)
           /\ round' = "walk" /\ tree' = [tree EXCEPT !.order = <<ask.relation>>]
           /\ UNCHANGED <<pc, failed, result>>
  <2> DEFINE r == ask.relation
  <2>1. r \in Relations(graph) /\ ask.column \in Columns(graph, r) BY <1>4 DEF Refused
  <2>2. /\ tree'.order = <<r>> /\ tree'.used = {} /\ tree'.node = << >>
        /\ Len(tree'.order) = 1 /\ DOMAIN tree'.order = {1} /\ tree'.order # <<>>
        /\ tree'.order \in Seq(Relations(graph))
    BY <1>1, <1>4, <2>1
  <2>3. DOMAIN tree'.node = {} BY <2>2
  <2>4. TreeInv'
    <3>1. ToSet(tree'.order) = {r} BY <2>2 DEF ToSet
    <3>2. Cardinality(tree'.used) + 1 = Len(tree'.order) BY <2>2, FS_EmptySet
    <3>3. Rooted'
      BY <1>1, <1>4, <2>1, <2>2, <2>3, <3>1, <3>2 DEF Rooted, IsSpanning, Relations, Columns
    <3> QED BY <1>1, <2>2, <3>3 DEF TreeInv, Relations
  <2>5. RoundInv' BY <1>1, <1>4, <2>2 DEF RoundInv
  <2>6. SurvivingInv' BY <1>1 DEF SurvivingInv
  <2>7. TeamInv' BY <1>1, <1>4 DEF TeamInv
  <2>8. (WorkInv /\ ProbeInv /\ FillInv)'
    <3>1. ~InTeam' BY <1>4 DEF InTeam
    <3>2. ~InTeam' => (WorkInv /\ ProbeInv /\ FillInv)' BY NoWork, PTL
    <3> QED BY <3>1, <3>2
  <2>9. ReducedExtremeIsExact' BY <1>1, <1>4, ExactStays
  <2> QED BY <1>2, <2>4, <2>5, <2>6, <2>7, <2>8, <2>9 DEF IInv
<1> QED BY <1>3, <1>4 DEF Prepare, ReducibleByExtremeReduction

(* A step of the walk keeps the invariant.                                 *)
LEMMA VisitStepKeeps ==
  ASSUME IInv, Visit
  PROVE  IInv'
<1>1. /\ InputsInv /\ TreeInv /\ RoundInv /\ SurvivingInv /\ TeamInv /\ ReducedExtremeIsExact
      /\ round = "walk" /\ remaining = 0
      /\ UNCHANGED <<graph, tables, ask, remaining, surviving, round, pc, result>>
  BY DEF IInv, RoundInv, Visit, Untouched
<1>2. InputsInv' BY <1>1, InputsStay
<1>3. TreeInv' /\ tree'.order # <<>> BY <1>1, VisitKeeps
<1>4. RoundInv' BY <1>1, <1>3 DEF RoundInv
<1>5. SurvivingInv' BY <1>1 DEF SurvivingInv
<1>6. TeamInv' BY <1>1 DEF TeamInv
<1>7. (WorkInv /\ ProbeInv /\ FillInv)'
  <2>1. ~InTeam' BY <1>1 DEF InTeam
  <2>2. ~InTeam' => (WorkInv /\ ProbeInv /\ FillInv)' BY NoWork, PTL
  <2> QED BY <2>1, <2>2
<1>8. ReducedExtremeIsExact' BY <1>1, ExactStays
<1> QED BY <1>2, <1>3, <1>4, <1>5, <1>6, <1>7, <1>8 DEF IInv

(* When the walk has ended, no relation is reduced yet.                    *)
LEMMA PlantedKeeps ==
  ASSUME IInv, Planted
  PROVE  IInv'
<1>1. /\ InputsInv /\ TreeInv /\ RoundInv /\ SurvivingInv /\ TeamInv /\ ReducedExtremeIsExact
      /\ round = "walk" /\ remaining = 0 /\ tree.order # <<>>
      /\ UNCHANGED <<graph, tables, ask, tree, visit, surviving, pc>>
      /\ round' \in {"done", "read"}
  BY DEF IInv, RoundInv, Planted, Untouched, TreeKept, Return
<1>2. InputsInv' BY <1>1, InputsStay
<1>3. TreeInv' BY <1>1, TreeStays
<1>4. TeamInv' BY <1>1 DEF TeamInv
<1>5. (WorkInv /\ ProbeInv /\ FillInv)'
  <2>1. ~InTeam' BY <1>1 DEF InTeam
  <2>2. ~InTeam' => (WorkInv /\ ProbeInv /\ FillInv)' BY NoWork, PTL
  <2> QED BY <2>1, <2>2
<1>6. CASE Return(Error("disconnected")) /\ UNCHANGED remaining
  <2>1. round' = "done" /\ ~result'.ok /\ UNCHANGED remaining BY <1>6 DEF Return, Error
  <2>2. RoundInv' BY <1>1, <2>1 DEF RoundInv
  <2>3. SurvivingInv' BY <1>1, <2>1, SurvivingStays
  <2> QED BY <1>2, <1>3, <1>4, <1>5, <2>1, <2>2, <2>3, ErrorIsExact DEF IInv
<1>7. CASE /\ Len(tree.order) = Len(graph.types)
           /\ round' = "read" /\ remaining' = Len(tree.order) /\ UNCHANGED result
  <2>1. Len(tree.order) \in Nat \ {0} /\ DOMAIN tree.order = 1 .. Len(tree.order)
    BY <1>1 DEF TreeInv
  <2>2. RoundInv' BY <1>1, <1>7, <2>1 DEF RoundInv
  <2>3. ReducedRelations' = {} BY <1>1, <1>7, <2>1 DEF ReducedRelations
  <2>4. SurvivingInv' BY <1>1, <1>7, <2>1, <2>3 DEF SurvivingInv
  <2>5. ReducedExtremeIsExact' BY <1>1, <1>7, ExactStays
  <2> QED BY <1>2, <1>3, <1>4, <1>5, <2>2, <2>4, <2>5 DEF IInv
<1> QED BY <1>6, <1>7 DEF Planted

(* A relation's reading starts with no row behind anybody.                 *)
LEMMA ReadKeeps ==
  ASSUME IInv, Read
  PROVE  IInv'
<1>1. /\ InputsInv /\ TreeInv /\ RoundInv /\ SurvivingInv /\ TeamInv /\ ReducedExtremeIsExact
      /\ round = "read" /\ round' = "probe" /\ remaining # 0
      /\ UNCHANGED <<graph, tables, ask, tree, visit, remaining, surviving, result>>
      /\ pc' = [w \in Crew |-> IF w = 1 THEN "waiting" ELSE "unborn"]
      /\ at' = [w \in Crew |-> FirstRow(w)]
      /\ buckets' = [w \in Crew |-> [s \in Crew |-> <<>>]]
      /\ best' = [w \in Crew |-> {}]
      /\ keys' = [s \in 1 .. Workers |-> NoKeys]
  BY DEF IInv, RoundInv, Read, StartTeam, Fresh, Untouched, TreeKept, Crew
<1>2. InputsInv' /\ TreeInv' /\ SurvivingInv' /\ ReducedExtremeIsExact'
  BY <1>1, InputsStay, TreeStays, SurvivingStays, ExactStays
<1>3. /\ Current' = Current /\ Rows' = Rows /\ IsRoot' = IsRoot /\ Workers' = Workers
      /\ Crew' = Crew
      /\ \A w : FirstRow(w)' = FirstRow(w) /\ LastRow(w)' = LastRow(w)
  BY <1>1, ShapeStays
<1>4. RoundInv' BY <1>1 DEF RoundInv
<1>5. Workers \in Nat \ {0} /\ Crew = 1 .. Workers /\ 1 \in Crew BY <1>1, WorkersAre DEF Crew
<1>6. TeamInv' BY <1>1, <1>3, <1>5 DEF TeamInv
<1>7. Current \in Relations(graph) BY <1>1, WholeTree DEF Current, ToSet
<1>8. \A w \in Crew : FirstRow(w) \in Nat BY <1>1, <1>7, SpansAre
<1>9. WorkInv'
  <2> DEFINE ks == [s \in 1 .. Workers |-> NoKeys]
  <2>1. ks \in Seq(KeySets) /\ Len(ks) = Workers /\ ks # <<>> /\ DOMAIN ks = 1 .. Workers
    <3>1. Workers \in Nat \ {0} /\ NoKeys \in KeySets BY <1>5, NoKeysIs
    <3> HIDE DEF KeySets
    <3> QED BY <3>1
  <2>2. \A s \in DOMAIN ks : SoundSet(ks[s]) BY <2>1, NoKeysIs
  <2>3. SoundShards(ks) BY <2>1, <2>2, Zenon DEF SoundShards
  <2>4. SoundShards(keys)' /\ Len(keys') = Workers
    <3>1. keys' = ks BY <1>1
    <3> HIDE DEF ks
    <3>2. SoundShards(keys') BY <2>3, <3>1
    <3> QED BY <2>1, <3>1, <3>2 DEF SoundShards
  <2>5. buckets' \in [Crew -> [Crew -> Seq(Values)]]
    <3>1. <<>> \in Seq(Values) OBVIOUS
    <3> QED BY <1>1, <3>1
  <2>6. at' \in [Crew -> Nat] BY <1>1, <1>8
  <2>7. best' \in [Crew -> SUBSET Values] BY <1>1
  <2> QED BY <1>3, <2>4, <2>5, <2>6, <2>7 DEF WorkInv
<1>10. ProbeInv'
  <2>1. \A w \in Crew : Behind(w)' = {}
    <3> TAKE w \in Crew
    <3>1. at'[w] = FirstRow(w) /\ FirstRow(w)' = FirstRow(w) BY <1>1, <1>3
    <3>2. \A j \in Kept(Current)' : j \in Nat
      <4>1. \A j \in DOMAIN tables[Current] : j \in Nat BY <1>1, <1>7, InputsAre
      <4> QED BY <1>1, <1>3, <4>1 DEF Kept
    <3>3. FirstRow(w) \in Nat BY <1>8
    <3> QED BY <3>1, <3>2, <3>3 DEF Behind
  <2>2. \A s \in Crew : keys'[s] = NoKeys BY <1>1, <1>5
  <2>3. \A w \in Crew : FirstRow(w)' <= at'[w] BY <1>1, <1>3, <1>8
  <2>4. \A w \in Crew : pc'[w] # "ended" BY <1>1
  <2>5. \A w, s \in Crew : ToSet(buckets'[w][s]) = OfShard(Behind(w), s)'
    <3> TAKE w, s \in Crew
    <3>1. buckets'[w][s] = <<>> BY <1>1
    <3>2. ToSet(buckets'[w][s]) = {} BY <3>1 DEF ToSet
    <3>3. OfShard(Behind(w), s)' = {} BY <2>1 DEF OfShard
    <3> QED BY <3>2, <3>3
  <2>6. \A w \in Crew : IsBest(best[w], Asked(Behind(w)))'
    <3> TAKE w \in Crew
    <3>1. Asked(Behind(w))' = {} /\ best'[w] = {} BY <1>1, <2>1 DEF Asked
    <3> QED BY <3>1 DEF IsBest
  <2> QED BY <1>3, <2>2, <2>3, <2>4, <2>5, <2>6 DEF ProbeInv
<1>11. FillInv' BY <1>1 DEF FillInv
<1> QED BY <1>2, <1>4, <1>6, <1>9, <1>10, <1>11 DEF IInv

(* Only who is at what changes: a worker that ends has done its work, or   *)
(* the team has failed.                                                    *)
LEMMA TeamStepKeeps ==
  ASSUME IInv, InTeam, Framed, UNCHANGED <<at, buckets, best, keys>>, TeamInv',
         ~failed' => ~failed,
         \A w \in Crew : pc'[w] = "ended" /\ ~failed' => pc[w] = "ended" \/ WorkDone(w)
  PROVE  IInv'
<1>1. /\ InputsInv' /\ TreeInv' /\ RoundInv' /\ SurvivingInv' /\ ReducedExtremeIsExact'
      /\ Current' = Current /\ Rows' = Rows /\ IsRoot' = IsRoot /\ Workers' = Workers
      /\ Crew' = Crew
      /\ \A w : FirstRow(w)' = FirstRow(w) /\ LastRow(w)' = LastRow(w)
      /\ \A x, j : Own(x, j)' = Own(x, j) /\ Kept(x)' = Kept(x)
  BY FrameKeeps
<1>2. WorkInv /\ ProbeInv /\ FillInv /\ InputsInv BY DEF IInv
<1>3. round' = round /\ UNCHANGED <<at, buckets, best, keys, tables, ask>> BY DEF Framed
<1>4. WorkInv'
  <2>1. SoundShards(keys)' <=> SoundShards(keys) BY <1>3
  <2> QED BY <1>1, <1>2, <1>3, <2>1 DEF WorkInv
<1>5. \A w : Behind(w)' = Behind(w) BY <1>1, <1>3 DEF Behind
<1>6. \A w : Asked(Behind(w))' = Asked(Behind(w)) BY <1>1, <1>3, <1>5 DEF Asked
<1>7. \A k : ShardOf(keys, k)' = ShardOf(keys, k) BY <1>3 DEF ShardOf
<1>8. \A w, s : OfShard(Behind(w), s)' = OfShard(Behind(w), s)
  BY <1>1, <1>5, <1>7 DEF OfShard
<1>9. \A s : OfShard(Kept(Current), s)' = OfShard(Kept(Current), s)
  BY <1>1, <1>7 DEF OfShard
<1>10. ProbeInv'
  <2> SUFFICES ASSUME round = "probe" PROVE ProbeInv' BY <1>3 DEF ProbeInv
  <2>1. \A w \in Crew : pc'[w] = "ended" /\ ~failed' => at[w] > LastRow(w)
    <3> TAKE w \in Crew
    <3> SUFFICES ASSUME pc'[w] = "ended", ~failed' PROVE at[w] > LastRow(w) OBVIOUS
    <3>1. CASE pc[w] = "ended" BY <1>2, <3>1 DEF ProbeInv
    <3>2. CASE WorkDone(w) BY <3>2 DEF WorkDone
    <3> QED BY <3>1, <3>2
  <2>2. \A w : IsBest(best[w], Asked(Behind(w)))' <=> IsBest(best[w], Asked(Behind(w)))
    BY <1>3, <1>6 DEF IsBest
  <2> QED BY <1>1, <1>2, <1>3, <1>8, <2>1, <2>2 DEF ProbeInv
<1>11. FillInv'
  <2> SUFFICES ASSUME round = "fill" PROVE FillInv' BY <1>3 DEF FillInv
  <2>1. \A s : Waiting(s)' = Waiting(s) BY <1>1, <1>3 DEF Waiting
  <2>2. \A s \in Crew : pc'[s] = "ended" /\ ~failed' => Waiting(s) = {}
    <3> TAKE s \in Crew
    <3> SUFFICES ASSUME pc'[s] = "ended", ~failed' PROVE Waiting(s) = {} OBVIOUS
    <3>1. CASE pc[s] = "ended" BY <1>2, <3>1 DEF FillInv
    <3>2. CASE WorkDone(s)
      <4>1. DOMAIN buckets = Crew BY <1>2 DEF WorkInv
      <4>2. \A b \in Crew : buckets[b][s] = <<>> BY <3>2, <4>1 DEF WorkDone, Undrained
      <4> QED BY <4>2 DEF Waiting, ToSet
    <3> QED BY <3>1, <3>2
  <2>3. \A s : Members(keys[s])' = Members(keys[s]) BY <1>3 DEF Members, Stored, Filled
  <2> QED BY <1>1, <1>2, <1>3, <1>9, <2>1, <2>2, <2>3 DEF FillInv
<1> QED BY <1>1, <1>4, <1>10, <1>11 DEF IInv

(* Starting a thread: the caller, worker 1, is never one that is started.  *)
LEMMA StartWorkerKeeps ==
  ASSUME IInv, StartWorker
  PROVE  IInv'
<1>1. /\ InTeam /\ Unborn # {} /\ Framed /\ UNCHANGED <<at, buckets, best, keys, failed>>
      /\ pc' = [pc EXCEPT ![Min(Unborn)] = "running"]
  BY DEF StartWorker, Framed, Untouched, TreeKept, WorkKept
<1>2. DOMAIN pc = Crew /\ 1 \in Crew /\ Crew = 1 .. Workers /\ Workers \in Nat BY <1>1, TeamIs
<1>3. TeamInv /\ round \in {"probe", "fill"} BY <1>1 DEF IInv, InTeam
<1>4. Min(Unborn) \in Unborn
  <2>1. Unborn \in SUBSET Nat BY <1>2 DEF Unborn
  <2> QED BY <1>1, <2>1, MinOf
<1>5. Min(Unborn) # 1 /\ Min(Unborn) \in DOMAIN pc BY <1>3, <1>4 DEF TeamInv, Unborn
<1>6. Crew' = Crew BY <1>1, FrameKeeps
<1> DEFINE u == Min(Unborn)
<1> HIDE DEF u
<1>7. pc' = [pc EXCEPT ![u] = "running"] /\ u # 1 /\ u \in DOMAIN pc BY <1>1, <1>5 DEF u
<1>8. TeamInv' BY <1>1, <1>2, <1>3, <1>6, <1>7 DEF TeamInv, Framed
<1>9. \A w \in Crew : pc'[w] = "ended" => pc[w] = "ended" BY <1>2, <1>7
<1> QED BY <1>1, <1>8, <1>9, TeamStepKeeps

(* A thread that cannot be started: nobody runs if the reduction returns.  *)
LEMMA StartFailsKeeps ==
  ASSUME IInv, StartFails
  PROVE  IInv'
<1>1. /\ InputsInv /\ TreeInv /\ RoundInv /\ SurvivingInv /\ TeamInv /\ ReducedExtremeIsExact
      /\ InTeam /\ round \in {"probe", "fill"}
      /\ UNCHANGED <<graph, tables, ask, tree, visit, remaining, surviving, pc>>
      /\ round' \in {"done", "terminated"}
  BY DEF IInv, StartFails, Untouched, TreeKept, Return, InTeam
<1>2. InputsInv' /\ TreeInv' /\ SurvivingInv' BY <1>1, InputsStay, TreeStays, SurvivingStays
<1>3. RoundInv' BY <1>1 DEF RoundInv
<1>4. (WorkInv /\ ProbeInv /\ FillInv)'
  <2>1. ~InTeam' BY <1>1 DEF InTeam
  <2>2. ~InTeam' => (WorkInv /\ ProbeInv /\ FillInv)' BY NoWork, PTL
  <2> QED BY <2>1, <2>2
<1>5. CASE round' = "terminated" /\ UNCHANGED result
  <2>1. TeamInv' BY <1>1, <1>5 DEF TeamInv
  <2>2. ReducedExtremeIsExact' BY <1>1, <1>5, ExactStays
  <2> QED BY <1>2, <1>3, <1>4, <2>1, <2>2 DEF IInv
<1>6. CASE (\A w \in DOMAIN pc \ {1} : pc[w] = "unborn") /\ Return(Error("thrown"))
  <2>1. ~result'.ok BY <1>6 DEF Return, Error
  <2>2. TeamInv' BY <1>1, <1>6 DEF TeamInv, Return
  <2> QED BY <1>2, <1>3, <1>4, <2>1, <2>2, ErrorIsExact DEF IInv
<1> QED BY <1>5, <1>6 DEF StartFails

(* A worker that ends has done its work.                                   *)
LEMMA WorkerEndsKeeps ==
  ASSUME IInv, NEW w \in DOMAIN pc, WorkerEnds(w)
  PROVE  IInv'
<1>1. /\ InTeam /\ Ready(w) /\ WorkDone(w) /\ Framed
      /\ UNCHANGED <<at, buckets, best, keys, failed>>
      /\ pc' = [pc EXCEPT ![w] = "ended"]
  BY DEF WorkerEnds, Framed, Untouched, TreeKept, WorkKept
<1>2. DOMAIN pc = Crew BY <1>1, TeamIs
<1>3. TeamInv /\ round \in {"probe", "fill"} BY <1>1 DEF IInv, InTeam
<1>4. Crew' = Crew BY <1>1, FrameKeeps
<1>5. TeamInv' BY <1>1, <1>2, <1>3, <1>4 DEF TeamInv, Framed
<1>6. \A v \in Crew : pc'[v] = "ended" => pc[v] = "ended" \/ WorkDone(v) BY <1>1, <1>2
<1> QED BY <1>1, <1>5, <1>6, TeamStepKeeps

(* A worker that throws ends, and the team has failed.                     *)
LEMMA WorkerThrowsKeeps ==
  ASSUME IInv, NEW w \in DOMAIN pc, WorkerThrows(w)
  PROVE  IInv'
<1>1. /\ InTeam /\ Ready(w) /\ Framed
      /\ UNCHANGED <<at, buckets, best, keys>> /\ failed' = TRUE
      /\ pc' = [pc EXCEPT ![w] = "ended"]
  BY DEF WorkerThrows, Framed, Untouched, TreeKept, WorkKept
<1>2. DOMAIN pc = Crew BY <1>1, TeamIs
<1>3. TeamInv /\ round \in {"probe", "fill"} BY <1>1 DEF IInv, InTeam
<1>4. Crew' = Crew BY <1>1, FrameKeeps
<1>5. TeamInv' BY <1>1, <1>2, <1>3, <1>4 DEF TeamInv, Framed
<1> QED BY <1>1, <1>5, TeamStepKeeps

(* Where nothing changes, nothing is lost.                                 *)
LEMMA NothingKeeps ==
  ASSUME IInv, UNCHANGED vars
  PROVE  IInv'
<1>1. /\ Framed /\ UNCHANGED <<at, buckets, best, keys, failed, pc>> BY DEF vars, Framed
<1>2. CASE InTeam
  <2>1. Crew' = Crew BY <1>1, FrameKeeps
  <2>2. TeamInv' BY <1>1, <2>1 DEF IInv, TeamInv, Framed
  <2> QED BY <1>1, <1>2, <2>2, TeamStepKeeps
<1>3. CASE ~InTeam
  <2>1. /\ InputsInv' /\ TreeInv' /\ RoundInv' /\ SurvivingInv' /\ ReducedExtremeIsExact'
    BY <1>1, FrameKeeps
  <2>2. Crew' = Crew BY <1>1, FrameKeeps
  <2>3. TeamInv' BY <1>1, <2>2 DEF IInv, TeamInv, Framed
  <2>4. (WorkInv /\ ProbeInv /\ FillInv)'
    <3>1. ~InTeam' BY <1>1, <1>3 DEF InTeam, Framed
    <3>2. ~InTeam' => (WorkInv /\ ProbeInv /\ FillInv)' BY NoWork, PTL
    <3> QED BY <3>1, <3>2
  <2> QED BY <2>1, <2>3, <2>4 DEF IInv
<1> QED BY <1>2, <1>3

(* The rows of the relation a team works on.                               *)
LEMMA RowsAre ==
  ASSUME IInv, InTeam
  PROVE  /\ DOMAIN tables[Current] = 1 .. Len(Rows) /\ Len(Rows) \in Nat
         /\ \A j \in Kept(Current) : j \in DOMAIN tables[Current] /\ j \in Nat
         /\ ~IsRoot => \A j \in DOMAIN tables[Current] : Own(Current, j) \in Values
         /\ IsRoot => \A j \in DOMAIN tables[Current] : tables[Current][j][ask.column] \in Values
<1>1. /\ Reducible /\ remaining \in DOMAIN tree.order /\ Current \in Relations(graph)
      /\ IsRoot <=> remaining = 1
  BY TeamIs
<1>2. TreeStands /\ InputsInv BY <1>1 DEF Reducible, TreeStands
<1>3. DOMAIN tables[Current] = 1 .. Len(Rows) /\ Len(Rows) \in Nat
  BY <1>1, <1>2, InputsAre DEF Rows
<1>4. \A j \in Kept(Current) : j \in DOMAIN tables[Current] /\ j \in Nat BY <1>3 DEF Kept
<1>5. ASSUME ~IsRoot, NEW j \in DOMAIN tables[Current] PROVE Own(Current, j) \in Values
  <2>1. tree.order[remaining] \in DOMAIN tree.node BY <1>1, <1>2, <1>5, ParentEarlier
  <2>2. Current \in DOMAIN tree.node BY <2>1 DEF Current
  <2> QED BY <1>2, <1>5, <2>2, OwnValue
<1>6. ASSUME IsRoot, NEW j \in DOMAIN tables[Current] PROVE tables[Current][j][ask.column] \in Values
  <2>1. Current = ask.relation BY <1>6 DEF IsRoot
  <2>2. ask.column \in Columns(graph, Current) BY <1>2, <2>1, WholeTree DEF TreeStands, Rooted
  <2> QED BY <1>1, <1>2, <1>6, <2>2, InputsAre
<1> QED BY <1>3, <1>4, <1>5, <1>6

(* Probing a row puts it behind its worker, in the bucket of its key's     *)
(* shard or in the worker's extreme, exactly when it matches something in  *)
(* every child.                                                            *)
LEMMA ProbeRowKeeps ==
  ASSUME IInv, NEW w \in DOMAIN pc, ProbeRow(w)
  PROVE  IInv'
<1> DEFINE a == at[w]
           row == Rows[a]
<1>1. /\ InTeam /\ round = "probe" /\ Ready(w) /\ a <= LastRow(w) /\ Framed
      /\ UNCHANGED <<pc, failed, keys, tables, ask, surviving>>
      /\ at' = [at EXCEPT ![w] = a + 1]
  BY DEF ProbeRow, Framed, Untouched, TreeKept, InTeam
<1>2. /\ Reducible /\ Current \in Relations(graph) /\ DOMAIN pc = Crew /\ DOMAIN keys = Crew
      /\ Workers \in Nat \ {0} /\ w \in Crew
  BY <1>1, TeamIs
<1>3. InputsInv /\ TeamInv /\ WorkInv /\ ProbeInv BY DEF IInv
<1>4. /\ InputsInv' /\ TreeInv' /\ RoundInv' /\ SurvivingInv' /\ ReducedExtremeIsExact'
      /\ Current' = Current /\ Rows' = Rows /\ IsRoot' = IsRoot /\ Workers' = Workers
      /\ Crew' = Crew
      /\ \A v : FirstRow(v)' = FirstRow(v) /\ LastRow(v)' = LastRow(v)
      /\ \A x, j : Own(x, j)' = Own(x, j) /\ Kept(x)' = Kept(x)
  BY <1>1, FrameKeeps
<1>5. /\ SoundShards(keys) /\ Len(keys) = Workers
      /\ buckets \in [Crew -> [Crew -> Seq(Values)]]
      /\ at \in [Crew -> Nat] /\ best \in [Crew -> SUBSET Values]
  BY <1>1, <1>3 DEF WorkInv
<1>6. a \in Nat /\ FirstRow(w) \in Nat \ {0} /\ FirstRow(w) <= a
      /\ LastRow(w) \in Nat /\ LastRow(w) <= Len(Rows)
  BY <1>1, <1>2, <1>3, <1>5, SpansAre DEF ProbeInv
<1>7. a \in DOMAIN tables[Current] /\ row = tables[Current][a]
  BY <1>1, <1>6, RowsAre DEF Rows
<1>8. Survives(row) <=> a \in Kept(Current) BY <1>7 DEF Survives, Kept, Passes
<1>9. pc[w] # "ended" BY <1>1 DEF Ready
<1> DEFINE more == IF a \in Kept(Current) THEN {a} ELSE {}
<1>10. /\ \A v \in Crew : at'[v] = IF v = w THEN a + 1 ELSE at[v]
       /\ at' \in [Crew -> Nat]
  BY <1>1, <1>2, <1>5, <1>6
<1>11. \A v \in Crew : Behind(v)' = Behind(v) \cup (IF v = w THEN more ELSE {})
  <2> TAKE v \in Crew
  <2>1. Behind(v)' = {j \in Kept(Current) : FirstRow(v) <= j /\ j < at'[v]} BY <1>4 DEF Behind
  <2>2. CASE v # w BY <1>10, <2>1, <2>2 DEF Behind
  <2>3. CASE v = w
    <3>1. at'[v] = a + 1 BY <1>10, <2>3
    <3>2. \A j \in Kept(Current) : j \in Nat BY <1>1, RowsAre
    <3>3. \A j \in Kept(Current) : j < a + 1 <=> j < a \/ j = a BY <1>6, <3>2
    <3>4. Behind(v) = {j \in Kept(Current) : FirstRow(v) <= j /\ j < a} BY <2>3 DEF Behind
    <3> HIDE DEF a
    <3> QED BY <1>6, <2>1, <2>3, <3>1, <3>3, <3>4
  <2> QED BY <2>2, <2>3
<1>12. SoundShards(keys)' BY <1>1, <1>5
<1>13. \A k : ShardOf(keys, k)' = ShardOf(keys, k) BY <1>1 DEF ShardOf
<1>14. /\ \A s \in Crew : keys'[s] = NoKeys
       /\ \A v \in Crew : FirstRow(v)' <= at'[v]
       /\ \A v \in Crew : pc'[v] = "ended" /\ ~failed' => at'[v] > LastRow(v)'
  <2> HIDE DEF a
  <2>1. \A v \in Crew : FirstRow(v) <= at[v] BY <1>1, <1>3 DEF ProbeInv
  <2>2. FirstRow(w) <= a + 1 BY <1>6
  <2>3. \A v \in Crew : pc[v] = "ended" /\ ~failed => at[v] > LastRow(v) BY <1>1, <1>3 DEF ProbeInv
  <2>4. \A s \in Crew : keys[s] = NoKeys BY <1>1, <1>3 DEF ProbeInv
  <2> QED BY <1>1, <1>4, <1>9, <1>10, <2>1, <2>2, <2>3, <2>4
<1>15. TeamInv' BY <1>1, <1>3, <1>4 DEF TeamInv, Framed
<1>16. round' = "probe" BY <1>1 DEF Framed
<1>17. FillInv' BY <1>16 DEF FillInv
<1>18. \A v \in Crew : Asked(Behind(v))'
          = Asked(Behind(v)) \cup (IF v = w /\ a \in Kept(Current) THEN {row[ask.column]} ELSE {})
  <2> TAKE v \in Crew
  <2> DEFINE B == Behind(v)
  <2>1. Asked(B)' = {tables[Current][j][ask.column] : j \in B'} BY <1>1, <1>4 DEF Asked
  <2>2. B' = B \cup (IF v = w THEN more ELSE {}) BY <1>11
  <2> HIDE DEF B
  <2>3. Asked(B) = {tables[Current][j][ask.column] : j \in B} BY DEF Asked
  <2>4. Asked(B)' = Asked(B) \cup (IF v = w /\ a \in Kept(Current) THEN {row[ask.column]} ELSE {})
    BY <1>7, <2>1, <2>2, <2>3
  <2> QED BY <2>4 DEF B
<1>19. ASSUME NEW v \in Crew, NEW s \in Crew
       PROVE  OfShard(Behind(v), s)'
          = OfShard(Behind(v), s) \cup
              (IF v = w /\ a \in Kept(Current) /\ ShardOf(keys, Own(Current, a)) = s
               THEN {Own(Current, a)} ELSE {})
  <2> DEFINE B == Behind(v)
             O(j) == Own(Current, j)
  <2>1. OfShard(B, s)' = {O(j) : j \in {i \in B' : ShardOf(keys, O(i)) = s}}
    BY <1>4, <1>13 DEF OfShard
  <2>2. B' = B \cup (IF v = w THEN more ELSE {}) BY <1>11
  <2> HIDE DEF B
  <2>3. OfShard(B, s) = {O(j) : j \in {i \in B : ShardOf(keys, O(i)) = s}} BY DEF OfShard
  <2> HIDE DEF O, a
  <2>4. OfShard(B, s)' = OfShard(B, s) \cup
              (IF v = w /\ a \in Kept(Current) /\ ShardOf(keys, O(a)) = s THEN {O(a)} ELSE {})
    BY <2>1, <2>2, <2>3
  <2> QED BY <2>4 DEF B, O
<1> HIDE DEF a, row, more
<1>20. CASE ~Survives(row)
  <2>1. UNCHANGED <<buckets, best>> BY <1>20 DEF ProbeRow, row, a
  <2>2. WorkInv' BY <1>4, <1>5, <1>1, <1>10, <1>12, <2>1 DEF WorkInv
  <2>3. a \notin Kept(Current) BY <1>8, <1>20
  <2>4. \A v, s \in Crew : OfShard(Behind(v), s)' = OfShard(Behind(v), s) BY <1>19, <2>3
  <2>5. \A v \in Crew : Asked(Behind(v))' = Asked(Behind(v)) BY <1>18, <2>3
  <2>6. \A v \in Crew : IsBest(best[v], Asked(Behind(v)))' <=> IsBest(best[v], Asked(Behind(v)))
    BY <1>1, <2>1, <2>5 DEF IsBest
  <2>7. ProbeInv' BY <1>1, <1>3, <1>4, <1>14, <2>1, <2>4, <2>6 DEF ProbeInv
  <2> QED BY <1>4, <1>15, <1>17, <2>2, <2>7 DEF IInv
<1>21. CASE Survives(row) /\ IsRoot
  <2> DEFINE value == row[ask.column]
             now == Extreme(best[w] \cup {value})
  <2>1. best' = [best EXCEPT ![w] = now] /\ UNCHANGED buckets BY <1>21 DEF ProbeRow, row, a
  <2>2. a \in Kept(Current) BY <1>8, <1>21
  <2>3. value \in Values BY <1>1, <1>7, <1>21, RowsAre
  <2>4. \A v \in Crew : IsBest(best[v], Asked(Behind(v))) BY <1>1, <1>3, <1>21 DEF ProbeInv
  <2>5. Asked(Behind(w)) \subseteq Values
    BY <1>1, <1>21, RowsAre DEF Asked, Behind
  <2>6. Asked(Behind(w))' = Asked(Behind(w)) \cup {value} BY <1>2, <1>18, <2>2
  <2> HIDE DEF value
  <2>7. IsBest(now, Asked(Behind(w)) \cup {value})
    <3> DEFINE V == Asked(Behind(w))  b == best[w]
    <3>1. V \in SUBSET Values /\ IsBest(b, V) BY <1>2, <2>4, <2>5
    <3> HIDE DEF V, b
    <3>2. IsBest(Extreme(b \cup {value}), V \cup {value}) BY <2>3, <3>1, BestOfMore
    <3> QED BY <3>2 DEF V, b
  <2> HIDE DEF now
  <2>8. now \subseteq Values BY <2>3, <2>5, <2>7 DEF IsBest
  <2>9. /\ best' \in [Crew -> SUBSET Values]
        /\ \A v \in Crew : best'[v] = IF v = w THEN now ELSE best[v]
    BY <1>2, <1>5, <2>1, <2>8
  <2>10. WorkInv' BY <1>4, <1>5, <1>1, <1>10, <1>12, <2>1, <2>9 DEF WorkInv
  <2>11. \A v \in Crew : IsBest(best[v], Asked(Behind(v)))'
    <3> TAKE v \in Crew
    <3>1. CASE v = w
      <4>1. IsBest(best'[w], Asked(Behind(w))') BY <1>2, <2>6, <2>7, <2>9
      <4> QED BY <1>1, <3>1, <4>1 DEF IsBest
    <3>2. CASE v # w
      <4>1. Asked(Behind(v))' = Asked(Behind(v)) /\ best'[v] = best[v] BY <1>18, <2>9, <3>2
      <4> QED BY <1>1, <2>4, <4>1 DEF IsBest
    <3> QED BY <3>1, <3>2
  <2>12. ProbeInv' BY <1>4, <1>14, <1>21, <2>11 DEF ProbeInv
  <2> QED BY <1>4, <1>15, <1>17, <2>10, <2>12 DEF IInv
<1>22. CASE Survives(row) /\ ~IsRoot
  <2> DEFINE own == Own(Current, a)
             s == ShardOf(keys, own)
             q == Append(buckets[w][s], own)
             mine == [buckets[w] EXCEPT ![s] = q]
  <2>1. own = row[tree.node[Current].own] BY <1>7 DEF Own
  <2>2. buckets' = [buckets EXCEPT ![w] = mine] /\ UNCHANGED best
    <3>1. /\ buckets' = [buckets EXCEPT ![w][s] = Append(@, own)] /\ UNCHANGED best
      BY <1>22, <2>1 DEF ProbeRow, row, a
    <3> HIDE DEF own, s
    <3> QED BY <3>1
  <2>3. own \in Values BY <1>1, <1>7, <1>22, RowsAre
  <2> HIDE DEF own
  <2>4. s \in Crew BY <1>2, <1>5, <2>3, ShardIs DEF SoundShards
  <2> HIDE DEF s
  <2>5. buckets[w] \in [Crew -> Seq(Values)] /\ buckets[w][s] \in Seq(Values) BY <1>2, <1>5, <2>4
  <2>6. q \in Seq(Values) BY <2>3, <2>5
  <2>7. ToSet(q) = ToSet(buckets[w][s]) \cup {own}
    <3> DEFINE old == buckets[w][s]
    <3>1. old \in Seq(Values) BY <2>5
    <3> HIDE DEF old
    <3>2. ToSet(Append(old, own)) = ToSet(old) \cup {own}
      <4> DEFINE n == Len(old)  new == Append(old, own)
      <4>1. n \in Nat /\ DOMAIN old = 1 .. n /\ DOMAIN new = 1 .. n + 1 BY <3>1
      <4>2. \A i \in 1 .. n : new[i] = old[i] BY <3>1
      <4>3. new[n + 1] = own BY <3>1
      <4> HIDE DEF n, new
      <4>4. DOMAIN new = DOMAIN old \cup {n + 1} BY <4>1
      <4> QED BY <4>1, <4>2, <4>3, <4>4 DEF ToSet, new
    <3> QED BY <3>2 DEF old
  <2> HIDE DEF q
  <2>8. mine \in [Crew -> Seq(Values)] /\ \A t \in Crew : mine[t] = IF t = s THEN q ELSE buckets[w][t]
    BY <2>4, <2>5, <2>6
  <2> HIDE DEF mine
  <2>9. /\ buckets' \in [Crew -> [Crew -> Seq(Values)]]
        /\ \A v \in Crew : buckets'[v] = IF v = w THEN mine ELSE buckets[v]
    BY <1>2, <1>5, <2>2, <2>8
  <2>10. WorkInv' BY <1>4, <1>5, <1>1, <1>10, <1>12, <2>2, <2>9 DEF WorkInv
  <2>11. a \in Kept(Current) BY <1>8, <1>22
  <2>12. \A v, t \in Crew : ToSet(buckets[v][t]) = OfShard(Behind(v), t)
    BY <1>1, <1>3, <1>22 DEF ProbeInv
  <2>13. ASSUME NEW v \in Crew, NEW t \in Crew
         PROVE  ToSet(buckets[v][t])' = OfShard(Behind(v), t)'
    <3>1. CASE v = w /\ t = s
      <4>1. buckets'[v][t] = q BY <2>8, <2>9, <3>1
      <4>2. OfShard(Behind(v), t)' = OfShard(Behind(v), t) \cup {own}
        BY <1>19, <2>11, <3>1 DEF own, s
      <4> QED BY <2>7, <2>12, <3>1, <4>1, <4>2
    <3>2. CASE ~(v = w /\ t = s)
      <4>1. buckets'[v][t] = buckets[v][t] BY <2>8, <2>9, <3>2
      <4>2. OfShard(Behind(v), t)' = OfShard(Behind(v), t)
        BY <1>19, <3>2 DEF own, s
      <4>3. ToSet(buckets'[v][t]) = OfShard(Behind(v), t)' BY <2>12, <4>1, <4>2
      <4> QED BY <4>3
    <3> QED BY <3>1, <3>2
  <2>14. ProbeInv' BY <1>4, <1>14, <1>22, <2>13 DEF ProbeInv
  <2> QED BY <1>4, <1>15, <1>17, <2>10, <2>14 DEF IInv
<1> QED BY <1>20, <1>21, <1>22

(* A change of one shard that keeps what the shards and buckets hold.      *)
LEMMA FillStepKeeps ==
  ASSUME IInv, InTeam, round = "fill", Framed, UNCHANGED <<pc, failed, at, best>>,
         NEW w \in Crew, pc[w] # "ended", NEW set, SoundSet(set),
         keys' = [keys EXCEPT ![w] = set],
         buckets' \in [Crew -> [Crew -> Seq(Values)]],
         \A v \in Crew : v # w => Waiting(v)' = Waiting(v),
         Members(set) \cup Waiting(w)' = Members(keys[w]) \cup Waiting(w)
  PROVE  IInv'
<1>1. /\ InputsInv' /\ TreeInv' /\ RoundInv' /\ SurvivingInv' /\ ReducedExtremeIsExact'
      /\ Current' = Current /\ Rows' = Rows /\ IsRoot' = IsRoot /\ Workers' = Workers
      /\ Crew' = Crew
      /\ \A x, j : Own(x, j)' = Own(x, j) /\ Kept(x)' = Kept(x)
  BY FrameKeeps
<1>2. TeamInv /\ WorkInv /\ FillInv BY DEF IInv
<1>3. SoundShards(keys) /\ Len(keys) = Workers /\ at \in [Crew -> Nat] /\ best \in [Crew -> SUBSET Values]
  BY <1>2 DEF WorkInv
<1>4. DOMAIN keys = Crew /\ Workers \in Nat \ {0} BY TeamIs
<1>5. keys' \in Seq(KeySets) /\ Len(keys') = Len(keys) /\ DOMAIN keys' = Crew /\ keys' # <<>>
      /\ \A v \in Crew : keys'[v] = IF v = w THEN set ELSE keys[v]
  <2>1. set \in KeySets /\ keys \in Seq(KeySets) /\ keys # <<>> BY <1>3 DEF SoundSet, SoundShards
  <2> HIDE DEF KeySets
  <2> QED BY <1>4, <2>1
<1>6. SoundShards(keys)' BY <1>3, <1>4, <1>5 DEF SoundShards
<1>7. WorkInv' BY <1>1, <1>3, <1>5, <1>6 DEF WorkInv
<1>8. \A k : ShardOf(keys, k)' = ShardOf(keys, k) BY <1>5 DEF ShardOf
<1>9. ASSUME NEW s PROVE OfShard(Kept(Current), s)' = OfShard(Kept(Current), s)
  <2> DEFINE K == Kept(Current)
             O(j) == Own(Current, j)
  <2>1. K' = K /\ \A j : O(j)' = O(j) BY <1>1
  <2>2. OfShard(K, s)' = {O(j)' : j \in {i \in K' : ShardOf(keys', O(i)') = s}} BY DEF OfShard
  <2>3. OfShard(K, s) = {O(j) : j \in {i \in K : ShardOf(keys, O(i)) = s}} BY DEF OfShard
  <2> HIDE DEF K, O
  <2>4. \A j : ShardOf(keys', O(j)') = ShardOf(keys, O(j)) BY <1>8, <2>1
  <2>5. OfShard(K, s)' = OfShard(K, s) BY <2>1, <2>2, <2>3, <2>4
  <2> QED BY <2>5 DEF K
<1>10. TeamInv' BY <1>1, <1>2 DEF TeamInv, Framed
<1>11. FillInv'
  <2>1. \A s \in Crew : pc'[s] = "ended" /\ ~failed' => Waiting(s)' = {} BY <1>2 DEF FillInv
  <2>2. ASSUME NEW s \in Crew
        PROVE  Members(keys'[s]) \cup Waiting(s)' = OfShard(Kept(Current), s)'
    <3>1. Members(keys[s]) \cup Waiting(s) = OfShard(Kept(Current), s) BY <1>2 DEF FillInv
    <3> QED BY <1>5, <1>9, <3>1
  <2>3. \A s : Members(keys[s])' = Members(keys'[s]) BY DEF Members, Stored, Filled
  <2> QED BY <1>1, <2>1, <2>2, <2>3 DEF FillInv
<1>12. ProbeInv' BY DEF ProbeInv, Framed
<1> QED BY <1>1, <1>7, <1>10, <1>11, <1>12 DEF IInv

(* Growing a shard keeps its keys.                                         *)
LEMMA GrowShardKeeps ==
  ASSUME IInv, NEW w \in DOMAIN pc, GrowShard(w)
  PROVE  IInv'
<1>1. /\ InTeam /\ round = "fill" /\ Ready(w) /\ Framed /\ UNCHANGED <<pc, failed, at, best, buckets>>
      /\ keys' = [keys EXCEPT ![w] = Grow(keys[w])]
  BY DEF GrowShard, Framed, Untouched, TreeKept, InTeam
<1>2. w \in Crew /\ DOMAIN keys = Crew BY <1>1, TeamIs
<1>3. pc[w] # "ended" BY <1>1 DEF Ready
<1>4. WorkInv BY DEF IInv
<1>5. SoundSet(keys[w]) /\ buckets \in [Crew -> [Crew -> Seq(Values)]]
  BY <1>1, <1>2, <1>4 DEF WorkInv, SoundShards
<1> DEFINE set == Grow(keys[w])
<1>6. SoundSet(set) /\ Members(set) = Members(keys[w]) BY <1>5, GrowKeeps
<1>7. Crew' = Crew BY <1>1, FrameKeeps
<1>8. \A v : Waiting(v)' = Waiting(v) BY <1>1, <1>7 DEF Waiting
<1> HIDE DEF set
<1>9. keys' = [keys EXCEPT ![w] = set] BY <1>1 DEF set
<1> QED BY <1>1, <1>2, <1>3, <1>5, <1>6, <1>8, <1>9, FillStepKeeps

(* Inserting a key moves it from the shard's buckets into the shard.       *)
LEMMA InsertKeyKeeps ==
  ASSUME IInv, NEW w \in DOMAIN pc, InsertKey(w)
  PROVE  IInv'
<1> DEFINE b == Min(Undrained(w))
           q == buckets[b][w]
           key == Head(q)
           rest == Tail(q)
<1>1. /\ InTeam /\ round = "fill" /\ Ready(w) /\ Framed /\ UNCHANGED <<pc, failed, at, best>>
      /\ Undrained(w) # {} /\ HasRoom(keys[w])
      /\ keys' = [keys EXCEPT ![w] = Put(keys[w], key)]
      /\ buckets' = [buckets EXCEPT ![b][w] = Tail(@)]
  BY DEF InsertKey, Framed, Untouched, TreeKept, InTeam
<1>2. w \in Crew /\ DOMAIN keys = Crew /\ Crew = 1 .. Workers /\ Workers \in Nat BY <1>1, TeamIs
<1>3. pc[w] # "ended" BY <1>1 DEF Ready
<1>4. WorkInv BY DEF IInv
<1>5. SoundSet(keys[w]) /\ buckets \in [Crew -> [Crew -> Seq(Values)]]
  BY <1>1, <1>2, <1>4 DEF WorkInv, SoundShards
<1>6. b \in Crew /\ q # <<>>
  <2>1. Undrained(w) \in SUBSET Nat BY <1>2, <1>5 DEF Undrained
  <2>2. b \in Undrained(w) BY <1>1, <2>1, MinOf
  <2> HIDE DEF b
  <2> QED BY <1>5, <2>2 DEF Undrained
<1> HIDE DEF b
<1>7. q \in Seq(Values) BY <1>2, <1>5, <1>6
<1>8. buckets' = [buckets EXCEPT ![b] = [buckets[b] EXCEPT ![w] = rest]] BY <1>1
<1> HIDE DEF q
<1>9. key \in Values /\ rest \in Seq(Values) /\ ToSet(q) = ToSet(rest) \cup {key}
  <2>1. key \in Values /\ rest \in Seq(Values) BY <1>6, <1>7
  <2>2. ToSet(q) = ToSet(rest) \cup {key}
    <3> DEFINE n == Len(q)
    <3>1. n \in Nat \ {0} /\ DOMAIN q = 1 .. n /\ DOMAIN rest = 1 .. n - 1 /\ key = q[1]
      BY <1>6, <1>7
    <3>2. \A i \in 1 .. n - 1 : rest[i] = q[i + 1] BY <1>6, <1>7
    <3> HIDE DEF n, key, rest
    <3>3. \A i \in 1 .. n : i = 1 \/ (i - 1 \in 1 .. n - 1 /\ q[i] = rest[i - 1])
      <4> TAKE i \in 1 .. n
      <4>1. i # 1 => i - 1 \in 1 .. n - 1 /\ (i - 1) + 1 = i BY <3>1
      <4> QED BY <3>2, <4>1
    <3>4. \A i \in 1 .. n - 1 : i + 1 \in 1 .. n BY <3>1
    <3>5. 1 \in 1 .. n BY <3>1
    <3>6. ToSet(q) \subseteq ToSet(rest) \cup {key} BY <3>1, <3>3 DEF ToSet
    <3>7. ToSet(rest) \cup {key} \subseteq ToSet(q) BY <3>1, <3>2, <3>4, <3>5 DEF ToSet
    <3> QED BY <3>6, <3>7
  <2> QED BY <2>1, <2>2
<1> HIDE DEF key, rest
<1>10. /\ buckets' \in [Crew -> [Crew -> Seq(Values)]]
       /\ \A c, v \in Crew : buckets'[c][v] = IF c = b /\ v = w THEN rest ELSE buckets[c][v]
  <2> DEFINE mine == [buckets[b] EXCEPT ![w] = rest]
  <2>1. mine \in [Crew -> Seq(Values)] /\ \A v \in Crew : mine[v] = IF v = w THEN rest ELSE buckets[b][v]
    BY <1>2, <1>5, <1>6, <1>9
  <2>2. buckets' = [buckets EXCEPT ![b] = mine] BY <1>8
  <2> HIDE DEF mine
  <2> QED BY <1>5, <1>6, <2>1, <2>2
<1>11. Crew' = Crew BY <1>1, FrameKeeps
<1>12. \A v \in Crew : v # w => Waiting(v)' = Waiting(v) BY <1>10, <1>11 DEF Waiting
<1> DEFINE set == Put(keys[w], key)
<1>13. SoundSet(set) /\ Members(set) = Members(keys[w]) \cup {key}
  BY <1>1, <1>5, <1>9, HasRoomIs, PutKeeps
<1> HIDE DEF set
<1>14. {key} \cup Waiting(w)' = Waiting(w) \cup {key} /\ key \in Waiting(w)
  <2>1. Waiting(w)' = UNION {ToSet(buckets'[c][w]) : c \in Crew} BY <1>11 DEF Waiting
  <2>2. Waiting(w) = UNION {ToSet(buckets[c][w]) : c \in Crew} BY DEF Waiting
  <2>3. \A c \in Crew : {key} \cup ToSet(buckets'[c][w]) = {key} \cup ToSet(buckets[c][w])
    BY <1>2, <1>9, <1>10 DEF q
  <2>4. key \in ToSet(buckets[b][w]) BY <1>9 DEF q
  <2>5. key \in Waiting(w) BY <1>6, <2>2, <2>4
  <2>6. \A x : x # key => (x \in Waiting(w)' <=> x \in Waiting(w))
    <3>1. \A x : x # key =>
            \A c \in Crew : x \in ToSet(buckets'[c][w]) <=> x \in ToSet(buckets[c][w])
      BY <2>3
    <3> QED BY <2>1, <2>2, <3>1
  <2> QED BY <2>5, <2>6
<1>15. Members(set) \cup Waiting(w)' = Members(keys[w]) \cup Waiting(w) BY <1>13, <1>14
<1>16. keys' = [keys EXCEPT ![w] = set] BY <1>1 DEF set
<1> QED BY <1>1, <1>2, <1>3, <1>10, <1>12, <1>13, <1>15, <1>16, FillStepKeeps

(* A team that has probed has seen every row there is to keep.             *)
LEMMA AllBehind ==
  ASSUME IInv, round = "probe", Joined, ~failed
  PROVE  Kept(Current) = UNION {Behind(w) : w \in Crew}
<1>1. InTeam /\ ProbeInv /\ InputsInv BY DEF InTeam, IInv
<1>2. DOMAIN pc = Crew /\ Current \in Relations(graph) BY <1>1, TeamIs
<1>3. \A w \in Crew : at[w] > LastRow(w) BY <1>1, <1>2 DEF ProbeInv, Joined
<1>4. ASSUME NEW j \in Kept(Current) PROVE \E w \in Crew : j \in Behind(w)
  <2>1. j \in DOMAIN Rows /\ j \in Nat BY <1>1, RowsAre DEF Rows
  <2>2. PICK w \in Crew : FirstRow(w) <= j /\ j <= LastRow(w) BY <1>1, <1>2, <2>1, SpansCover
  <2>3. LastRow(w) \in Nat /\ at[w] \in Nat BY <1>1, <1>2, SpansAre DEF IInv, WorkInv
  <2>4. j < at[w] BY <1>3, <2>1, <2>2, <2>3
  <2> QED BY <2>2, <2>4 DEF Behind
<1> QED BY <1>4 DEF Behind

(* When the probes are joined, the rows behind the team are all rows: at   *)
(* the root their extreme is the answer, elsewhere their keys wait to be   *)
(* put into the shards.                                                    *)
LEMMA JoinProbesKeeps ==
  ASSUME IInv, JoinProbes
  PROVE  IInv'
<1>1. /\ InputsInv /\ TreeInv /\ RoundInv /\ SurvivingInv /\ TeamInv /\ WorkInv /\ ProbeInv
      /\ round = "probe" /\ InTeam /\ Joined
      /\ UNCHANGED <<graph, tables, ask, tree, visit, surviving, at, buckets, best, keys>>
  BY DEF IInv, JoinProbes, Untouched, TreeKept, WorkKept, InTeam
<1>2. /\ Reducible /\ Current \in Relations(graph) /\ DOMAIN pc = Crew /\ DOMAIN keys = Crew
      /\ Workers \in Nat \ {0} /\ Crew = 1 .. Workers /\ 1 \in Crew
      /\ IsRoot <=> remaining = 1
  BY <1>1, TeamIs
<1>3. remaining # 0 BY <1>1 DEF RoundInv
<1>4. \A w \in DOMAIN pc : pc[w] = "ended" BY <1>1 DEF Joined
<1>5. CASE failed
  <2>1. Return(Error("out of memory")) /\ UNCHANGED remaining BY <1>5 DEF JoinProbes
  <2>2. round' = "done" /\ ~result'.ok /\ UNCHANGED <<pc, remaining>> BY <2>1 DEF Return, Error
  <2>3. InputsInv' /\ TreeInv' /\ SurvivingInv' BY <1>1, <2>2, InputsStay, TreeStays, SurvivingStays
  <2>4. RoundInv' BY <1>1, <2>2 DEF RoundInv
  <2>5. TeamInv' BY <1>4, <2>2 DEF TeamInv
  <2>6. (WorkInv /\ ProbeInv /\ FillInv)'
    <3>1. ~InTeam' BY <2>2 DEF InTeam
    <3>2. ~InTeam' => (WorkInv /\ ProbeInv /\ FillInv)' BY NoWork, PTL
    <3> QED BY <3>1, <3>2
  <2> QED BY <2>2, <2>3, <2>4, <2>5, <2>6, ErrorIsExact DEF IInv
<1>6. CASE ~failed /\ IsRoot
  <2> DEFINE all == UNION {best[w] : w \in Crew}
  <2>1. DOMAIN best = Crew BY <1>1 DEF WorkInv
  <2>2. Return(Answer(Extreme(all))) /\ UNCHANGED remaining
    BY <1>2, <1>6, <2>1 DEF JoinProbes, NextRelation
  <2>3. round' = "done" /\ UNCHANGED <<pc, remaining>>
        /\ result' = [ok |-> TRUE, any |-> Extreme(all) # {}, value |-> Extreme(all), error |-> "none"]
    BY <2>2 DEF Return, Answer
  <2>4. InputsInv' /\ TreeInv' /\ SurvivingInv' BY <1>1, <2>3, InputsStay, TreeStays, SurvivingStays
  <2>5. RoundInv' BY <1>1, <2>3 DEF RoundInv
  <2>6. TeamInv' BY <1>4, <2>3 DEF TeamInv
  <2>7. (WorkInv /\ ProbeInv /\ FillInv)'
    <3>1. ~InTeam' BY <2>3 DEF InTeam
    <3>2. ~InTeam' => (WorkInv /\ ProbeInv /\ FillInv)' BY NoWork, PTL
    <3> QED BY <3>1, <3>2
  <2> DEFINE V == [w \in Crew |-> Asked(Behind(w))]
             r == ask.relation
             join == FlatJoin(graph, tables)
             values == {tables[r][t[r]][ask.column] : t \in join}
  <2>8. \A w \in Crew : V[w] \in SUBSET Values /\ IsBest(best[w], V[w])
    <3> TAKE w \in Crew
    <3>1. Asked(Behind(w)) \subseteq Values BY <1>1, <1>6, RowsAre DEF Asked, Behind
    <3>2. IsBest(best[w], Asked(Behind(w))) BY <1>1, <1>6 DEF ProbeInv
    <3> QED BY <3>1, <3>2
  <2>9. UNION {V[w] : w \in Crew} = values
    <3>1. Kept(Current) = UNION {Behind(w) : w \in Crew} BY <1>1, <1>6, AllBehind
    <3>2. Kept(r) = {t[r] : t \in join} /\ Current = r BY <1>2, <1>6, RootDecides
    <3> DEFINE A(j) == tables[r][j][ask.column]
    <3>3. \A w \in Crew : V[w] = {A(j) : j \in Behind(w)} BY <3>2 DEF Asked
    <3>4. values = {A(j) : j \in Kept(r)} BY <3>2
    <3> HIDE DEF V, values, A
    <3>5. \A x : (\E w \in Crew : x \in V[w]) <=> \E w \in Crew : \E j \in Behind(w) : x = A(j)
      BY <3>3
    <3>6. \A x : x \in values <=> \E j \in Kept(Current) : x = A(j) BY <3>2, <3>4
    <3>7. \A x : x \in values <=> \E w \in Crew : \E j \in Behind(w) : x = A(j)
      BY <3>1, <3>6
    <3> QED BY <3>5, <3>7
  <2>10. IsBest(Extreme(all), values)
    <3>1. PICK C, b, W : C = Crew /\ b = best /\ W = V OBVIOUS
    <3>2. \A w \in C : W[w] \in SUBSET Values /\ IsBest(b[w], W[w])
      <4> HIDE DEF V
      <4> QED BY <2>8, <3>1
    <3>3. IsBest(Extreme(UNION {b[w] : w \in C}), UNION {W[w] : w \in C}) BY <3>2, BestOfBests
    <3> HIDE DEF V, values
    <3> QED BY <2>9, <3>1, <3>3
  <2>11. values \in SUBSET Values
    <3> HIDE DEF V, values
    <3> QED BY <2>8, <2>9
  <2>12. values = {} <=> join = {} OBVIOUS
  <2>13. Extreme(all) = Extreme(values)
    <3> HIDE DEF values, all
    <3> QED BY <2>10, <2>11, ExtremeIs
  <2>14. Extreme(all) = {} <=> values = {}
    <3> HIDE DEF values, all
    <3> QED BY <2>10 DEF IsBest
  <2>15. join' = join BY <1>1
  <2>16. values' = values BY <1>1, <2>15
  <2>17. Extreme(values)' = Extreme(values) BY <1>1, <2>16 DEF Extreme
  <2> HIDE DEF all
  <2>18. result'.any = (Extreme(all) # {}) /\ result'.value = Extreme(all)
    BY <2>3
  <2>19. (result'.any <=> join' # {}) /\ result'.value = Extreme(values)'
    <3> HIDE DEF values, join
    <3>1. result'.any <=> join' # {} BY <2>12, <2>14, <2>15, <2>18, Zenon
    <3>2. result'.value = Extreme(values)' BY <2>13, <2>17, <2>18
    <3> QED BY <3>1, <3>2
  <2>20. ReducedExtremeIsExact'
    BY <2>19, Zenon DEF ReducedExtremeIsExact
  <2> QED BY <2>4, <2>5, <2>6, <2>7, <2>20 DEF IInv
<1>7. CASE ~failed /\ ~IsRoot
  <2>1. Len(keys) = Workers BY <1>1 DEF WorkInv
  <2>2. /\ round' = "fill" /\ failed' = FALSE /\ UNCHANGED <<remaining, result>>
        /\ pc' = [w \in Crew |-> IF w = 1 THEN "waiting" ELSE "unborn"]
    BY <1>2, <1>7, <2>1 DEF JoinProbes, StartTeam
  <2>3. InputsInv' /\ TreeInv' /\ SurvivingInv' /\ ReducedExtremeIsExact'
    <3>1. ReducedExtremeIsExact BY DEF IInv
    <3> QED BY <1>1, <2>2, <3>1, InputsStay, TreeStays, SurvivingStays, ExactStays
  <2>4. /\ Current' = Current /\ IsRoot' = IsRoot /\ Workers' = Workers /\ Crew' = Crew
    BY <1>1, <2>2, ShapeStays
  <2>5. RoundInv' BY <1>1, <1>3, <1>7, <2>2, <2>4 DEF RoundInv
  <2>6. TeamInv' BY <1>2, <2>2, <2>4 DEF TeamInv
  <2>7. WorkInv'
    <3>1. SoundShards(keys)' <=> SoundShards(keys) BY <1>1
    <3> QED BY <1>1, <2>4, <3>1 DEF WorkInv
  <2>8. ProbeInv' BY <2>2 DEF ProbeInv
  <2>9. FillInv'
    <3>1. Kept(Current)' = Kept(Current) /\ \A j : Own(Current, j)' = Own(Current, j)
      BY <1>1, <2>4, KeptStays
    <3>2. \A k : ShardOf(keys, k)' = ShardOf(keys, k) BY <1>1
    <3>3. \A s : OfShard(Kept(Current), s)' = OfShard(Kept(Current), s)
      BY <1>1, <2>4, <3>1, <3>2 DEF OfShard
    <3>4. \A s : Waiting(s)' = Waiting(s) BY <1>1, <2>4 DEF Waiting
    <3>5. \A s \in Crew : Members(keys'[s]) = {} BY <1>1, NoKeysIs DEF ProbeInv
    <3>6. \A s \in Crew : Members(keys[s])' = {} BY <1>1, <3>5
    <3>7. ASSUME NEW s \in Crew PROVE Waiting(s) = OfShard(Kept(Current), s)
      <4>1. Kept(Current) = UNION {Behind(w) : w \in Crew} BY <1>1, <1>7, AllBehind
      <4>2. \A w \in Crew : ToSet(buckets[w][s]) = OfShard(Behind(w), s)
        BY <1>1, <1>7 DEF ProbeInv
      <4>3. Waiting(s) = UNION {OfShard(Behind(w), s) : w \in Crew} BY <4>2 DEF Waiting
      <4> QED BY <4>1, <4>3 DEF OfShard
    <3>8. \A s \in Crew : pc'[s] # "ended" BY <2>2
    <3> QED BY <2>4, <3>3, <3>4, <3>6, <3>7, <3>8 DEF FillInv
  <2> QED BY <2>3, <2>5, <2>6, <2>7, <2>8, <2>9 DEF IInv
<1> QED BY <1>5, <1>6, <1>7

(* A team that has filled its shards holds the keys of the kept rows, each *)
(* in its shard.                                                           *)
LEMMA AllHeld ==
  ASSUME IInv, round = "fill", Joined, ~failed
  PROVE  /\ SoundShards(keys) /\ ~IsRoot
         /\ \A k \in Values : Held(keys, k) <=> \E j \in Kept(Current) : Own(Current, j) = k
         /\ NoKeyIn(keys) => Kept(Current) = {}
<1>1. InTeam /\ FillInv /\ WorkInv /\ RoundInv BY DEF InTeam, IInv
<1>2. SoundShards(keys) /\ ~IsRoot BY <1>1 DEF WorkInv, RoundInv
<1>3. DOMAIN pc = Crew /\ DOMAIN keys = Crew BY <1>1, TeamIs
<1>4. \A s \in Crew : Members(keys[s]) = OfShard(Kept(Current), s)
  <2>1. \A s \in Crew : Waiting(s) = {} BY <1>1, <1>3 DEF FillInv, Joined
  <2>2. \A s \in Crew : Members(keys[s]) \cup Waiting(s) = OfShard(Kept(Current), s)
    BY <1>1 DEF FillInv
  <2> QED BY <2>1, <2>2
<1>5. \A j \in Kept(Current) : j \in DOMAIN tables[Current] /\ Own(Current, j) \in Values
  BY <1>1, <1>2, RowsAre
<1>6. ASSUME NEW k \in Values
      PROVE  Held(keys, k) <=> \E j \in Kept(Current) : Own(Current, j) = k
  <2> DEFINE s == ShardOf(keys, k)
  <2>1. s \in Crew /\ (Held(keys, k) <=> k \in Members(keys[s])) BY <1>2, <1>3, HeldIs
  <2>2. k \in OfShard(Kept(Current), s) <=> \E j \in Kept(Current) : Own(Current, j) = k
    BY DEF OfShard
  <2> HIDE DEF s
  <2> QED BY <1>4, <2>1, <2>2
<1>7. ASSUME NoKeyIn(keys), NEW j \in Kept(Current) PROVE FALSE
  <2> DEFINE k == Own(Current, j)  s == ShardOf(keys, k)
  <2>1. k \in Values BY <1>5
  <2>2. s \in Crew
    <3> HIDE DEF k
    <3> QED BY <1>2, <1>3, <2>1, HeldIs
  <2>3. k \in OfShard(Kept(Current), s) BY DEF OfShard
  <2>4. Members(keys[s]) = {} BY <1>2, <1>3, <1>7, <2>2, NoKeyInIs
  <2> HIDE DEF k, s
  <2> QED BY <1>4, <2>2, <2>3, <2>4
<1> QED BY <1>2, <1>6, <1>7

(* A relation that keeps no row empties the join.                          *)
LEMMA NothingJoins ==
  ASSUME Reducible, remaining \in DOMAIN tree.order, Kept(Current) = {}
  PROVE  FlatJoin(graph, tables) = {}
<1> DEFINE B == Relations(graph)
<1>1. TreeStands /\ remaining \in Nat BY DEF Reducible, TreeStands, RoundInv
<1>2. Current = tree.order[remaining] /\ Current \in B BY <1>1, WholeTree DEF TreeStands, Current, ToSet
<1>3. FlatJoin(graph, tables) = Tuples(B) /\ B \in SUBSET Relations(graph)
      /\ \A x \in B : ChildrenOf(x) \subseteq B
  BY <1>1, FlatIsTuples
<1> HIDE DEF B
<1>4. ASSUME NEW t \in Tuples(B) PROVE FALSE
  <2>1. tree.order[remaining] \in B /\ remaining >= remaining BY <1>1, <1>2
  <2>2. t[tree.order[remaining]] \in Kept(tree.order[remaining]) BY <1>3, <2>1, TupleSurvives
  <2> QED BY <1>2, <2>2
<1> QED BY <1>3, <1>4

(* When the shards are filled, the relation is reduced; one without a key  *)
(* empties the join.                                                       *)
LEMMA JoinFillsKeeps ==
  ASSUME IInv, JoinFills
  PROVE  IInv'
<1>1. /\ InputsInv /\ TreeInv /\ RoundInv /\ SurvivingInv /\ TeamInv /\ WorkInv
      /\ ReducedExtremeIsExact
      /\ round = "fill" /\ InTeam /\ Joined
      /\ UNCHANGED <<graph, tables, ask, tree, visit, at, buckets, best, keys>>
  BY DEF IInv, JoinFills, Untouched, TreeKept, WorkKept, InTeam
<1>2. /\ Reducible /\ remaining \in DOMAIN tree.order /\ Current \in Relations(graph)
      /\ DOMAIN tree.order = 1 .. Len(tree.order) /\ Len(tree.order) \in Nat
      /\ IsRoot <=> remaining = 1
  BY <1>1, TeamIs
<1>3. remaining # 0 /\ remaining \in Nat /\ ~IsRoot BY <1>1 DEF RoundInv
<1>4. \A w \in DOMAIN pc : pc[w] = "ended" BY <1>1 DEF Joined
<1>5. InputsInv' /\ TreeInv' BY <1>1, InputsStay, TreeStays
<1>6. ASSUME round' \notin {"probe", "fill"} PROVE (WorkInv /\ ProbeInv /\ FillInv)'
  <2>1. ~InTeam' BY <1>6 DEF InTeam
  <2>2. ~InTeam' => (WorkInv /\ ProbeInv /\ FillInv)' BY NoWork, PTL
  <2> QED BY <2>1, <2>2
<1>7. CASE failed
  <2>1. Return(Error("out of memory")) /\ UNCHANGED <<remaining, surviving>> BY <1>7 DEF JoinFills
  <2>2. round' = "done" /\ ~result'.ok /\ UNCHANGED <<pc, remaining, surviving>>
    BY <2>1 DEF Return, Error
  <2>3. SurvivingInv' BY <1>1, <2>2, SurvivingStays
  <2>4. RoundInv' BY <1>1, <2>2 DEF RoundInv
  <2>5. TeamInv' BY <1>4, <2>2 DEF TeamInv
  <2> QED BY <1>5, <1>6, <2>2, <2>3, <2>4, <2>5, ErrorIsExact DEF IInv
<1>8. CASE ~failed /\ NoKeyIn(keys)
  <2>1. Return(Answer({})) /\ UNCHANGED <<remaining, surviving>> BY <1>8 DEF JoinFills
  <2>2. /\ round' = "done" /\ UNCHANGED <<pc, remaining, surviving>>
        /\ result'.any = FALSE /\ result'.value = {}
    BY <2>1 DEF Return, Answer
  <2>3. SurvivingInv' BY <1>1, <2>2, SurvivingStays
  <2>4. RoundInv' BY <1>1, <2>2 DEF RoundInv
  <2>5. TeamInv' BY <1>4, <2>2 DEF TeamInv
  <2>6. FlatJoin(graph, tables) = {} BY <1>1, <1>2, <1>8, AllHeld, NothingJoins
  <2> DEFINE join == FlatJoin(graph, tables)
             values == {tables[ask.relation][t[ask.relation]][ask.column] : t \in join}
  <2>7. join' = {}
    <3>1. join' = join BY <1>1
    <3> QED BY <2>6, <3>1
  <2> HIDE DEF join
  <2>8. values' = {} BY <2>7
  <2>9. Extreme(values)' = {} BY <2>8 DEF Extreme
  <2>10. (result'.any <=> join' # {}) /\ result'.value = Extreme(values)'
    <3> HIDE DEF values
    <3> QED BY <2>2, <2>7, <2>9
  <2>11. ReducedExtremeIsExact' BY <2>10, Zenon DEF ReducedExtremeIsExact, join
  <2> QED BY <1>5, <1>6, <2>2, <2>3, <2>4, <2>5, <2>11 DEF IInv
<1>9. CASE ~failed /\ ~NoKeyIn(keys)
  <2>1. /\ surviving' = With(surviving, Current, keys)
        /\ round' = "read" /\ remaining' = remaining - 1 /\ UNCHANGED <<pc, result>>
    BY <1>2, <1>3, <1>9 DEF JoinFills, NextRelation
  <2>2. remaining' \in Nat \ {0} /\ remaining' = remaining - 1 BY <1>2, <1>3, <2>1
  <2>3. RoundInv' BY <1>1, <1>3, <2>1, <2>2 DEF RoundInv
  <2>4. TeamInv' BY <1>4, <2>1 DEF TeamInv
  <2>5. ReducedExtremeIsExact' BY <1>1, <2>1, ExactStays
  <2>6. /\ DOMAIN surviving' = DOMAIN surviving \cup {Current}
        /\ \A x \in DOMAIN surviving' : surviving'[x] = IF x = Current THEN keys ELSE surviving[x]
    BY <2>1 DEF With
  <2>7. DOMAIN surviving' = ReducedRelations'
    <3>1. DOMAIN surviving = ReducedRelations BY <1>1, <1>3 DEF SurvivingInv
    <3>2. \A i \in DOMAIN tree.order : i > remaining' <=> i > remaining \/ i = remaining
      BY <1>2, <1>3, <2>2
    <3>3. ReducedRelations' = {tree.order[j] : j \in {i \in DOMAIN tree.order : i > remaining'}}
      BY <1>1 DEF ReducedRelations
    <3> QED BY <1>2, <2>6, <3>1, <3>2, <3>3 DEF ReducedRelations, Current
  <2>8. ASSUME NEW x \in DOMAIN surviving'
        PROVE  \A c \in ChildrenOf(x) : surviving'[c] = surviving[c]
    <3>1. PICK i \in DOMAIN tree.order : x = tree.order[i] /\ i >= remaining
      <4>1. DOMAIN surviving = ReducedRelations BY <1>1, <1>3 DEF SurvivingInv
      <4>2. CASE x = Current
        <5>1. remaining >= remaining BY <1>3
        <5> QED BY <1>2, <4>2, <5>1 DEF Current
      <4>3. CASE x \in ReducedRelations
        <5>1. PICK i \in DOMAIN tree.order : x = tree.order[i] /\ i > remaining
          BY <4>3 DEF ReducedRelations
        <5>2. i >= remaining BY <1>2, <1>3, <5>1
        <5> QED BY <5>1, <5>2
      <4> QED BY <2>6, <4>1, <4>2, <4>3
    <3> TAKE c \in ChildrenOf(x)
    <3>2. c \in DOMAIN surviving BY <1>2, <3>1, ReducedAre
    <3>3. c # Current
      <4>1. remaining \in DOMAIN tree.order /\ ~(remaining > remaining) BY <1>2, <1>3
      <4> QED BY <1>2, <3>2, <4>1, ReducedAre DEF Current
    <3> QED BY <2>6, <3>2, <3>3
  <2>9. ASSUME NEW x \in DOMAIN surviving'
        PROVE  Kept(x)' = Kept(x) /\ \A j : Own(x, j)' = Own(x, j)
    <3>1. \A j : Own(x, j)' = Own(x, j) BY <1>1 DEF Own
    <3>2. ChildrenOf(x)' = ChildrenOf(x) BY <1>1 DEF ChildrenOf
    <3>3. \A j : Passes(x, j)'
             <=> \A c \in ChildrenOf(x) : Held(surviving'[c], tables[x][j][tree.node[c].up])
      BY <1>1, <3>2 DEF Passes
    <3>4. \A j : Passes(x, j)' <=> Passes(x, j)
      BY <2>8, <3>3 DEF Passes
    <3> QED BY <1>1, <3>1, <3>4 DEF Kept
  <2>10. /\ SoundShards(keys)
         /\ \A k \in Values : Held(keys, k) <=> \E j \in Kept(Current) : Own(Current, j) = k
    BY <1>1, <1>9, AllHeld
  <2>11. ASSUME NEW x \in DOMAIN surviving'
         PROVE  /\ SoundShards(surviving'[x])
                /\ \A k \in Values : Held(surviving'[x], k) <=> \E j \in Kept(x) : Own(x, j) = k
    <3>1. CASE x = Current
      <4>1. surviving'[x] = keys BY <2>6, <3>1
      <4> QED BY <2>10, <3>1, <4>1
    <3>2. CASE x # Current
      <4>1. surviving'[x] = surviving[x] /\ x \in DOMAIN surviving BY <2>6, <3>2
      <4> QED BY <1>1, <4>1 DEF SurvivingInv
    <3> QED BY <3>1, <3>2
  <2>12. SurvivingInv'
    <3>1. ASSUME NEW x \in DOMAIN surviving'
          PROVE  /\ SoundShards(surviving[x])'
                 /\ \A k \in Values : Held(surviving[x], k)' <=> \E j \in Kept(x)' : Own(x, j)' = k
      <4>1. SoundShards(surviving[x])' <=> SoundShards(surviving'[x])
        BY <2>6 DEF SoundShards
      <4>2. \A k : Held(surviving[x], k)' <=> Held(surviving'[x], k) OBVIOUS
      <4> QED BY <2>9, <2>11, <4>1, <4>2
    <3> QED BY <2>2, <2>7, <3>1 DEF SurvivingInv
  <2> QED BY <1>5, <1>6, <2>1, <2>3, <2>4, <2>5, <2>12 DEF IInv
<1> QED BY <1>7, <1>8, <1>9

(* The invariant holds in every state.                                     *)
THEOREM Inductive == Spec => []IInv
<1>1. ASSUME IInv, [Next]_vars PROVE IInv'
  <2>1. CASE Prepare BY <1>1, <2>1, PrepareKeeps
  <2>2. CASE Visit BY <1>1, <2>2, VisitStepKeeps
  <2>3. CASE Planted BY <1>1, <2>3, PlantedKeeps
  <2>4. CASE Read BY <1>1, <2>4, ReadKeeps
  <2>5. CASE StartWorker BY <1>1, <2>5, StartWorkerKeeps
  <2>6. CASE StartFails BY <1>1, <2>6, StartFailsKeeps
  <2>7. CASE JoinProbes BY <1>1, <2>7, JoinProbesKeeps
  <2>8. CASE JoinFills BY <1>1, <2>8, JoinFillsKeeps
  <2>9. ASSUME NEW w \in DOMAIN pc, Work(w) PROVE IInv'
    <3>1. CASE ProbeRow(w) BY <1>1, <3>1, ProbeRowKeeps
    <3>2. CASE GrowShard(w) BY <1>1, <3>2, GrowShardKeeps
    <3>3. CASE InsertKey(w) BY <1>1, <3>3, InsertKeyKeeps
    <3>4. CASE WorkerEnds(w) BY <1>1, <3>4, WorkerEndsKeeps
    <3>5. CASE WorkerThrows(w) BY <1>1, <3>5, WorkerThrowsKeeps
    <3> QED BY <2>9, <3>1, <3>2, <3>3, <3>4, <3>5 DEF Work
  <2>10. CASE Terminated \/ UNCHANGED vars
    <3>1. UNCHANGED vars BY <2>10 DEF Terminated
    <3> QED BY <1>1, <3>1, NothingKeeps
  <2> QED BY <1>1, <2>1, <2>2, <2>3, <2>4, <2>5, <2>6, <2>7, <2>8, <2>9, <2>10 DEF Next, Main
<1> QED BY <1>1, InitHolds, PTL DEF Spec

(* An answer of ExecuteExtremeReduced is the extreme of the column over    *)
(* the join, and there is none exactly when the join is empty: for any     *)
(* acyclic join graph, any tables and column, any number of threads and    *)
(* order of their steps, any hash, and wherever an allocation or a thread  *)
(* fails.                                                                  *)
THEOREM ExtremeOfTheJoin == Spec => []ReducedExtremeIsExact
<1>1. IInv => ReducedExtremeIsExact BY DEF IInv
<1> QED BY <1>1, Inductive, PTL

(* A reduced relation holds the keys of its rows that take part in the     *)
(* join of the subtree below it, and no other, at every moment.            *)
THEOREM SurvivorsOfTheJoin == Spec => []SurvivorsAreTheSemiJoin
<1>1. IInv => SurvivorsAreTheSemiJoin
  <2> SUFFICES ASSUME IInv PROVE SurvivorsAreTheSemiJoin OBVIOUS
  <2>1. CASE remaining = 0
    <3>1. DOMAIN surviving = {} BY <2>1 DEF IInv, SurvivingInv
    <3> QED BY <3>1 DEF SurvivorsAreTheSemiJoin
  <2>2. CASE remaining # 0
    <3>1. Reducible BY <2>2 DEF IInv, Reducible, TreeStands
    <3> QED BY <3>1, SurvivorsDecide
  <2> QED BY <2>1, <2>2
<1> QED BY <1>1, Inductive, PTL

(* No thread of a team runs on once the reduction has returned or has gone *)
(* to the next relation.                                                   *)
THEOREM TeamsAreJoined == Spec => []TeamIsJoined
<1>1. IInv => TeamIsJoined
  <2> SUFFICES ASSUME IInv, round \in {"plan", "read", "done"}, NEW w \in DOMAIN pc
               PROVE  pc[w] \in {"unborn", "waiting", "ended"}
    BY DEF TeamIsJoined
  <2> QED BY DEF IInv, TeamInv
<1> QED BY <1>1, Inductive, PTL
=============================================================================
