--------------------------- MODULE HashTableProofs ---------------------------
(***************************************************************************)
(* Proofs about HashTable, for every set of keys and values, every hash    *)
(* function and every bound on the slots.                                  *)
(*                                                                         *)
(* What the loops of hashtable.c compute is proved by induction: over the  *)
(* slots that hashtable_rehash has moved, with the set of the numbers for  *)
(* which the claim holds (Induct), and over the slots that a search        *)
(* passes, with the first of those that end it (Least).                    *)
(***************************************************************************)
EXTENDS HashTable, FiniteSetTheorems, FunctionTheorems, WellFoundedInduction, TLAPS

-----------------------------------------------------------------------------
(* Natural numbers *)

\* A set of natural numbers has a least one.
LEMMA Least ==
  ASSUME NEW T \in SUBSET Nat, T # {}
  PROVE  \E n \in T : \A m \in T : n <= m
<1>1. PICK n \in T : \A m \in T : ~ (<<m, n>> \in OpToRel(<, Nat))
  BY NatLessThanWellFounded, WFMin
<1>2. \A m \in T : ~ (m < n)
  BY <1>1 DEF OpToRel
<1> QED BY <1>2

\* A set that holds 0 and with each number the next holds them all.
LEMMA Induct ==
  ASSUME NEW T, 0 \in T, \A n \in Nat : n \in T => n + 1 \in T
  PROVE  \A n \in Nat : n \in T
<1> SUFFICES ASSUME Nat \ T # {} PROVE FALSE
  OBVIOUS
<1>1. PICK n \in Nat \ T : \A m \in Nat \ T : n <= m
  BY Least
<1>2. n - 1 \in Nat /\ n - 1 \notin Nat \ T
  BY <1>1
<1> QED BY <1>1, <1>2

\* Quotient and remainder.
LEMMA DivMod ==
  ASSUME NEW m \in Nat \ {0}, NEW x \in Nat
  PROVE  /\ x % m \in 0..(m - 1)
         /\ x \div m \in Nat
         /\ x = m * (x \div m) + (x % m)
OBVIOUS

LEMMA ModIs ==
  ASSUME NEW m \in Nat \ {0}, NEW q \in Nat, NEW r \in 0..(m - 1)
  PROVE  (m * q + r) % m = r
<1> DEFINE x == m * q + r
<1>1. x \in Nat
  OBVIOUS
<1>2. PICK p \in Nat : x = m * p + (x % m)
  BY <1>1, DivMod
<1>3. x % m \in 0..(m - 1)
  BY <1>1, DivMod
<1>4. m * (p - q) = r - (x % m)
  BY <1>2, <1>3
<1>5. p - q = 0
  <2>1. CASE p - q >= 1
    <3>1. m * (p - q) >= m
      BY <2>1
    <3> QED BY <3>1, <1>3, <1>4
  <2>2. CASE p - q <= -1
    <3>1. m * (p - q) <= -m
      BY <2>2
    <3> QED BY <3>1, <1>3, <1>4
  <2> QED BY <2>1, <2>2
<1> QED BY <1>3, <1>4, <1>5

\* The slot after a slot, around the end of the arrays.
LEMMA NextMod ==
  ASSUME NEW m \in Nat \ {0}, NEW x \in Nat
  PROVE  (x + 1) % m = ((x % m) + 1) % m
<1> DEFINE q == x \div m
           r == x % m
<1>1. q \in Nat /\ r \in 0..(m - 1) /\ x = m * q + r
  BY DivMod
<1> HIDE DEF q, r
<1>2. CASE r + 1 < m
  <2>1. x + 1 = m * q + (r + 1) /\ r + 1 = m * 0 + (r + 1)
    BY <1>1
  <2>2. (x + 1) % m = r + 1
    BY <1>1, <1>2, <2>1, ModIs
  <2>3. (m * 0 + (r + 1)) % m = r + 1
    BY <1>1, <1>2, ModIs
  <2> QED BY <2>1, <2>2, <2>3 DEF r
<1>3. CASE r + 1 = m
  <2>1. x + 1 = m * (q + 1) + 0 /\ r + 1 = m * 1 + 0
    BY <1>1, <1>3
  <2>2. (x + 1) % m = 0
    BY <1>1, <2>1, ModIs
  <2>3. (m * 1 + 0) % m = 0
    BY <1>1, ModIs
  <2> QED BY <2>1, <2>2, <2>3 DEF r
<1> QED BY <1>1, <1>2, <1>3

\* From every start, m steps around the arrays come to every slot.
LEMMA ReachMod ==
  ASSUME NEW m \in Nat \ {0}, NEW x \in Nat, NEW s \in 0..(m - 1)
  PROVE  \E n \in 0..(m - 1) : (x + n) % m = s
<1> DEFINE q == x \div m
           r == x % m
<1>1. q \in Nat /\ r \in 0..(m - 1) /\ x = m * q + r
  BY DivMod
<1> HIDE DEF q, r
<1> DEFINE n == IF r <= s THEN s - r ELSE s - r + m
           p == IF r <= s THEN q ELSE q + 1
<1>2. n \in 0..(m - 1) /\ p \in Nat
  BY <1>1
<1>3. x + n = m * p + s
  BY <1>1
<1> HIDE DEF n, p
<1>4. (x + n) % m = s
  BY <1>2, <1>3, ModIs
<1> QED BY <1>2, <1>4

-----------------------------------------------------------------------------
(* Tables.  A table that is Sound has a value in the slots that hold a key *)
(* and in no other, and has counted every key.  In one that is Placed the  *)
(* search for each key comes to the slot that holds it, and no other slot  *)
(* holds that key.                                                         *)

IsTable(t) == t \in [mem : Nat, size : Nat,
                     keys   : [Slots(t) -> Key \cup {NULL}],
                     values : [Slots(t) -> Value \cup {NULL}]]

Paired(t) == \A n \in Slots(t) : t.keys[n] = NULL <=> t.values[n] = NULL

Sound(t) ==
    /\ IsTable(t)
    /\ Paired(t)
    /\ t.size >= Cardinality(Used(t))

\* The search for k passes over n slots.
Passes(t, k, n) == \A i \in 0..(n - 1) : t.keys[Probe(t, k, i)] # NULL

Comes(t, k, s) == \E n \in Slots(t) : Probe(t, k, n) = s /\ Passes(t, k, n)

Placed(t) ==
    \A s \in Used(t) :
        /\ Comes(t, t.keys[s], s)
        /\ \A r \in Used(t) : t.keys[r] = t.keys[s] => r = s

HInv ==
    /\ TypeOK
    /\ Sound(table)
    /\ RoomLeft
    /\ broken \/ Placed(table)

-----------------------------------------------------------------------------
(* Searches *)

\* The slots of a table are finitely many.
LEMMA SlotsFinite ==
  ASSUME NEW t, t.mem \in Nat
  PROVE  /\ IsFiniteSet(Slots(t)) /\ Cardinality(Slots(t)) = t.mem
         /\ IsFiniteSet(Used(t)) /\ Used(t) \subseteq Slots(t)
         /\ Cardinality(Used(t)) \in Nat
         /\ Cardinality(Used(t)) <= t.mem
         /\ Cardinality(Used(t)) = t.mem => Used(t) = Slots(t)
<1>1. IsFiniteSet(Slots(t)) /\ Cardinality(Slots(t)) = t.mem
  <2>1. 0 \in Int /\ t.mem - 1 \in Int
    OBVIOUS
  <2>2. /\ IsFiniteSet(0..(t.mem - 1))
        /\ Cardinality(0..(t.mem - 1)) = IF 0 > t.mem - 1 THEN 0 ELSE (t.mem - 1) - 0 + 1
    BY <2>1, FS_Interval
  <2> QED BY <2>2 DEF Slots
<1>2. Used(t) \in SUBSET Slots(t)
  BY DEF Used
<1>3. /\ IsFiniteSet(Used(t))
      /\ Cardinality(Used(t)) <= Cardinality(Slots(t))
      /\ Cardinality(Slots(t)) = Cardinality(Used(t)) => Slots(t) = Used(t)
  BY <1>1, <1>2, FS_Subset
<1>4. Cardinality(Used(t)) \in Nat
  BY <1>3, FS_CardinalityType
<1> QED BY <1>1, <1>2, <1>3, <1>4

\* A search stays in the arrays and goes from each slot to the next.
LEMMA ProbeIn ==
  ASSUME NEW t, t.mem \in Nat \ {0}, NEW k \in Key, NEW n \in Nat
  PROVE  /\ Probe(t, k, n) \in Slots(t)
         /\ Probe(t, k, n + 1) = (Probe(t, k, n) + 1) % t.mem
<1>1. Hash[k] \in Nat
  BY HashAssumption
<1>2. Hash[k] + n \in Nat /\ Hash[k] + (n + 1) = (Hash[k] + n) + 1
  BY <1>1
<1>3. Probe(t, k, n) \in 0..(t.mem - 1)
  BY <1>2, DivMod DEF Probe
<1>4. ((Hash[k] + n) + 1) % t.mem = (((Hash[k] + n) % t.mem) + 1) % t.mem
  BY <1>2, NextMod
<1> QED BY <1>2, <1>3, <1>4 DEF Probe, Slots

\* A search in a table with a free slot ends.
LEMMA SearchEnds ==
  ASSUME NEW t, t.mem \in Nat \ {0}, Used(t) # Slots(t), NEW k \in Key
  PROVE  Stops(t, k) # {}
<1>1. PICK s \in Slots(t) : t.keys[s] = NULL
  BY DEF Used
<1>2. Hash[k] \in Nat /\ s \in 0..(t.mem - 1)
  BY <1>1, HashAssumption DEF Slots
<1>3. PICK n \in 0..(t.mem - 1) : (Hash[k] + n) % t.mem = s
  BY <1>2, ReachMod
<1>4. n \in Stops(t, k)
  BY <1>1, <1>3 DEF Stops, Slots, Probe
<1> QED BY <1>4

\* It ends at the first slot that is free or holds the key.
LEMMA FirstStop ==
  ASSUME NEW t, t.mem \in Nat \ {0}, NEW k \in Key, Stops(t, k) # {}
  PROVE  \E n \in Slots(t) :
            /\ StopSlot(t, k) = Probe(t, k, n)
            /\ t.keys[Probe(t, k, n)] \in {NULL, k}
            /\ \A i \in 0..(n - 1) : t.keys[Probe(t, k, i)] \notin {NULL, k}
<1> DEFINE first == CHOOSE n \in Stops(t, k) : \A m \in Stops(t, k) : n <= m
<1>1. Stops(t, k) \in SUBSET Nat
  BY DEF Stops, Slots
<1>2. \E n \in Stops(t, k) : \A m \in Stops(t, k) : n <= m
  BY <1>1, Least
<1>3. first \in Stops(t, k) /\ \A m \in Stops(t, k) : first <= m
  BY <1>2
<1>4. StopSlot(t, k) = Probe(t, k, first)
  BY DEF StopSlot
<1> HIDE DEF first
<1>5. first \in Slots(t) /\ t.keys[Probe(t, k, first)] \in {NULL, k}
  BY <1>3 DEF Stops
<1>6. ASSUME NEW i \in 0..(first - 1) PROVE t.keys[Probe(t, k, i)] \notin {NULL, k}
  <2>1. i \in Slots(t) /\ i < first
    BY <1>5 DEF Slots
  <2>2. i \notin Stops(t, k)
    BY <1>1, <1>3, <2>1
  <2> QED BY <2>1, <2>2 DEF Stops
<1> QED BY <1>4, <1>5, <1>6

\* What hashtable_findKeyLocation finds is the slot of the key.
LEMMA Found ==
  ASSUME NEW t, t.mem \in Nat \ {0}, NEW k \in Key, FindKeyLocation(t, k) # NotFound
  PROVE  FindKeyLocation(t, k) \in Used(t) /\ t.keys[FindKeyLocation(t, k)] = k
<1>1. Stops(t, k) # {} /\ t.keys[StopSlot(t, k)] = k /\ FindKeyLocation(t, k) = StopSlot(t, k)
  BY DEF FindKeyLocation
<1>2. PICK n \in Slots(t) : StopSlot(t, k) = Probe(t, k, n)
  BY <1>1, FirstStop
<1>3. StopSlot(t, k) \in Slots(t)
  BY <1>2, ProbeIn DEF Slots
<1> QED BY <1>1, <1>3, KeyAssumption DEF Used

\* Where every key is placed, the search for one ends at its slot.
LEMMA PlacedStop ==
  ASSUME NEW t, t.mem \in Nat, IsTable(t), Placed(t), NEW s \in Used(t)
  PROVE  /\ t.mem \in Nat \ {0}
         /\ t.keys[s] \in Key
         /\ Stops(t, t.keys[s]) # {}
         /\ StopSlot(t, t.keys[s]) = s
         /\ FindKeyLocation(t, t.keys[s]) = s
<1> DEFINE k == t.keys[s]
<1>1. s \in Slots(t) /\ k \in Key /\ t.mem \in Nat \ {0}
  BY DEF Used, IsTable, Slots
<1>2. PICK n \in Slots(t) : Probe(t, k, n) = s /\ Passes(t, k, n)
  BY DEF Placed, Comes
<1>3. n \in Stops(t, k)
  BY <1>2 DEF Stops
<1>4. PICK m \in Slots(t) :
        /\ StopSlot(t, k) = Probe(t, k, m)
        /\ t.keys[Probe(t, k, m)] \in {NULL, k}
        /\ \A i \in 0..(m - 1) : t.keys[Probe(t, k, i)] \notin {NULL, k}
  BY <1>1, <1>3, FirstStop
<1> HIDE DEF k
<1>5. StopSlot(t, k) = s
  <2>1. CASE m < n
    <3>1. m \in 0..(n - 1) /\ m \in Nat
      BY <2>1, <1>2, <1>4 DEF Slots
    <3>2. t.keys[Probe(t, k, m)] = k /\ Probe(t, k, m) \in Slots(t)
      BY <3>1, <1>1, <1>2, <1>4, ProbeIn DEF Passes
    <3>3. Probe(t, k, m) \in Used(t)
      BY <3>2, <1>1, KeyAssumption DEF Used
    <3> QED BY <3>2, <3>3, <1>4 DEF Placed, k
  <2>2. CASE n < m
    <3>1. n \in 0..(m - 1)
      BY <2>2, <1>2, <1>4 DEF Slots
    <3>2. t.keys[Probe(t, k, n)] = k
      BY <1>2 DEF k
    <3> QED BY <3>1, <3>2, <1>4
  <2>3. CASE n = m
    BY <2>3, <1>2, <1>4
  <2> QED BY <2>1, <2>2, <2>3, <1>2, <1>4 DEF Slots
<1> QED BY <1>1, <1>3, <1>5 DEF FindKeyLocation, k

-----------------------------------------------------------------------------
(* Mappings *)

\* Where every key is placed, each is mapped to the value beside it.
LEMMA MappingIs ==
  ASSUME NEW t, Placed(t)
  PROVE  /\ DOMAIN Mapping(t) = Mapped(t)
         /\ \A n \in Used(t) : t.keys[n] \in Mapped(t) /\ Mapping(t)[t.keys[n]] = t.values[n]
<1>1. DOMAIN Mapping(t) = Mapped(t)
  BY DEF Mapping
<1>2. ASSUME NEW n \in Used(t)
      PROVE  t.keys[n] \in Mapped(t) /\ Mapping(t)[t.keys[n]] = t.values[n]
  <2>1. t.keys[n] \in Mapped(t)
    BY DEF Mapped
  <2> DEFINE m == CHOOSE m \in Used(t) : t.keys[m] = t.keys[n]
  <2>2. m \in Used(t) /\ t.keys[m] = t.keys[n]
    OBVIOUS
  <2>3. m = n
    BY <2>2 DEF Placed
  <2>4. Mapping(t)[t.keys[n]] = t.values[m]
    BY <2>1 DEF Mapping
  <2> QED BY <2>1, <2>3, <2>4
<1> QED BY <1>1, <1>2

\* Two tables where every key is placed and that hold the same keys with the
\* same values are the same mapping.
LEMMA SameMapping ==
  ASSUME NEW t, NEW u, Placed(t), Placed(u), Mapped(u) = Mapped(t),
         \A m \in Used(u) : \E n \in Used(t) : u.keys[m] = t.keys[n] /\ u.values[m] = t.values[n]
  PROVE  Mapping(u) = Mapping(t)
<1>1. ASSUME NEW k \in Mapped(t) PROVE Mapping(u)[k] = Mapping(t)[k]
  <2>0. k \in Mapped(u)
    OBVIOUS
  <2>1. PICK m \in Used(u) : u.keys[m] = k
    BY <2>0 DEF Mapped
  <2>2. PICK n \in Used(t) : u.keys[m] = t.keys[n] /\ u.values[m] = t.values[n]
    BY <2>1
  <2>3. Mapping(u)[u.keys[m]] = u.values[m] /\ Mapping(t)[t.keys[n]] = t.values[n]
    BY MappingIs
  <2> QED BY <2>1, <2>2, <2>3
<1> DEFINE M(t1) == [k \in Mapped(t1) |-> t1.values[CHOOSE n \in Used(t1) : t1.keys[n] = k]]
<1>2. Mapping(u) = M(u) /\ Mapping(t) = M(t)
  BY DEF Mapping
<1>3. \A k \in Mapped(t) : M(u)[k] = M(t)[k]
  BY <1>1, <1>2
<1>4. M(u) = M(t)
  BY <1>3
<1> QED BY <1>2, <1>4

-----------------------------------------------------------------------------
(* hashtable_insert *)

\* The table with k and v in slot s, which was free.
Filled(t, s, k, v) == [t EXCEPT !.keys[s] = k, !.values[s] = v, !.size = @ + 1]

\* A table where slot s is filled.
LEMMA FilledIs ==
  ASSUME NEW t, IsTable(t), NEW s \in Slots(t), t.keys[s] = NULL,
         NEW k \in Key, NEW v \in Value, NEW u, u = Filled(t, s, k, v)
  PROVE  /\ IsTable(u)
         /\ u.mem = t.mem /\ u.size = t.size + 1 /\ Slots(u) = Slots(t)
         /\ u.keys = [t.keys EXCEPT ![s] = k]
         /\ u.values = [t.values EXCEPT ![s] = v]
         /\ s \notin Used(t) /\ Used(u) = Used(t) \cup {s}
         /\ Cardinality(Used(u)) = Cardinality(Used(t)) + 1
<1>1. /\ u.mem = t.mem /\ u.size = t.size + 1
      /\ u.keys = [t.keys EXCEPT ![s] = k]
      /\ u.values = [t.values EXCEPT ![s] = v]
  BY DEF IsTable, Filled
<1>2. Slots(u) = Slots(t)
  BY <1>1 DEF Slots
<1>3. IsTable(u)
  <2>1. /\ u.keys \in [Slots(t) -> Key \cup {NULL}]
        /\ u.values \in [Slots(t) -> Value \cup {NULL}]
        /\ u.mem \in Nat /\ u.size \in Nat
    BY <1>1 DEF IsTable
  <2>2. u = [mem |-> u.mem, size |-> u.size, keys |-> u.keys, values |-> u.values]
    BY DEF IsTable, Filled
  <2> QED BY <1>2, <2>1, <2>2 DEF IsTable
<1>4. s \notin Used(t) /\ Used(u) = Used(t) \cup {s}
  BY <1>1, <1>2, KeyAssumption DEF Used, IsTable
<1>5. IsFiniteSet(Used(t))
  BY SlotsFinite DEF IsTable
<1> QED BY <1>1, <1>2, <1>3, <1>4, <1>5, FS_AddElement

\* hashtable_insert fills a free slot, or leaves the table as it is, which it
\* can do only if the key is there.
LEMMA InsertFills ==
  ASSUME NEW t, Sound(t), t.mem # 0, NEW k \in Key, NEW v \in Value, Stops(t, k) # {}
  PROVE  LET s == StopSlot(t, k)
             u == Insert(t, k, v)
         IN  /\ s \in Slots(t)
             /\ Sound(u) /\ u.mem = t.mem
             /\ \/ u = t /\ s \in Used(t) /\ t.keys[s] = k
                \/ t.keys[s] = NULL /\ u = Filled(t, s, k, v)
<1> DEFINE s == StopSlot(t, k)
           u == Insert(t, k, v)
<1>1. t.mem \in Nat \ {0} /\ IsTable(t)
  BY DEF Sound, IsTable
<1>2. PICK n \in Slots(t) :
        /\ s = Probe(t, k, n)
        /\ t.keys[Probe(t, k, n)] \in {NULL, k}
  BY <1>1, FirstStop
<1>3. s \in Slots(t) /\ t.keys[s] \in {NULL, k}
  BY <1>1, <1>2, ProbeIn DEF Slots
<1>4. CASE t.keys[s] = k
  <2>1. u = t
    BY <1>4 DEF Insert
  <2> QED BY <1>3, <1>4, <2>1, KeyAssumption DEF Used
<1>5. CASE t.keys[s] = NULL
  <2>1. u = Filled(t, s, k, v)
    BY <1>5, KeyAssumption DEF Insert, Filled
  <2> HIDE DEF s, u
  <2>2. /\ IsTable(u) /\ u.mem = t.mem /\ u.size = t.size + 1 /\ Slots(u) = Slots(t)
        /\ u.keys = [t.keys EXCEPT ![s] = k]
        /\ u.values = [t.values EXCEPT ![s] = v]
        /\ Cardinality(Used(u)) = Cardinality(Used(t)) + 1
    BY <1>1, <1>3, <1>5, <2>1, FilledIs
  <2>3. Paired(u)
    BY <2>2, <1>1, <1>3, KeyAssumption, ValueAssumption DEF Paired, Sound, IsTable
  <2>4. t.size \in Nat /\ Cardinality(Used(t)) \in Nat /\ t.size >= Cardinality(Used(t))
    BY <1>1, SlotsFinite DEF Sound, IsTable
  <2>5. Sound(u)
    BY <2>2, <2>3, <2>4 DEF Sound
  <2>6. s \in Slots(t) /\ u.mem = t.mem /\ t.keys[s] = NULL /\ u = Filled(t, s, k, v)
    BY <1>3, <1>5, <2>1, <2>2
  <2> QED BY <2>5, <2>6 DEF s, u
<1> QED BY <1>3, <1>4, <1>5

\* Where every key is placed, a key that is there is found, and one that is
\* not is placed too.
LEMMA InsertPlaces ==
  ASSUME NEW t, Sound(t), t.mem # 0, Placed(t), NEW k \in Key, NEW v \in Value,
         Stops(t, k) # {}
  PROVE  LET s == StopSlot(t, k)
             u == Insert(t, k, v)
         IN  /\ k \in Mapped(t) => u = t
             /\ k \notin Mapped(t) => /\ t.keys[s] = NULL /\ u = Filled(t, s, k, v)
                                      /\ Placed(u) /\ Mapped(u) = Mapped(t) \cup {k}
<1> DEFINE s == StopSlot(t, k)
           u == Insert(t, k, v)
<1>1. IsTable(t) /\ t.mem \in Nat \ {0}
  BY DEF Sound, IsTable
<1>2. CASE k \in Mapped(t)
  <2>1. PICK n \in Used(t) : t.keys[n] = k
    BY <1>2 DEF Mapped
  <2>2. StopSlot(t, k) = n
    BY <2>1, <1>1, PlacedStop
  <2>3. u = t
    BY <2>1, <2>2 DEF Insert
  <2> QED BY <1>2, <2>3
<1>3. CASE k \notin Mapped(t)
  <2>1. s \in Slots(t) /\ t.keys[s] = NULL /\ u = Filled(t, s, k, v)
    <3>1. ~ (s \in Used(t) /\ t.keys[s] = k)
      BY <1>3 DEF Mapped
    <3> QED BY <3>1, InsertFills
  <2>2. PICK n \in Slots(t) :
          /\ s = Probe(t, k, n)
          /\ \A i \in 0..(n - 1) : t.keys[Probe(t, k, i)] \notin {NULL, k}
    BY <1>1, FirstStop
  <2> HIDE DEF s, u
  <2>3. /\ IsTable(u)
        /\ u.mem = t.mem /\ u.size = t.size + 1 /\ Slots(u) = Slots(t)
        /\ u.keys = [t.keys EXCEPT ![s] = k]
        /\ u.values = [t.values EXCEPT ![s] = v]
        /\ s \notin Used(t) /\ Used(u) = Used(t) \cup {s}
    BY ONLY <1>1, <2>1, FilledIs, k \in Key, v \in Value
  <2>4. \A j, i : Probe(u, j, i) = Probe(t, j, i)
    BY <2>3 DEF Probe
  <2>5. ASSUME NEW r \in Used(t) PROVE r # s /\ u.keys[r] = t.keys[r] /\ u.keys[r] # k
    BY <2>3, <1>1, <1>3 DEF Mapped, Used, IsTable
  <2>6. u.keys[s] = k
    BY <2>1, <2>3, <1>1 DEF IsTable
  <2>7. ASSUME NEW j, NEW m \in Slots(t), Passes(t, j, m) PROVE Passes(u, j, m)
    <3>1. ASSUME NEW i \in 0..(m - 1) PROVE u.keys[Probe(u, j, i)] # NULL
      <4>1. t.keys[Probe(t, j, i)] # NULL
        BY <2>7 DEF Passes
      <4>2. u.keys[Probe(t, j, i)] # NULL
        BY <4>1, <2>3, <1>1, KeyAssumption DEF IsTable
      <4> QED BY <4>2, <2>4
    <3> QED BY <3>1 DEF Passes
  <2>8. ASSUME NEW r \in Used(u) PROVE Comes(u, u.keys[r], r)
    <3>1. CASE r = s
      <4>1. Passes(t, k, n)
        BY <2>2 DEF Passes
      <4> QED BY <3>1, <4>1, <2>2, <2>3, <2>4, <2>6, <2>7 DEF Comes
    <3>2. CASE r \in Used(t)
      <4>1. PICK m \in Slots(t) : Probe(t, t.keys[r], m) = r /\ Passes(t, t.keys[r], m)
        BY <3>2 DEF Placed, Comes
      <4>2. Passes(u, t.keys[r], m)
        BY <4>1, <2>7
      <4> QED BY <3>2, <4>1, <4>2, <2>3, <2>4, <2>5 DEF Comes
    <3> QED BY <3>1, <3>2, <2>3
  <2>9. ASSUME NEW r \in Used(u), NEW q \in Used(u), u.keys[q] = u.keys[r] PROVE q = r
    BY <2>9, <2>3, <2>5, <2>6 DEF Placed
  <2>10. Placed(u)
    BY <2>8, <2>9 DEF Placed
  <2>11. Mapped(u) = Mapped(t) \cup {k}
    BY <2>3, <2>5, <2>6 DEF Mapped
  <2> QED BY <1>3, <2>1, <2>10, <2>11 DEF s, u
<1> QED BY <1>2, <1>3

-----------------------------------------------------------------------------
(* hashtable_rehash *)

\* The table u after the key in slot n of t is moved to it.
Moved(t, n, u) == IF t.keys[n] = NULL THEN u ELSE Insert(u, t.keys[n], t.values[n])

\* f[n] is the new table when n slots of the old table t have been moved.
Moves(t, f, m) ==
    f = [n \in 0..m |-> IF n = 0 THEN Arrays(Larger(t.mem), t.size) ELSE Moved(t, n - 1, f[n - 1])]

\* The slots that have been moved and held a key.
UsedUpTo(t, n) == {j \in Used(t) : j < n}

LEMMA RehashMoves ==
  ASSUME NEW t, t.mem \in Nat
  PROVE  \E f : Moves(t, f, t.mem) /\ Rehash(t) = f[t.mem]
<1> DEFINE T == {m \in Nat : \E f : Moves(t, f, m)}
<1>1. 0 \in T
  <2>1. Moves(t, [n \in 0..0 |-> Arrays(Larger(t.mem), t.size)], 0)
    BY DEF Moves
  <2> QED BY <2>1
<1>2. ASSUME NEW m \in Nat, m \in T PROVE m + 1 \in T
  <2>1. PICK f : Moves(t, f, m)
    BY <1>2
  <2> DEFINE g == [n \in 0..(m + 1) |-> IF n = m + 1 THEN Moved(t, m, f[m]) ELSE f[n]]
             h == [n \in 0..(m + 1) |-> IF n = 0 THEN Arrays(Larger(t.mem), t.size)
                                                 ELSE Moved(t, n - 1, g[n - 1])]
  <2>2. ASSUME NEW n \in 0..(m + 1) PROVE g[n] = h[n]
    <3>1. CASE n = m + 1
      <4>1. n - 1 = m /\ m \in 0..(m + 1) /\ m # m + 1 /\ n # 0
        BY <3>1
      <4>2. g[m] = f[m] /\ g[n] = Moved(t, m, f[m])
        BY <3>1, <4>1
      <4>3. h[n] = Moved(t, m, g[m])
        BY <4>1
      <4> QED BY <4>2, <4>3
    <3>2. CASE n = 0
      <4>1. n \in 0..m /\ n # m + 1
        BY <3>2
      <4>2. f[n] = Arrays(Larger(t.mem), t.size)
        BY <2>1, <3>2, <4>1 DEF Moves
      <4> QED BY <3>2, <4>1, <4>2
    <3>3. CASE n \in 1..m
      <4>1. n \in 0..m /\ n # m + 1 /\ n # 0 /\ n - 1 \in 0..(m + 1) /\ n - 1 # m + 1
        BY <3>3
      <4>2. f[n] = Moved(t, n - 1, f[n - 1])
        BY <2>1, <4>1 DEF Moves
      <4> QED BY <4>1, <4>2
    <3> QED BY <3>1, <3>2, <3>3
  <2>3. g = h
    BY <2>2
  <2>4. Moves(t, g, m + 1)
    BY <2>3 DEF Moves
  <2> QED BY <2>4
<1>3. t.mem \in T
  BY <1>1, <1>2, Induct
<1>4. PICK f : Moves(t, f, t.mem)
  BY <1>3
<1> DEFINE moved[n \in 0..t.mem] ==
             IF n = 0 THEN Arrays(Larger(t.mem), t.size)
             ELSE IF t.keys[n - 1] = NULL THEN moved[n - 1]
             ELSE Insert(moved[n - 1], t.keys[n - 1], t.values[n - 1])
<1>5. Rehash(t) = moved[t.mem]
  BY DEF Rehash
<1>6. moved = [n \in 0..t.mem |->
                 IF n = 0 THEN Arrays(Larger(t.mem), t.size)
                 ELSE IF t.keys[n - 1] = NULL THEN moved[n - 1]
                 ELSE Insert(moved[n - 1], t.keys[n - 1], t.values[n - 1])]
  BY <1>4 DEF Moves, Moved
<1> HIDE DEF moved
<1>7. Moves(t, moved, t.mem)
  BY <1>6 DEF Moves, Moved
<1> QED BY <1>5, <1>7

\* New arrays hold nothing.
LEMMA ArraysEmpty ==
  ASSUME NEW mem \in Nat, NEW size \in Nat
  PROVE  LET t == Arrays(mem, size)
         IN  /\ Sound(t) /\ t.mem = mem /\ t.size = size
             /\ Used(t) = {} /\ Cardinality(Used(t)) = 0
             /\ Placed(t) /\ Mapped(t) = {}
<1> DEFINE t == Arrays(mem, size)
<1>1. t.mem = mem /\ t.size = size /\ Slots(t) = 0..(mem - 1)
  BY DEF Arrays, Slots
<1>2. /\ t.keys = [n \in 0..(mem - 1) |-> NULL]
      /\ t.values = [n \in 0..(mem - 1) |-> NULL]
  BY DEF Arrays
<1>3. Used(t) = {}
  BY <1>1, <1>2 DEF Used
<1>4. IsTable(t)
  <2>1. t = [mem |-> t.mem, size |-> t.size, keys |-> t.keys, values |-> t.values]
    BY DEF Arrays
  <2>2. /\ t.keys \in [Slots(t) -> Key \cup {NULL}]
        /\ t.values \in [Slots(t) -> Value \cup {NULL}]
    BY <1>1, <1>2
  <2> HIDE DEF t
  <2> QED BY <1>1, <2>1, <2>2 DEF IsTable
<1>5. Paired(t)
  BY <1>1, <1>2 DEF Paired
<1>6. Cardinality(Used(t)) = 0
  BY <1>3, FS_EmptySet
<1> HIDE DEF t
<1>7. Sound(t)
  BY <1>1, <1>4, <1>5, <1>6 DEF Sound
<1>8. Placed(t) /\ Mapped(t) = {}
  BY <1>3 DEF Placed, Mapped
<1> QED BY <1>1, <1>3, <1>6, <1>7, <1>8 DEF t

\* The slots that have been moved, one slot further.
LEMMA UpToNext ==
  ASSUME NEW t, IsTable(t), NEW n \in Slots(t)
  PROVE  /\ UsedUpTo(t, n + 1) = IF t.keys[n] = NULL THEN UsedUpTo(t, n)
                                                      ELSE UsedUpTo(t, n) \cup {n}
         /\ n \notin UsedUpTo(t, n)
         /\ IsFiniteSet(UsedUpTo(t, n)) /\ Cardinality(UsedUpTo(t, n)) \in Nat
         /\ Cardinality(UsedUpTo(t, n)) <= n
         /\ Cardinality(UsedUpTo(t, n + 1)) =
              IF t.keys[n] = NULL THEN Cardinality(UsedUpTo(t, n))
                                  ELSE Cardinality(UsedUpTo(t, n)) + 1
<1>1. n \in Nat /\ \A j \in Used(t) : j \in Nat
  BY DEF Slots, Used
<1>2. /\ UsedUpTo(t, n + 1) = IF t.keys[n] = NULL THEN UsedUpTo(t, n)
                                                  ELSE UsedUpTo(t, n) \cup {n}
      /\ n \notin UsedUpTo(t, n)
  <2>1. n \notin UsedUpTo(t, n)
    BY <1>1 DEF UsedUpTo
  <2>2. \A j \in Used(t) : j < n + 1 <=> j < n \/ j = n
    BY <1>1
  <2>3. CASE t.keys[n] = NULL
    <3>1. n \notin Used(t)
      BY <2>3 DEF Used
    <3>2. UsedUpTo(t, n + 1) = UsedUpTo(t, n)
      BY <2>2, <3>1 DEF UsedUpTo
    <3> QED BY <2>1, <2>3, <3>2
  <2>4. CASE t.keys[n] # NULL
    <3>1. n \in Used(t)
      BY <2>4 DEF Used
    <3>2. UsedUpTo(t, n + 1) = UsedUpTo(t, n) \cup {n}
      BY <1>1, <2>2, <3>1 DEF UsedUpTo
    <3> QED BY <2>1, <2>4, <3>2
  <2> QED BY <2>3, <2>4
<1>3. UsedUpTo(t, n) \in SUBSET (0..(n - 1))
  BY <1>1 DEF UsedUpTo
<1>4. IsFiniteSet(0..(n - 1)) /\ Cardinality(0..(n - 1)) = n
  <2>1. 0 \in Int /\ n - 1 \in Int
    BY <1>1
  <2>2. /\ IsFiniteSet(0..(n - 1))
        /\ Cardinality(0..(n - 1)) = IF 0 > n - 1 THEN 0 ELSE (n - 1) - 0 + 1
    BY <2>1, FS_Interval
  <2> QED BY <1>1, <2>2
<1>5. IsFiniteSet(UsedUpTo(t, n)) /\ Cardinality(UsedUpTo(t, n)) <= n
  BY <1>3, <1>4, FS_Subset, ZenonT(40)
<1>6. Cardinality(UsedUpTo(t, n)) \in Nat
  BY <1>5, FS_CardinalityType
<1> QED BY <1>2, <1>5, <1>6, FS_AddElement

\* The new arrays have room for all that the old ones held, and more.
LEMMA LargerIs ==
  ASSUME NEW mem \in Nat \ {0}
  PROVE  Larger(mem) \in Nat /\ Larger(mem) > mem
BY DEF Larger

\* Every key that a slot held is put in the new table, which has slots left;
\* if each was placed in the old table, so it is in the new one, with the
\* value that it had.
MovedUpTo(t, n, u) ==
    /\ Sound(u) /\ u.mem = Larger(t.mem)
    /\ Cardinality(Used(u)) <= Cardinality(UsedUpTo(t, n))
    /\ Placed(t) => /\ Placed(u)
                    /\ Mapped(u) = {t.keys[j] : j \in UsedUpTo(t, n)}
                    /\ \A m \in Used(u) : \E j \in UsedUpTo(t, n) :
                          u.keys[m] = t.keys[j] /\ u.values[m] = t.values[j]

\* One turn of the loop of hashtable_rehash.
LEMMA MoveOne ==
  ASSUME NEW t, Sound(t), t.mem # 0, NEW n \in Slots(t), NEW u, MovedUpTo(t, n, u)
  PROVE  MovedUpTo(t, n + 1, Moved(t, n, u))
<1>1. IsTable(t) /\ t.mem \in Nat \ {0} /\ n \in Nat /\ n < t.mem
  BY DEF Sound, IsTable, Slots
<1>2. /\ UsedUpTo(t, n + 1) = IF t.keys[n] = NULL THEN UsedUpTo(t, n)
                                                  ELSE UsedUpTo(t, n) \cup {n}
      /\ n \notin UsedUpTo(t, n)
      /\ Cardinality(UsedUpTo(t, n)) \in Nat
      /\ Cardinality(UsedUpTo(t, n)) <= n
      /\ Cardinality(UsedUpTo(t, n + 1)) =
           IF t.keys[n] = NULL THEN Cardinality(UsedUpTo(t, n))
                               ELSE Cardinality(UsedUpTo(t, n)) + 1
  BY <1>1, UpToNext
<1>3. CASE t.keys[n] = NULL
  <2>1. Moved(t, n, u) = u
    BY <1>3 DEF Moved
  <2> QED BY <1>2, <1>3, <2>1 DEF MovedUpTo
<1>4. CASE t.keys[n] # NULL
  <2> DEFINE k == t.keys[n]
             v == t.values[n]
             w == Insert(u, k, v)
             s == StopSlot(u, k)
  <2>1. k \in Key /\ v \in Value /\ n \in Used(t)
    BY <1>1, <1>4 DEF Sound, Paired, IsTable, Used
  <2>2. Sound(u) /\ IsTable(u) /\ u.mem \in Nat /\ u.mem # 0 /\ u.mem > t.mem
    BY <1>1, LargerIs DEF MovedUpTo, Sound
  <2>3. /\ Cardinality(Used(u)) \in Nat /\ Cardinality(Used(u)) <= n
        /\ Used(u) # Slots(u)
    <3>1. /\ Cardinality(Used(u)) \in Nat
          /\ Cardinality(Slots(u)) = u.mem
      BY <2>2, SlotsFinite
    <3>2. Cardinality(Used(u)) <= n
      BY <3>1, <1>1, <1>2 DEF MovedUpTo
    <3>3. Cardinality(Used(u)) < u.mem
      BY <3>1, <3>2, <1>1, <2>2
    <3> QED BY <3>1, <3>2, <3>3
  <2>4. Stops(u, k) # {}
    BY <2>1, <2>2, <2>3, SearchEnds
  <2>5. Moved(t, n, u) = w
    BY <1>4 DEF Moved
  <2>6. /\ s \in Slots(u) /\ Sound(w) /\ w.mem = u.mem
        /\ \/ w = u
           \/ u.keys[s] = NULL /\ w = Filled(u, s, k, v)
    BY <2>1, <2>2, <2>4, InsertFills
  <2>7. Placed(t) => /\ k \notin Mapped(u)
                     /\ u.keys[s] = NULL /\ w = Filled(u, s, k, v)
                     /\ Placed(w) /\ Mapped(w) = Mapped(u) \cup {k}
    <3> SUFFICES ASSUME Placed(t)
                 PROVE  /\ k \notin Mapped(u)
                        /\ u.keys[s] = NULL /\ w = Filled(u, s, k, v)
                        /\ Placed(w) /\ Mapped(w) = Mapped(u) \cup {k}
      OBVIOUS
    <3>1. k \notin Mapped(u)
      <4>1. \A j \in UsedUpTo(t, n) : t.keys[j] # k
        BY <1>2, <2>1 DEF Placed, UsedUpTo
      <4> QED BY <4>1 DEF MovedUpTo
    <3>2. Placed(u)
      BY DEF MovedUpTo
    <3> QED BY <3>1, <3>2, <2>1, <2>2, <2>4, InsertPlaces
  <2> HIDE DEF k, v, w, s
  <2>8. u.keys[s] = NULL /\ w = Filled(u, s, k, v) =>
          /\ w.keys = [u.keys EXCEPT ![s] = k]
          /\ w.values = [u.values EXCEPT ![s] = v]
          /\ s \notin Used(u) /\ Used(w) = Used(u) \cup {s}
          /\ Cardinality(Used(w)) = Cardinality(Used(u)) + 1
    BY <2>1, <2>2, <2>6, FilledIs
  <2>9. Cardinality(Used(w)) <= Cardinality(UsedUpTo(t, n + 1))
    <3>1. Cardinality(Used(w)) <= Cardinality(Used(u)) + 1
      BY <2>3, <2>6, <2>8
    <3>2. Cardinality(UsedUpTo(t, n + 1)) = Cardinality(UsedUpTo(t, n)) + 1
      BY <1>2, <1>4
    <3>3. Cardinality(Used(u)) <= Cardinality(UsedUpTo(t, n))
      BY DEF MovedUpTo
    <3>4. Cardinality(Used(w)) \in Nat
      BY <2>6, SlotsFinite DEF Sound, IsTable
    <3> QED BY <3>1, <3>2, <3>3, <3>4, <1>2, <2>3
  <2>10. ASSUME Placed(t)
         PROVE  /\ Placed(w)
                /\ Mapped(w) = {t.keys[j] : j \in UsedUpTo(t, n + 1)}
                /\ \A m \in Used(w) : \E j \in UsedUpTo(t, n + 1) :
                      w.keys[m] = t.keys[j] /\ w.values[m] = t.values[j]
    <3>1. /\ UsedUpTo(t, n + 1) = UsedUpTo(t, n) \cup {n}
          /\ k = t.keys[n] /\ v = t.values[n]
      BY <1>2, <1>4 DEF k, v
    <3>2. Mapped(w) = {t.keys[j] : j \in UsedUpTo(t, n + 1)}
      <4>1. Mapped(w) = {t.keys[j] : j \in UsedUpTo(t, n)} \cup {k}
        BY <2>7, <2>10 DEF MovedUpTo
      <4> QED BY <4>1, <3>1
    <3>3. ASSUME NEW m \in Used(w)
          PROVE  \E j \in UsedUpTo(t, n + 1) :
                    w.keys[m] = t.keys[j] /\ w.values[m] = t.values[j]
      <4>0. /\ w.keys = [u.keys EXCEPT ![s] = k]
            /\ w.values = [u.values EXCEPT ![s] = v]
            /\ s \notin Used(u) /\ Used(w) = Used(u) \cup {s}
        BY <2>7, <2>8, <2>10
      <4>1. CASE m = s
        <5>1. w.keys[m] = k /\ w.values[m] = v
          BY <4>0, <4>1, <2>2, <2>6 DEF IsTable
        <5> QED BY <5>1, <3>1
      <4>2. CASE m \in Used(u)
        <5>1. w.keys[m] = u.keys[m] /\ w.values[m] = u.values[m]
          BY <4>0, <4>2, <2>2 DEF IsTable, Used
        <5>2. PICK j \in UsedUpTo(t, n) : u.keys[m] = t.keys[j] /\ u.values[m] = t.values[j]
          BY <4>2, <2>10 DEF MovedUpTo
        <5> QED BY <5>1, <5>2, <3>1
      <4> QED BY <4>0, <4>1, <4>2
    <3> QED BY <3>2, <3>3, <2>7, <2>10
  <2> QED BY <2>5, <2>6, <2>9, <2>10 DEF MovedUpTo
<1> QED BY <1>3, <1>4

\* hashtable_rehash
LEMMA RehashKeeps ==
  ASSUME NEW t, Sound(t), t.mem # 0
  PROVE  /\ Sound(Rehash(t)) /\ Rehash(t).mem = Larger(t.mem)
         /\ Cardinality(Used(Rehash(t))) <= Cardinality(Used(t))
         /\ Placed(t) => Placed(Rehash(t)) /\ Mapping(Rehash(t)) = Mapping(t)
<1>1. IsTable(t) /\ t.mem \in Nat \ {0} /\ t.size \in Nat
  BY DEF Sound, IsTable
<1>2. PICK f : Moves(t, f, t.mem) /\ Rehash(t) = f[t.mem]
  BY <1>1, RehashMoves
<1>3. /\ f[0] = Arrays(Larger(t.mem), t.size)
      /\ \A n \in Slots(t) : f[n + 1] = Moved(t, n, f[n])
  <2>1. 0 \in 0..t.mem
    BY <1>1
  <2>2. ASSUME NEW n \in Slots(t)
        PROVE  n + 1 \in 0..t.mem /\ n + 1 # 0 /\ (n + 1) - 1 = n
    BY <1>1 DEF Slots
  <2> QED BY <1>2, <2>1, <2>2 DEF Moves
<1> DEFINE T == {n \in Nat : n <= t.mem => MovedUpTo(t, n, f[n])}
<1>4. 0 \in T
  <2>1. Larger(t.mem) \in Nat
    BY <1>1, LargerIs
  <2>2. /\ Sound(f[0]) /\ f[0].mem = Larger(t.mem)
        /\ Used(f[0]) = {} /\ Cardinality(Used(f[0])) = 0
        /\ Placed(f[0]) /\ Mapped(f[0]) = {}
    BY <1>1, <1>3, <2>1, ArraysEmpty
  <2>3. UsedUpTo(t, 0) = {}
    BY DEF UsedUpTo, Used, Slots
  <2>4. Cardinality(UsedUpTo(t, 0)) = 0
    BY <2>3, FS_EmptySet
  <2> QED BY <2>2, <2>3, <2>4 DEF MovedUpTo
<1>5. ASSUME NEW n \in Nat, n \in T PROVE n + 1 \in T
  <2> SUFFICES ASSUME n + 1 <= t.mem PROVE MovedUpTo(t, n + 1, f[n + 1])
    OBVIOUS
  <2>1. n \in Slots(t) /\ MovedUpTo(t, n, f[n])
    BY <1>1, <1>5 DEF Slots
  <2>2. MovedUpTo(t, n + 1, Moved(t, n, f[n]))
    BY <2>1, MoveOne
  <2> QED BY <2>1, <2>2, <1>3
<1>6. t.mem \in T
  BY <1>1, <1>4, <1>5, Induct
<1>7. MovedUpTo(t, t.mem, Rehash(t))
  BY <1>1, <1>2, <1>6
<1>8. UsedUpTo(t, t.mem) = Used(t)
  BY <1>1 DEF UsedUpTo, Used, Slots
<1>9. ASSUME Placed(t)
      PROVE  Placed(Rehash(t)) /\ Mapping(Rehash(t)) = Mapping(t)
  <2>1. /\ Placed(Rehash(t))
        /\ Mapped(Rehash(t)) = Mapped(t)
        /\ \A m \in Used(Rehash(t)) : \E j \in Used(t) :
              Rehash(t).keys[m] = t.keys[j] /\ Rehash(t).values[m] = t.values[j]
    BY <1>7, <1>8, <1>9 DEF MovedUpTo, Mapped
  <2> QED BY <2>1, <1>9, SameMapping
<1> QED BY <1>7, <1>8, <1>9 DEF MovedUpTo

-----------------------------------------------------------------------------
(* hashtable_put *)

HasRoom(t) == t.mem > 0 => Used(t) # Slots(t)

\* The table that hashtable_put inserts into.
Room(t) == IF Crowded(Allocated(t)) THEN Rehash(Allocated(t)) ELSE Allocated(t)

\* An empty table maps nothing.
LEMMA NothingMapped ==
  ASSUME NEW t, NEW u, Used(t) = {}, Used(u) = {}
  PROVE  Placed(t) /\ Placed(u) /\ Mapped(u) = Mapped(t) /\ Mapping(u) = Mapping(t)
<1>1. Placed(t) /\ Placed(u)
  BY DEF Placed
<1>2. Mapped(t) = {} /\ Mapped(u) = {}
  BY DEF Mapped
<1> QED BY <1>1, <1>2, SameMapping

\* It has arrays, with room for another key and a free slot after that, and it
\* maps what the table mapped.
LEMMA RoomIs ==
  ASSUME NEW t, Sound(t), HasRoom(t)
  PROVE  /\ Sound(Room(t)) /\ Room(t).mem \in Nat \ {0}
         /\ Cardinality(Used(Room(t))) \in Nat
         /\ Cardinality(Used(Room(t))) + 1 < Room(t).mem
         /\ Placed(t) => Placed(Room(t)) /\ Mapping(Room(t)) = Mapping(t)
<1> DEFINE old == Allocated(t)
<1>1. /\ Sound(old) /\ old.mem \in Nat \ {0} /\ HasRoom(old)
      /\ Placed(t) => Placed(old) /\ Mapping(old) = Mapping(t)
  <2>1. CASE t.mem = 0
    <3>1. old = Arrays(2, 0)
      BY <2>1 DEF Allocated, FirstMem, Larger
    <3>2. /\ Sound(Arrays(2, 0)) /\ Arrays(2, 0).mem = 2
          /\ Used(Arrays(2, 0)) = {}
      BY ArraysEmpty
    <3>3. Used(t) = {}
      BY <2>1 DEF Used, Slots
    <3>4. 0 \in Slots(old)
      BY <3>1, <3>2 DEF Slots
    <3> HIDE DEF old
    <3> QED BY <3>1, <3>2, <3>3, <3>4, NothingMapped DEF HasRoom
  <2>2. CASE t.mem # 0
    BY <2>2 DEF Allocated, Sound, IsTable
  <2> QED BY <2>1, <2>2
<1>2. Room(t) = IF Crowded(old) THEN Rehash(old) ELSE old
  BY DEF Room
<1> HIDE DEF old
<1>3. /\ Cardinality(Used(old)) \in Nat /\ Cardinality(Used(old)) < old.mem
      /\ old.size \in Nat /\ old.size >= Cardinality(Used(old))
  BY <1>1, SlotsFinite DEF HasRoom, Sound, IsTable
<1>4. CASE Crowded(old)
  <2>1. /\ Sound(Rehash(old)) /\ Rehash(old).mem = Larger(old.mem)
        /\ Cardinality(Used(Rehash(old))) <= Cardinality(Used(old))
        /\ Placed(old) => Placed(Rehash(old)) /\ Mapping(Rehash(old)) = Mapping(old)
    BY <1>1, RehashKeeps
  <2>2. Larger(old.mem) \in Nat /\ Larger(old.mem) > old.mem
    BY <1>1, LargerIs
  <2>3. Cardinality(Used(Rehash(old))) \in Nat
    BY <2>1, SlotsFinite DEF Sound, IsTable
  <2> QED BY <1>1, <1>2, <1>3, <1>4, <2>1, <2>2, <2>3
<1>5. CASE ~Crowded(old)
  <2>1. old.size + 1 <= Capacity(old.mem)
    BY <1>1, <1>3, <1>5 DEF Crowded, Capacity
  <2>2. Capacity(old.mem) < old.mem
    BY <1>1 DEF Capacity
  <2>3. Capacity(old.mem) \in Int
    BY <1>1 DEF Capacity
  <2>4. Cardinality(Used(old)) + 1 < old.mem
    BY <1>1, <1>3, <2>1, <2>2, <2>3
  <2> QED BY <1>1, <1>2, <1>3, <1>5, <2>4
<1> QED BY <1>4, <1>5

\* The mapping m with k mapped to v.
Extended(m, k, v) == [j \in DOMAIN m \cup {k} |-> IF j = k THEN v ELSE m[j]]

\* What the insertion that ends hashtable_put does: it always ends.
LEMMA PutIs ==
  ASSUME NEW t, Sound(t), HasRoom(t), NEW k \in Key, NEW v \in Value
  PROVE  LET new == Insert(Room(t), k, v)
         IN  /\ Stops(Room(t), k) # {}
             /\ Sound(new) /\ HasRoom(new)
             /\ Placed(t) =>
                  /\ Placed(new)
                  /\ k \in Mapped(t) => new = Room(t) /\ Mapping(new) = Mapping(t)
                  /\ k \notin Mapped(t) =>
                       new # Room(t) /\ Mapping(new) = Extended(Mapping(t), k, v)
<1> DEFINE r == Room(t)
           s == StopSlot(r, k)
           new == Insert(r, k, v)
<1>1. /\ Sound(r) /\ r.mem \in Nat \ {0}
      /\ Cardinality(Used(r)) \in Nat
      /\ Cardinality(Used(r)) + 1 < r.mem
      /\ Placed(t) => Placed(r) /\ Mapping(r) = Mapping(t)
  BY RoomIs
<1>2. IsTable(r) /\ Cardinality(Slots(r)) = r.mem
  BY <1>1, SlotsFinite DEF Sound
<1>3. Stops(r, k) # {}
  <2>1. Used(r) # Slots(r)
    BY <1>1, <1>2
  <2> HIDE DEF r
  <2> QED BY <2>1, <1>1, SearchEnds
<1>4. /\ s \in Slots(r) /\ Sound(new) /\ new.mem = r.mem
      /\ \/ new = r
         \/ r.keys[s] = NULL /\ new = Filled(r, s, k, v)
  BY <1>1, <1>3, InsertFills
<1>5. Placed(t) =>
        /\ k \in Mapped(r) => new = r
        /\ k \notin Mapped(r) => /\ r.keys[s] = NULL /\ new = Filled(r, s, k, v)
                                 /\ Placed(new) /\ Mapped(new) = Mapped(r) \cup {k}
  BY <1>1, <1>3, InsertPlaces
<1> HIDE DEF r, s, new
<1>6. r.keys[s] = NULL /\ new = Filled(r, s, k, v) =>
        /\ new.size = r.size + 1
        /\ new.keys = [r.keys EXCEPT ![s] = k]
        /\ new.values = [r.values EXCEPT ![s] = v]
        /\ s \notin Used(r) /\ Used(new) = Used(r) \cup {s}
        /\ Cardinality(Used(new)) = Cardinality(Used(r)) + 1
  BY <1>2, <1>4, FilledIs
<1>7. HasRoom(new)
  <2>1. Cardinality(Used(new)) <= Cardinality(Used(r)) + 1
    BY <1>1, <1>4, <1>6
  <2>2. Cardinality(Used(new)) \in Nat /\ Cardinality(Slots(new)) = new.mem
    BY <1>1, <1>4, SlotsFinite DEF Sound, IsTable
  <2> QED BY <1>1, <1>4, <2>1, <2>2 DEF HasRoom
<1>8. ASSUME Placed(t), k \in Mapped(t)
      PROVE  Placed(new) /\ new = r /\ Mapping(new) = Mapping(t)
  <2>1. Mapped(r) = Mapped(t)
    BY <1>1, <1>8, MappingIs
  <2> QED BY <1>1, <1>5, <1>8, <2>1
<1>9. ASSUME Placed(t), k \notin Mapped(t)
      PROVE  Placed(new) /\ new # r /\ Mapping(new) = Extended(Mapping(t), k, v)
  <2>1. /\ Placed(r) /\ Mapping(r) = Mapping(t)
        /\ Mapped(r) = Mapped(t) /\ DOMAIN Mapping(r) = Mapped(r)
        /\ \A n \in Used(r) : Mapping(r)[r.keys[n]] = r.values[n]
    BY <1>1, <1>9, MappingIs
  <2>2. /\ new.size = r.size + 1
        /\ new.keys = [r.keys EXCEPT ![s] = k]
        /\ new.values = [r.values EXCEPT ![s] = v]
        /\ s \notin Used(r) /\ Used(new) = Used(r) \cup {s}
        /\ Placed(new) /\ Mapped(new) = Mapped(r) \cup {k}
    BY <1>5, <1>6, <1>9, <2>1
  <2>3. new # r
    BY <2>2
  <2>4. /\ DOMAIN Mapping(new) = Mapped(new)
        /\ \A n \in Used(new) : Mapping(new)[new.keys[n]] = new.values[n]
    BY <2>2, MappingIs
  <2>5. ASSUME NEW j \in Mapped(new)
        PROVE  Mapping(new)[j] = IF j = k THEN v ELSE Mapping(t)[j]
    <3>1. CASE j = k
      <4>1. new.keys[s] = k /\ new.values[s] = v /\ s \in Used(new)
        BY <1>2, <1>4, <2>2 DEF IsTable
      <4> QED BY <3>1, <4>1, <2>4
    <3>2. CASE j # k
      <4>1. PICK n \in Used(r) : r.keys[n] = j
        BY <3>2, <2>2 DEF Mapped
      <4>2. n # s /\ n \in Slots(r)
        BY <4>1, <2>2 DEF Used
      <4>3. new.keys[n] = r.keys[n] /\ new.values[n] = r.values[n] /\ n \in Used(new)
        BY <4>1, <4>2, <1>2, <2>2 DEF IsTable
      <4> QED BY <3>2, <4>1, <4>3, <2>1, <2>4
    <3> QED BY <3>1, <3>2
  <2>6. Mapping(new) = [j \in Mapped(new) |-> Mapping(new)[j]]
    BY DEF Mapping
  <2> DEFINE E == [j \in Mapped(new) |-> IF j = k THEN v ELSE Mapping(t)[j]]
  <2>7. Mapping(new) = E
    BY <2>5, <2>6
  <2>8. E = Extended(Mapping(t), k, v)
    BY <2>1, <2>2 DEF Extended
  <2> QED BY <2>2, <2>3, <2>7, <2>8
<1> QED BY <1>3, <1>4, <1>7, <1>8, <1>9 DEF r, new

-----------------------------------------------------------------------------
(* The calls that look for a key *)

\* A value that a caller accepts is beside a key that was found.
LEMMA AcceptedFound ==
  ASSUME NEW t, t.mem \in Nat \ {0}, NEW k \in Key, NEW a \in Accepted, Lookup(t, k) \in a
  PROVE  /\ FindKeyLocation(t, k) \in Used(t)
         /\ t.keys[FindKeyLocation(t, k)] = k
         /\ Lookup(t, k) = t.values[FindKeyLocation(t, k)]
<1>1. a \subseteq Value
  BY DEF Accepted
<1>2. FindKeyLocation(t, k) # NotFound
  BY <1>1, ValueAssumption DEF Lookup
<1> QED BY <1>2, Found DEF Lookup

\* Where every key is placed, the search tells what is mapped.
LEMMA LookupIs ==
  ASSUME NEW t, Sound(t), t.mem # 0, Placed(t), NEW k \in Key
  PROVE  /\ k \in Mapped(t) => /\ FindKeyLocation(t, k) # NotFound
                               /\ Lookup(t, k) = Mapping(t)[k]
                               /\ Mapping(t)[k] \in Value
         /\ k \notin Mapped(t) => /\ FindKeyLocation(t, k) = NotFound
                                  /\ Lookup(t, k) = NULL
<1>1. IsTable(t) /\ t.mem \in Nat \ {0}
  BY DEF Sound, IsTable
<1>2. CASE k \in Mapped(t)
  <2>1. PICK s \in Used(t) : t.keys[s] = k
    BY <1>2 DEF Mapped
  <2>2. FindKeyLocation(t, k) = s
    BY <1>1, <2>1, PlacedStop
  <2>3. s \in Slots(t) /\ s # NotFound
    BY <2>1 DEF Used, Slots, NotFound
  <2>4. t.values[s] \in Value
    BY <1>1, <2>1, <2>3 DEF Sound, Paired, IsTable, Used
  <2>5. Mapping(t)[k] = t.values[s]
    BY <2>1, MappingIs
  <2> QED BY <1>2, <2>2, <2>3, <2>4, <2>5 DEF Lookup
<1>3. CASE k \notin Mapped(t)
  <2>1. FindKeyLocation(t, k) = NotFound
    BY <1>1, <1>3, Found DEF Mapped
  <2> QED BY <1>3, <2>1 DEF Lookup
<1> QED BY <1>2, <1>3

\* The table with slot s freed, and with another value in slot s.
Emptied(t, s) == [t EXCEPT !.keys[s] = NULL, !.values[s] = NULL, !.size = @ - 1]
Revalued(t, s, v) == [t EXCEPT !.values[s] = v]

\* A removal leaves a table in which the other keys are placed, unless a
\* search may have to pass over the slot that it frees.
LEMMA EmptiedIs ==
  ASSUME NEW t, Sound(t), NEW s \in Used(t), NEW u, u = Emptied(t, s)
  PROVE  /\ Sound(u) /\ HasRoom(u)
         /\ Placed(t) /\ t.keys[(s + 1) % t.mem] = NULL =>
              /\ Placed(u)
              /\ Mapping(u) = [j \in Mapped(t) \ {t.keys[s]} |-> Mapping(t)[j]]
<1>1. IsTable(t) /\ s \in Slots(t) /\ t.keys[s] # NULL /\ t.mem \in Nat \ {0}
  BY DEF Sound, IsTable, Used, Slots
<1>2. /\ u.mem = t.mem /\ u.size = t.size - 1
      /\ u.keys = [t.keys EXCEPT ![s] = NULL]
      /\ u.values = [t.values EXCEPT ![s] = NULL]
      /\ Slots(u) = Slots(t)
  BY <1>1 DEF IsTable, Emptied, Slots
<1>3. s \notin Used(u) /\ Used(u) = Used(t) \ {s}
  BY <1>1, <1>2 DEF Used, IsTable
<1>4. /\ Cardinality(Used(u)) = Cardinality(Used(t)) - 1
      /\ Cardinality(Used(t)) \in Nat /\ Cardinality(Used(u)) \in Nat
  <2>1. IsFiniteSet(Used(t)) /\ Cardinality(Used(t)) \in Nat
    BY <1>1, SlotsFinite
  <2>2. Cardinality(Used(u)) = Cardinality(Used(t)) - 1
    BY <1>3, <2>1, FS_RemoveElement
  <2>3. Cardinality(Used(u)) \in Nat
    BY <1>1, <1>2, SlotsFinite
  <2> QED BY <2>1, <2>2, <2>3
<1>5. u.size \in Nat /\ u.size >= Cardinality(Used(u))
  BY <1>1, <1>2, <1>4 DEF Sound, IsTable
<1>6. IsTable(u)
  <2>1. /\ u.keys \in [Slots(u) -> Key \cup {NULL}]
        /\ u.values \in [Slots(u) -> Value \cup {NULL}]
    BY <1>1, <1>2 DEF IsTable
  <2>2. u = [mem |-> u.mem, size |-> u.size, keys |-> u.keys, values |-> u.values]
    BY <1>1 DEF IsTable, Emptied
  <2> QED BY <1>1, <1>2, <1>5, <2>1, <2>2 DEF IsTable
<1>7. Sound(u)
  <2>1. Paired(u)
    BY <1>1, <1>2 DEF Sound, Paired, IsTable
  <2> QED BY <1>5, <1>6, <2>1 DEF Sound
<1>8. HasRoom(u)
  BY <1>1, <1>2, <1>3 DEF HasRoom
<1>9. ASSUME Placed(t), t.keys[(s + 1) % t.mem] = NULL
      PROVE  /\ Placed(u)
             /\ Mapping(u) = [j \in Mapped(t) \ {t.keys[s]} |-> Mapping(t)[j]]
  <2>1. \A j, i : Probe(u, j, i) = Probe(t, j, i)
    BY <1>2 DEF Probe
  <2>2. ASSUME NEW r \in Used(u)
        PROVE  /\ r \in Used(t) /\ u.keys[r] = t.keys[r] /\ u.values[r] = t.values[r]
               /\ t.keys[r] # t.keys[s] /\ t.keys[r] \in Key
    BY <1>1, <1>2, <1>3, <1>9 DEF Used, IsTable, Placed
  <2>3. ASSUME NEW r \in Used(u) PROVE Comes(u, u.keys[r], r)
    <3> DEFINE k == t.keys[r]
    <3>1. k \in Key /\ r \in Used(t) /\ u.keys[r] = k
      BY <2>2
    <3>2. PICK n \in Slots(t) : Probe(t, k, n) = r /\ Passes(t, k, n)
      BY <1>9, <3>1 DEF Placed, Comes
    <3> HIDE DEF k
    <3>3. ASSUME NEW i \in 0..(n - 1) PROVE u.keys[Probe(u, k, i)] # NULL
      <4>1. n \in Nat /\ i \in Nat
        BY <3>2 DEF Slots
      <4>2. Probe(t, k, i + 1) = (Probe(t, k, i) + 1) % t.mem /\ Probe(t, k, i) \in Slots(t)
        BY <1>1, <3>1, <4>1, ProbeIn
      <4>3. t.keys[Probe(t, k, i + 1)] # NULL
        <5>1. CASE i + 1 = n
          BY <5>1, <3>1, <3>2 DEF Used
        <5>2. CASE i + 1 # n
          <6>1. i + 1 \in 0..(n - 1)
            BY <5>2, <4>1
          <6> QED BY <6>1, <3>2 DEF Passes
        <5> QED BY <5>1, <5>2
      <4>4. Probe(t, k, i) # s
        BY <4>2, <4>3, <1>9
      <4>5. t.keys[Probe(t, k, i)] # NULL
        BY <3>2 DEF Passes
      <4>6. u.keys[Probe(t, k, i)] = t.keys[Probe(t, k, i)]
        BY <1>1, <1>2, <4>2, <4>4 DEF IsTable
      <4> QED BY <4>5, <4>6, <2>1
    <3>4. Passes(u, k, n)
      BY <3>3 DEF Passes
    <3> QED BY <3>1, <3>2, <3>4, <2>1, <1>2 DEF Comes
  <2>4. Placed(u)
    BY <2>2, <2>3, <1>9 DEF Placed
  <2>5. Mapped(u) = Mapped(t) \ {t.keys[s]}
    <3>1. ASSUME NEW j \in Mapped(t) \ {t.keys[s]} PROVE j \in Mapped(u)
      <4>1. PICK r \in Used(t) : t.keys[r] = j
        BY DEF Mapped
      <4>2. r \in Used(u)
        BY <4>1, <1>3
      <4> QED BY <4>1, <4>2, <2>2 DEF Mapped
    <3>2. \A j \in Mapped(u) : j \in Mapped(t) \ {t.keys[s]}
      BY <2>2 DEF Mapped
    <3> QED BY <3>1, <3>2
  <2>6. ASSUME NEW j \in Mapped(u) PROVE Mapping(u)[j] = Mapping(t)[j]
    <3>1. PICK r \in Used(u) : u.keys[r] = j
      BY DEF Mapped
    <3>2. Mapping(u)[u.keys[r]] = u.values[r]
      BY <2>4, MappingIs
    <3>3. Mapping(t)[t.keys[r]] = t.values[r]
      BY <1>9, <2>2, MappingIs
    <3> QED BY <3>1, <3>2, <3>3, <2>2
  <2>7. Mapping(u) = [j \in Mapped(u) |-> Mapping(u)[j]]
    BY DEF Mapping
  <2>8. Mapping(u) = [j \in Mapped(u) |-> Mapping(t)[j]]
    BY <2>6, <2>7
  <2> QED BY <2>4, <2>5, <2>8
<1> QED BY <1>7, <1>8, <1>9

\* Another value in a slot that is used moves nothing.
LEMMA RevaluedIs ==
  ASSUME NEW t, Sound(t), HasRoom(t), NEW s \in Used(t), NEW v \in Value,
         NEW u, u = Revalued(t, s, v)
  PROVE  /\ Sound(u) /\ HasRoom(u)
         /\ Placed(t) => Placed(u) /\ Mapping(u) = [Mapping(t) EXCEPT ![t.keys[s]] = v]
<1>1. IsTable(t) /\ s \in Slots(t) /\ t.keys[s] # NULL /\ t.mem \in Nat \ {0}
  BY DEF Sound, IsTable, Used, Slots
<1>2. /\ u.mem = t.mem /\ u.size = t.size /\ u.keys = t.keys
      /\ u.values = [t.values EXCEPT ![s] = v]
      /\ Slots(u) = Slots(t)
  BY <1>1 DEF IsTable, Revalued, Slots
<1>3. Used(u) = Used(t)
  BY <1>2 DEF Used
<1>4. IsTable(u)
  <2>1. /\ u.keys \in [Slots(u) -> Key \cup {NULL}]
        /\ u.values \in [Slots(u) -> Value \cup {NULL}]
    BY <1>1, <1>2 DEF IsTable
  <2>2. u = [mem |-> u.mem, size |-> u.size, keys |-> u.keys, values |-> u.values]
    BY <1>1 DEF IsTable, Revalued
  <2> QED BY <1>1, <1>2, <2>1, <2>2 DEF IsTable
<1>5. Sound(u)
  <2>1. Paired(u)
    BY <1>1, <1>2, ValueAssumption DEF Sound, Paired, IsTable
  <2> QED BY <1>2, <1>3, <1>4, <2>1 DEF Sound
<1>6. HasRoom(u)
  BY <1>2, <1>3 DEF HasRoom
<1>7. ASSUME Placed(t)
      PROVE  Placed(u) /\ Mapping(u) = [Mapping(t) EXCEPT ![t.keys[s]] = v]
  <2>1. \A k, n : Probe(u, k, n) = Probe(t, k, n)
    BY <1>2 DEF Probe
  <2>2. \A k, n : Passes(u, k, n) <=> Passes(t, k, n)
    BY <1>2, <2>1 DEF Passes
  <2>3. \A k, r : Comes(u, k, r) <=> Comes(t, k, r)
    BY <1>2, <2>1, <2>2 DEF Comes
  <2>4. Placed(u)
    BY <1>2, <1>3, <1>7, <2>3 DEF Placed
  <2>5. Mapped(u) = Mapped(t) /\ DOMAIN Mapping(u) = Mapped(u) /\ DOMAIN Mapping(t) = Mapped(t)
    <3>1. Mapped(u) = Mapped(t)
      BY <1>2, <1>3 DEF Mapped
    <3> QED BY <3>1 DEF Mapping
  <2>6. ASSUME NEW j \in Mapped(t)
        PROVE  Mapping(u)[j] = IF j = t.keys[s] THEN v ELSE Mapping(t)[j]
    <3>1. PICK r \in Used(t) : t.keys[r] = j
      BY DEF Mapped
    <3>2. Mapping(u)[j] = u.values[r] /\ Mapping(t)[j] = t.values[r]
      <4>1. r \in Used(u) /\ u.keys[r] = j
        BY <3>1, <1>2, <1>3
      <4>2. Mapping(u)[u.keys[r]] = u.values[r]
        BY <4>1, <2>4, MappingIs
      <4>3. Mapping(t)[t.keys[r]] = t.values[r]
        BY <1>7, MappingIs
      <4> QED BY <3>1, <4>1, <4>2, <4>3
    <3>3. r = s <=> j = t.keys[s]
      BY <3>1, <1>7 DEF Placed
    <3>4. u.values[r] = IF r = s THEN v ELSE t.values[r]
      BY <3>1, <1>1, <1>2 DEF IsTable, Used
    <3> QED BY <3>2, <3>3, <3>4
  <2> DEFINE E == [Mapping(t) EXCEPT ![t.keys[s]] = v]
  <2>7. E = [j \in Mapped(t) |-> IF j = t.keys[s] THEN v ELSE Mapping(t)[j]]
    BY <2>5
  <2>8. Mapping(u) = [j \in Mapped(t) |-> Mapping(u)[j]]
    BY <2>5 DEF Mapping
  <2>9. Mapping(u) = E
    BY <2>6, <2>7, <2>8
  <2> QED BY <2>4, <2>9
<1> QED BY <1>5, <1>6, <1>7

-----------------------------------------------------------------------------
(* The list of the keys *)

\* Cardinalities are the same in the abstract map.
LEMMA MapCardinality ==
  ASSUME NEW S
  PROVE  Map!Cardinality(S) = Cardinality(S) /\ Map!Seqs!Cardinality(S) = Cardinality(S)
<1>1. Map!Cardinality(S) = Cardinality(S)
  BY DEF Map!Cardinality, Cardinality
<1>2. Map!Seqs!Cardinality(S) = Cardinality(S)
  BY DEF Map!Seqs!Cardinality, Cardinality
<1> QED BY <1>1, <1>2

\* How many slots are in use up to slot n.
Rank(t, n) == Cardinality({m \in Used(t) : m <= n})

\* There is one slot in use of each rank.
LEMMA UsedSlotIs ==
  ASSUME NEW t, IsTable(t), NEW i \in 1..Cardinality(Used(t))
  PROVE  UsedSlot(t, i) \in Used(t) /\ Rank(t, UsedSlot(t, i)) = i
<1> DEFINE c == Cardinality(Used(t))
           f == [n \in Used(t) |-> Rank(t, n)]
<1>1. /\ IsFiniteSet(Used(t)) /\ c \in Nat
      /\ \A n \in Used(t) : n \in Nat
  BY SlotsFinite DEF IsTable, Used, Slots
<1>2. ASSUME NEW n \in Used(t), NEW S, S = {m \in Used(t) : m <= n}
      PROVE  /\ Rank(t, n) = Cardinality(S) /\ Rank(t, n) \in 1..c
             /\ IsFiniteSet(S)
  <2>1. S \in SUBSET Used(t) /\ n \in S
    BY <1>1, <1>2
  <2>2. IsFiniteSet(S) /\ Cardinality(S) <= c
    BY <1>1, <2>1, FS_Subset
  <2>3. Cardinality(S) \in Nat /\ Cardinality(S) # 0
    BY <2>1, <2>2, FS_CardinalityType, FS_EmptySet
  <2> QED BY <1>1, <1>2, <2>2, <2>3 DEF Rank
<1>3. ASSUME NEW n \in Used(t), NEW m \in Used(t), m < n PROVE Rank(t, m) # Rank(t, n)
  <2> DEFINE S == {j \in Used(t) : j <= n}
             T == {j \in Used(t) : j <= m}
  <2>1. T \in SUBSET S /\ n \in S /\ n \notin T
    BY <1>1, <1>3
  <2>2. IsFiniteSet(S) /\ Rank(t, n) = Cardinality(S) /\ Rank(t, m) = Cardinality(T)
    BY <1>2
  <2> HIDE DEF S, T
  <2> QED BY <2>1, <2>2, FS_Subset
<1>4. f \in [Used(t) -> 1..c]
  BY <1>2
<1>5. ASSUME NEW n \in Used(t), NEW m \in Used(t), f[n] = f[m] PROVE n = m
  BY <1>1, <1>3, <1>5
<1> HIDE DEF f
<1>6. f \in Injection(Used(t), 1..c)
  BY <1>4, <1>5 DEF Injection, IsInjective
<1>7. IsFiniteSet(1..c) /\ Cardinality(1..c) = c
  <2>1. /\ IsFiniteSet(1..c)
        /\ Cardinality(1..c) = IF 1 > c THEN 0 ELSE c - 1 + 1
    BY <1>1, FS_Interval, SMTT(40)
  <2> QED BY <1>1, <2>1
<1>8. f \in Surjection(Used(t), 1..c)
  BY <1>6, <1>7, FS_Injection
<1>9. PICK n \in Used(t) : f[n] = i
  BY <1>8 DEF Surjection
<1>10. Cardinality({m \in Used(t) : m <= n}) = i
  BY <1>9 DEF f, Rank
<1> QED BY <1>10 DEF UsedSlot, Rank

\* Where every key is placed, there are as many keys as slots in use.
LEMMA MappedCardinality ==
  ASSUME NEW t, Sound(t), Placed(t)
  PROVE  Cardinality(Mapped(t)) = Cardinality(Used(t))
<1> DEFINE f == [n \in Used(t) |-> t.keys[n]]
<1>1. f \in [Used(t) -> Mapped(t)]
  BY DEF Mapped
<1>2. \A n, m \in Used(t) : f[n] = f[m] => n = m
  BY DEF Placed
<1>3. \A k \in Mapped(t) : \E n \in Used(t) : f[n] = k
  BY DEF Mapped
<1> HIDE DEF f
<1>4. f \in Surjection(Used(t), Mapped(t)) /\ f \in Injection(Used(t), Mapped(t))
  BY <1>1, <1>2, <1>3 DEF Surjection, Injection, IsInjective
<1>5. IsFiniteSet(Used(t))
  BY SlotsFinite DEF Sound, IsTable
<1> QED BY <1>4, <1>5, FS_Surjection

\* Where every key is placed, the list holds each key once.
LEMMA KeysListed ==
  ASSUME Sound(table), Placed(table)
  PROVE  KeysInOrder \in Map!Seqs!SetToSeqs(DOMAIN Mapping(table))
<1> DEFINE c == Cardinality(Used(table))
<1>1. IsTable(table) /\ DOMAIN Mapping(table) = Mapped(table)
  BY MappingIs DEF Sound
<1>2. Cardinality(Mapped(table)) = c
  BY MappedCardinality
<1>3. ASSUME NEW i \in 1..c
      PROVE  KeysInOrder[i] = table.keys[UsedSlot(table, i)] /\ KeysInOrder[i] \in Mapped(table)
  BY <1>1, UsedSlotIs DEF KeysInOrder, Mapped
<1>4. KeysInOrder \in [1..c -> Mapped(table)]
  BY <1>3 DEF KeysInOrder
<1>5. ASSUME NEW i \in 1..c, NEW j \in 1..c, i # j PROVE KeysInOrder[i] # KeysInOrder[j]
  <2>1. /\ UsedSlot(table, i) \in Used(table) /\ Rank(table, UsedSlot(table, i)) = i
        /\ UsedSlot(table, j) \in Used(table) /\ Rank(table, UsedSlot(table, j)) = j
    BY <1>1, UsedSlotIs
  <2>2. UsedSlot(table, i) # UsedSlot(table, j)
    BY <1>5, <2>1
  <2>3. table.keys[UsedSlot(table, i)] # table.keys[UsedSlot(table, j)]
    BY <2>1, <2>2 DEF Placed
  <2> QED BY <1>3, <2>3
<1>6. Map!Seqs!Cardinality(Mapped(table)) = c
  BY <1>2, MapCardinality
<1> HIDE DEF c
<1>7. KeysInOrder \in Map!Seqs!SetToSeqs(Mapped(table))
  BY <1>4, <1>5, <1>6 DEF Map!Seqs!SetToSeqs
<1> QED BY <1>1, <1>7

-----------------------------------------------------------------------------
(* The steps *)

\* What a step does, seen from the map; see StepsLikeMap.
LikeMap == broken' \/ ret' = Fault \/ Map!Next \/ Overcounted

LEMMA InitHInv == Init => HInv
<1> SUFFICES ASSUME Init PROVE HInv
  OBVIOUS
<1>1. PICK mem \in InitSize : table = Arrays(mem, 0)
  BY DEF Init
<1>2. mem \in Nat
  BY SizeAssumption
<1>3. /\ Sound(table) /\ table.mem = mem
      /\ Used(table) = {} /\ Placed(table)
  BY <1>1, <1>2, ArraysEmpty
<1>4. RoomLeft
  <2>1. mem > 0 => 0 \in Slots(table)
    BY <1>2, <1>3 DEF Slots
  <2> QED BY <1>3, <2>1 DEF RoomLeft
<1> QED BY <1>3, <1>4 DEF HInv, TypeOK, Sound, IsTable, Init

\* A call that returns something and leaves a table as it should be.
LEMMA NewTable ==
  ASSUME HInv, Sound(table'), HasRoom(table'), broken' \in BOOLEAN,
         broken' \/ Placed(table'),
         ret' \in {NULL, Fault, Destroyed} \/ ret'[1] \in Calls
  PROVE  HInv'
<1>1. TypeOK'
  BY DEF TypeOK, Sound, IsTable
<1>2. RoomLeft'
  BY DEF HasRoom, RoomLeft
<1> QED BY <1>1, <1>2 DEF HInv

\* A call that only looks.
LEMMA SameTable ==
  ASSUME HInv, UNCHANGED <<table, broken>>,
         ret' \in {NULL, Fault, Destroyed} \/ ret'[1] \in Calls
  PROVE  HInv' /\ UNCHANGED Mapping(table)
<1>1. Sound(table') /\ HasRoom(table') /\ broken' \in BOOLEAN /\ (broken' \/ Placed(table'))
  BY DEF HInv, TypeOK, RoomLeft, HasRoom
<1>2. HInv'
  BY <1>1, NewTable
<1> QED BY <1>2

LEMMA PutStep ==
  ASSUME HInv, NEW k \in Key, NEW v \in Value, Put(k, v)
  PROVE  HInv' /\ LikeMap
<1> DEFINE new == Insert(Room(table), k, v)
<1>1. /\ table' = new
      /\ ret' = <<"put", CInt(new # Room(table))>>
      /\ broken' = broken
  BY DEF Put, Room, Return
<1>2. Sound(table) /\ HasRoom(table) /\ broken \in BOOLEAN /\ (broken \/ Placed(table))
  BY DEF HInv, TypeOK, RoomLeft, HasRoom
<1>3. /\ Sound(new) /\ HasRoom(new)
      /\ Placed(table) =>
           /\ Placed(new)
           /\ k \in Mapped(table) => new = Room(table) /\ Mapping(new) = Mapping(table)
           /\ k \notin Mapped(table) =>
                new # Room(table) /\ Mapping(new) = Extended(Mapping(table), k, v)
  BY <1>2, PutIs
<1> HIDE DEF new
<1>4. HInv'
  BY <1>1, <1>2, <1>3, NewTable DEF Calls
<1>5. ASSUME ~broken' PROVE Map!Put(k, v)
  <2>1. Placed(table) /\ DOMAIN Mapping(table) = Mapped(table)
    BY <1>1, <1>2, <1>5, MappingIs
  <2>2. Mapping(table)' = Mapping(new)
    BY <1>1
  <2>3. CASE k \in Mapped(table)
    <3>1. ret' = <<"put", 0>> /\ Mapping(table)' = Mapping(table)
      BY <1>1, <1>3, <2>1, <2>2, <2>3 DEF CInt
    <3> QED BY <2>1, <2>3, <3>1 DEF Map!Put, Map!Mapped, Map!Return
  <2>4. CASE k \notin Mapped(table)
    <3>1. ret' = <<"put", 1>> /\ Mapping(table)' = Extended(Mapping(table), k, v)
      BY <1>1, <1>3, <2>1, <2>2, <2>4 DEF CInt
    <3> QED BY <2>1, <2>4, <3>1 DEF Map!Put, Map!Mapped, Map!Return, Extended
  <2> QED BY <2>3, <2>4
<1> QED BY <1>4, <1>5 DEF LikeMap, Map!Next

\* The calls that tell of one key.
LEMMA LookKeyStep ==
  ASSUME HInv, NEW k \in Key,
         Get(k) \/ ContainsKey(k) \/ \E v \in Value : GetWithDefault(k, v)
  PROVE  HInv' /\ LikeMap
<1>1. /\ UNCHANGED <<table, broken>> /\ table.mem # 0
      /\ ret'[1] \in Calls
  BY DEF Get, ContainsKey, GetWithDefault, Return, Calls
<1>2. HInv' /\ UNCHANGED Mapping(table)
  BY <1>1, SameTable
<1>3. ASSUME ~broken'
      PROVE  Map!Get(k) \/ Map!ContainsKey(k) \/ \E v \in Value : Map!GetWithDefault(k, v)
  <2>1. Sound(table) /\ Placed(table) /\ DOMAIN Mapping(table) = Mapped(table)
    BY <1>1, <1>3, MappingIs DEF HInv
  <2>2. /\ k \in Mapped(table) => /\ FindKeyLocation(table, k) # NotFound
                                  /\ Lookup(table, k) = Mapping(table)[k]
                                  /\ Mapping(table)[k] \in Value
        /\ k \notin Mapped(table) => /\ FindKeyLocation(table, k) = NotFound
                                     /\ Lookup(table, k) = NULL
    BY <1>1, <2>1, LookupIs
  <2>3. CASE Get(k)
    BY <1>2, <2>1, <2>2, <2>3 DEF Get, Return, Map!Get, Map!Return, Map!Mapped
  <2>4. CASE ContainsKey(k)
    BY <1>2, <2>1, <2>2, <2>4
       DEF ContainsKey, CInt, Return, Map!ContainsKey, Map!CInt, Map!Return, Map!Mapped
  <2>5. CASE \E v \in Value : GetWithDefault(k, v)
    <3>1. PICK v \in Value : GetWithDefault(k, v)
      BY <2>5
    <3>2. k \in Mapped(table) => Mapping(table)[k] # NULL
      BY <2>2, ValueAssumption
    <3>3. ret' = <<"getWithDefault", IF k \in Mapped(table) THEN Mapping(table)[k] ELSE v>>
      BY <2>2, <3>1, <3>2 DEF GetWithDefault, Return
    <3> QED BY <1>2, <2>1, <3>3 DEF Map!GetWithDefault, Map!Return, Map!Mapped
  <2> QED BY <1>3, <2>3, <2>4, <2>5
<1> QED BY <1>2, <1>3 DEF LikeMap, Map!Next

\* The call that tells of one value.
LEMMA LookValueStep ==
  ASSUME HInv, NEW v \in Value, ContainsValue(v)
  PROVE  HInv' /\ LikeMap
<1>1. UNCHANGED <<table, broken>> /\ ret'[1] \in Calls
  BY DEF ContainsValue, Return, Calls
<1>2. HInv' /\ UNCHANGED Mapping(table)
  BY <1>1, SameTable
<1>3. ASSUME ~broken' PROVE Map!ContainsValue(v)
  <2>1. /\ Sound(table) /\ Placed(table) /\ DOMAIN Mapping(table) = Mapped(table)
        /\ \A n \in Used(table) : /\ table.keys[n] \in Mapped(table)
                                  /\ Mapping(table)[table.keys[n]] = table.values[n]
    BY <1>1, <1>3, MappingIs DEF HInv
  <2>2. ASSUME NEW n \in Slots(table), table.values[n] = v
        PROVE  \E j \in Mapped(table) : Mapping(table)[j] = v
    <3>1. n \in Used(table)
      BY <2>1, <2>2, ValueAssumption DEF Sound, Paired, Used
    <3> QED BY <2>1, <2>2, <3>1
  <2>3. ASSUME NEW j \in Mapped(table), Mapping(table)[j] = v
        PROVE  \E n \in Slots(table) : table.values[n] = v
    <3>1. PICK n \in Used(table) : table.keys[n] = j
      BY DEF Mapped
    <3> QED BY <2>1, <2>3, <3>1 DEF Used
  <2> QED BY <1>2, <2>1, <2>2, <2>3
          DEF ContainsValue, CInt, Return, Map!ContainsValue, Map!CInt, Map!Return, Map!Mapped
<1> QED BY <1>2, <1>3 DEF LikeMap, Map!Next

\* A search that fails, for remove and for replace.
LEMMA MissStep ==
  ASSUME HInv, NEW k \in Key, NEW a \in Accepted, NEW call \in {"remove", "replace"},
         Misses(call, k, a)
  PROVE  /\ HInv'
         /\ ~broken' => Map!Misses(call, k, a)
<1>1. /\ UNCHANGED <<table, broken>> /\ ret' = <<call, NULL>>
      /\ table.mem # 0 /\ Lookup(table, k) \notin a
  BY DEF Misses, Return
<1>2. HInv' /\ UNCHANGED Mapping(table)
  BY <1>1, SameTable DEF Calls
<1>3. ASSUME ~broken' PROVE Map!Misses(call, k, a)
  <2>1. Sound(table) /\ Placed(table) /\ DOMAIN Mapping(table) = Mapped(table)
    BY <1>1, <1>3, MappingIs DEF HInv
  <2>2. k \in Mapped(table) => Lookup(table, k) = Mapping(table)[k]
    BY <1>1, <2>1, LookupIs
  <2> QED BY <1>1, <1>2, <2>1, <2>2 DEF Map!Misses, Map!Return, Map!Mapped
<1> QED BY <1>2, <1>3

\* A search that succeeds.
LEMMA HitFinds ==
  ASSUME HInv, NEW k \in Key, NEW a \in Accepted, NEW call, Hits(call, k, a)
  PROVE  LET s == FindKeyLocation(table, k)
         IN  /\ s \in Used(table) /\ table.keys[s] = k
             /\ ret' = <<call, Lookup(table, k)>>
             /\ Placed(table) => Map!Hits(call, k, a)
<1>1. /\ table.mem \in Nat \ {0} /\ Sound(table)
      /\ Lookup(table, k) \in a /\ ret' = <<call, Lookup(table, k)>>
  BY DEF Hits, Return, HInv, Sound, IsTable
<1>2. /\ FindKeyLocation(table, k) \in Used(table)
      /\ table.keys[FindKeyLocation(table, k)] = k
  BY <1>1, AcceptedFound
<1>3. ASSUME Placed(table) PROVE Map!Hits(call, k, a)
  <2>1. k \in Mapped(table) /\ DOMAIN Mapping(table) = Mapped(table)
    BY <1>2, <1>3, MappingIs DEF Mapped
  <2>2. Lookup(table, k) = Mapping(table)[k]
    BY <1>1, <1>3, <2>1, LookupIs
  <2> QED BY <1>1, <2>1, <2>2 DEF Map!Hits, Map!Return, Map!Mapped
<1> QED BY <1>1, <1>2, <1>3

LEMMA RemoveStep ==
  ASSUME HInv, NEW k \in Key, NEW a \in Accepted, Remove(k, a)
  PROVE  HInv' /\ LikeMap
<1> a \in Map!Accepted
  BY DEF Accepted, Map!Accepted
<1>1. CASE Misses("remove", k, a)
  <2>1. HInv' /\ (~broken' => Map!Misses("remove", k, a))
    BY <1>1, MissStep
  <2> QED BY <2>1 DEF LikeMap, Map!Next, Map!Remove
<1>2. CASE ~Misses("remove", k, a)
  <2> DEFINE s == FindKeyLocation(table, k)
  <2>1. /\ Hits("remove", k, a)
        /\ table' = Emptied(table, s)
        /\ broken' = (broken \/ InRun(s))
    BY <1>2 DEF Remove, Emptied
  <2>2. /\ s \in Used(table) /\ table.keys[s] = k
        /\ ret' = <<"remove", Lookup(table, k)>>
        /\ Placed(table) => Map!Hits("remove", k, a)
    BY <2>1, HitFinds
  <2>3. Sound(table) /\ broken \in BOOLEAN /\ (broken \/ Placed(table))
    BY DEF HInv, TypeOK
  <2> HIDE DEF s
  <2>4. broken' \in BOOLEAN /\ (~broken' => Placed(table) /\ table.keys[(s + 1) % table.mem] = NULL)
    BY <2>1, <2>3 DEF InRun
  <2>5. /\ Sound(table') /\ HasRoom(table')
        /\ Placed(table) /\ table.keys[(s + 1) % table.mem] = NULL =>
             /\ Placed(table')
             /\ Mapping(table') = [j \in Mapped(table) \ {k} |-> Mapping(table)[j]]
    BY <2>1, <2>2, <2>3, EmptiedIs
  <2>6. HInv'
    BY <2>2, <2>4, <2>5, NewTable DEF Calls
  <2>7. ASSUME ~broken' PROVE Map!Remove(k, a)
    <3>1. DOMAIN Mapping(table) = Mapped(table)
      BY DEF Mapping
    <3> QED BY <2>2, <2>4, <2>5, <2>7, <3>1 DEF Map!Remove, Map!Mapped
  <2> QED BY <2>6, <2>7 DEF LikeMap, Map!Next
<1> QED BY <1>1, <1>2

LEMMA ReplaceStep ==
  ASSUME HInv, NEW k \in Key, NEW a \in Accepted, NEW v \in Value, Replace(k, a, v)
  PROVE  HInv' /\ LikeMap
<1> a \in Map!Accepted
  BY DEF Accepted, Map!Accepted
<1>1. CASE Misses("replace", k, a)
  <2>1. HInv' /\ (~broken' => Map!Misses("replace", k, a))
    BY <1>1, MissStep
  <2> QED BY <2>1 DEF LikeMap, Map!Next, Map!Replace
<1>2. CASE ~Misses("replace", k, a)
  <2> DEFINE s == FindKeyLocation(table, k)
  <2>1. /\ Hits("replace", k, a)
        /\ table' = Revalued(table, s, v)
        /\ broken' = broken
    BY <1>2 DEF Replace, Revalued
  <2>2. /\ s \in Used(table) /\ table.keys[s] = k
        /\ ret' = <<"replace", Lookup(table, k)>>
        /\ Placed(table) => Map!Hits("replace", k, a)
    BY <2>1, HitFinds
  <2>3. Sound(table) /\ HasRoom(table) /\ broken \in BOOLEAN /\ (broken \/ Placed(table))
    BY DEF HInv, TypeOK, RoomLeft, HasRoom
  <2> HIDE DEF s
  <2>4. /\ Sound(table') /\ HasRoom(table')
        /\ Placed(table) =>
             Placed(table') /\ Mapping(table') = [Mapping(table) EXCEPT ![k] = v]
    BY <2>1, <2>2, <2>3, RevaluedIs
  <2>5. HInv'
    BY <2>1, <2>2, <2>3, <2>4, NewTable DEF Calls
  <2>6. ASSUME ~broken' PROVE Map!Replace(k, a, v)
    BY <2>1, <2>2, <2>3, <2>4, <2>6 DEF Map!Replace
  <2> QED BY <2>5, <2>6 DEF LikeMap, Map!Next
<1> QED BY <1>1, <1>2

\* The calls that tell of the whole table.
LEMMA WholeStep ==
  ASSUME HInv, Size \/ IsEmpty \/ GetKeys
  PROVE  HInv' /\ LikeMap
<1>1. UNCHANGED <<table, broken>> /\ ret'[1] \in Calls
  BY DEF Size, IsEmpty, GetKeys, Return, Calls
<1>2. HInv' /\ UNCHANGED Mapping(table)
  BY <1>1, SameTable
<1>3. ASSUME ~broken' PROVE Map!Size \/ Map!IsEmpty \/ Map!GetKeys \/ Overcounted
  <2>1. /\ Sound(table) /\ Placed(table) /\ DOMAIN Mapping(table) = Mapped(table)
        /\ table.size \in Nat /\ Cardinality(Used(table)) \in Nat
        /\ table.size >= Cardinality(Used(table))
    BY <1>1, <1>3, MappingIs, SlotsFinite DEF HInv, Sound, IsTable
  <2>2. Cardinality(Mapped(table)) = Cardinality(Used(table))
    BY <2>1, MappedCardinality
  <2>3. CASE Size
    <3>1. ret' = <<"size", table.size>>
      BY <2>3 DEF Size, Return
    <3>2. CASE table.size = Cardinality(Used(table))
      BY <1>2, <2>1, <2>2, <3>1, <3>2, MapCardinality DEF Map!Size, Map!Return, Map!Mapped
    <3>3. CASE table.size > Cardinality(Used(table))
      BY <1>1, <3>1, <3>3 DEF Overcounted
    <3> QED BY <2>1, <3>2, <3>3
  <2>4. CASE IsEmpty
    <3>1. ret' = <<"isEmpty", CInt(table.size = 0)>>
      BY <2>4 DEF IsEmpty, Return
    <3>2. Mapped(table) = {} <=> Cardinality(Used(table)) = 0
      <4>1. IsFiniteSet(Used(table))
        BY <2>1, SlotsFinite DEF Sound, IsTable
      <4> QED BY <4>1, FS_EmptySet DEF Mapped
    <3>3. CASE table.size = Cardinality(Used(table))
      BY <1>2, <2>1, <3>1, <3>2, <3>3
         DEF CInt, Map!IsEmpty, Map!CInt, Map!Return, Map!Mapped
    <3>4. CASE table.size > Cardinality(Used(table))
      BY <1>1, <2>1, <3>1, <3>4 DEF Overcounted, CInt
    <3> QED BY <2>1, <3>3, <3>4
  <2>5. CASE GetKeys
    <3>1. ret' = <<"getKeys", KeysInOrder>>
      BY <2>5 DEF GetKeys, Return
    <3>2. KeysInOrder \in Map!Seqs!SetToSeqs(DOMAIN Mapping(table))
      BY <2>1, KeysListed
    <3> QED BY <1>2, <3>1, <3>2 DEF Map!GetKeys, Map!Return, Map!Mapped
  <2> QED BY <2>3, <2>4, <2>5
<1> QED BY <1>2, <1>3 DEF LikeMap, Map!Next

\* Calls that run out of memory or die, and the end of the table.
LEMMA EndStep ==
  ASSUME HInv,
         PutNoMemory \/ PutRehashNoMemory \/ SearchFault \/ GetKeysNoMemory \/ Destroy
  PROVE  HInv' /\ LikeMap
<1>1. CASE PutNoMemory
  <2>1. HInv' /\ UNCHANGED Mapping(table)
    BY <1>1, SameTable DEF PutNoMemory, Return, Calls
  <2> QED BY <1>1, <2>1 DEF PutNoMemory, Return, LikeMap, Map!Next, Map!PutNoMemory, Map!Return
<1>2. CASE PutRehashNoMemory \/ SearchFault
  <2>1. UNCHANGED <<table, broken>> /\ ret' = Fault
    BY <1>2 DEF PutRehashNoMemory, SearchFault, Dies
  <2> QED BY <2>1, SameTable DEF LikeMap
<1>3. CASE GetKeysNoMemory
  <2>1. UNCHANGED <<table, broken>> /\ (ret' = Fault \/ ret' = <<"getKeys", NULL>>)
    BY <1>3 DEF GetKeysNoMemory, Dies, Return
  <2>2. HInv' /\ UNCHANGED Mapping(table)
    BY <2>1, SameTable DEF Calls
  <2>3. ret' = <<"getKeys", NULL>> => Map!GetKeys
    BY <2>2 DEF Map!GetKeys, Map!Return
  <2> QED BY <2>1, <2>2, <2>3 DEF LikeMap, Map!Next
<1>4. CASE Destroy
  <2>1. table' = Arrays(0, 0) /\ ret' = Destroyed /\ broken' = broken
    BY <1>4 DEF Destroy
  <2>2. /\ Sound(table') /\ table'.mem = 0
        /\ Placed(table') /\ Mapped(table') = {}
    BY <2>1, ArraysEmpty
  <2>3. HInv'
    BY <2>1, <2>2, NewTable DEF HInv, TypeOK, HasRoom
  <2>4. Mapping(table)' = [k \in {} |-> NULL]
    BY <2>2 DEF Mapping
  <2> QED BY <2>1, <2>3, <2>4 DEF LikeMap, Map!Next, Map!Destroy
<1> QED BY <1>1, <1>2, <1>3, <1>4

LEMMA NextHInv == HInv /\ Next => HInv' /\ LikeMap
<1> SUFFICES ASSUME HInv, Next PROVE HInv' /\ LikeMap
  OBVIOUS
<1>1. CASE \E k \in Key : Call(k)
  <2>1. PICK k \in Key : Call(k)
    BY <1>1
  <2>2. CASE \E v \in Value : Put(k, v)
    BY <2>2, PutStep
  <2>3. CASE Get(k) \/ ContainsKey(k) \/ \E v \in Value : GetWithDefault(k, v)
    BY <2>3, LookKeyStep
  <2>4. CASE \E a \in Accepted : Remove(k, a)
    BY <2>4, RemoveStep
  <2>5. CASE \E a \in Accepted : \E v \in Value : Replace(k, a, v)
    BY <2>5, ReplaceStep
  <2> QED BY <2>1, <2>2, <2>3, <2>4, <2>5 DEF Call
<1>2. CASE \E v \in Value : ContainsValue(v)
  BY <1>2, LookValueStep
<1>3. CASE Size \/ IsEmpty \/ GetKeys
  BY <1>3, WholeStep
<1>4. CASE PutNoMemory \/ PutRehashNoMemory \/ SearchFault \/ GetKeysNoMemory \/ Destroy
  BY <1>4, EndStep
<1> QED BY <1>1, <1>2, <1>3, <1>4 DEF Next

-----------------------------------------------------------------------------
(* Theorems *)

THEOREM HInvAlways == Spec => []HInv
<1>1. HInv /\ UNCHANGED vars => HInv'
  BY SMTT(40) DEF vars, HInv, TypeOK, RoomLeft, Sound, IsTable, Paired, Placed, Comes, Passes, Probe,
         Used, Slots
<1> QED BY InitHInv, NextHInv, <1>1, PTL DEF Spec

\* Types.
THEOREM TypeAlways == Spec => []TypeOK
<1>1. HInv => TypeOK
  BY DEF HInv
<1> QED BY <1>1, HInvAlways, PTL

\* The count never falls behind the keys that are there.
THEOREM CountCoversAlways == Spec => []CountCovers
<1>1. HInv => CountCovers
  BY DEF HInv, Sound, CountCovers
<1> QED BY <1>1, HInvAlways, PTL

\* There is always a free slot to end a search or an insertion.
THEOREM RoomLeftAlways == Spec => []RoomLeft
<1>1. HInv => RoomLeft
  BY DEF HInv
<1> QED BY <1>1, HInvAlways, PTL

\* Until a key is removed from the middle of a run, the table is the map that
\* hashtable.h describes.
THEOREM StepsLikeMapAlways == Spec => StepsLikeMap
<1>1. HInv /\ [Next]_vars => [LikeMap]_vars
  BY NextHInv
<1>2. [LikeMap]_vars <=> [broken' \/ ret' = Fault \/ Map!Next \/ Overcounted]_vars
  BY DEF LikeMap
<1> QED BY <1>1, <1>2, HInvAlways, PTL DEF Spec, StepsLikeMap

=============================================================================
