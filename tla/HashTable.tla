------------------------------ MODULE HashTable ------------------------------
(***************************************************************************)
(* collections/hashtable.c: a hash table with linear probing.  A key is    *)
(* put in the first free slot from the one it hashes to, and looked for    *)
(* from there up to a free slot; the arrays grow when the count of keys    *)
(* passes 0.7 of the slots; a removal frees the key's slot and moves       *)
(* nothing.  The table is not locked: a call is one step, and the callers  *)
(* of a table that is shared must see to that.                             *)
(***************************************************************************)
EXTENDS Integers, FiniteSets, Sequences

CONSTANTS
    Key, Value,
    NULL,
    Hash,       \* ht->hash: Hash[k] is the hash of k
    Fault,      \* the process dies: a division by zero, or a NULL array is used
    Destroyed,  \* the table has been freed
    InitSize,   \* sizes a table is made with; 0 is hashtable_init
    MaxMem      \* bound: slots of a table

ASSUME KeyAssumption   == NULL \notin Key
ASSUME ValueAssumption == NULL \notin Value
ASSUME HashAssumption  == Hash \in [Key -> Nat]
ASSUME SizeAssumption  == InitSize \subseteq Nat

VARIABLES
    table,    \* the structure: keys, values, size and mem_size
    ret,      \* the last call and what it returned
    broken    \* history: a key has been removed from the middle of a run

vars == <<table, ret, broken>>

NotFound == -1

\* The calls that return something.
Calls == {"put", "get", "getWithDefault", "containsKey", "containsValue", "remove",
          "replace", "size", "isEmpty", "getKeys"}

Slots(t) == 0..(t.mem - 1)
Used(t)  == {n \in Slots(t) : t.keys[n] # NULL}

TypeOK ==
    /\ table \in [mem : Nat, size : Nat,
                  keys   : [Slots(table) -> Key \cup {NULL}],
                  values : [Slots(table) -> Value \cup {NULL}]]
    /\ ret \in {NULL, Fault, Destroyed} \/ ret[1] \in Calls
    /\ broken \in BOOLEAN

\* Arrays of mem slots from calloc, and a count of keys.
Arrays(mem, size) ==
    [mem |-> mem, size |-> size,
     keys   |-> [n \in 0..(mem - 1) |-> NULL],
     values |-> [n \in 0..(mem - 1) |-> NULL]]

Init ==
    /\ \E mem \in InitSize : table = Arrays(mem, 0)
    /\ ret = NULL
    /\ broken = FALSE

-----------------------------------------------------------------------------
(* The helpers of the code.  The products with the float 0.7 truncate to   *)
(* the same numbers as these divisions.                                    *)

Capacity(mem) == (mem * 7) \div 10      \* mem_size * fill_ratio
Larger(mem)   == (mem * 27) \div 10     \* mem_size * (fill_ratio + 1 + 1)
FirstMem      == Larger(1)              \* 1 + fill_ratio + 1

\* The slot looked at after n others.
Probe(t, k, n) == (Hash[k] + n) % t.mem

\* Mutant: the search stops at the end of the arrays.
StopsNoWrap(t, k) ==
    {n \in Slots(t) : Probe(t, k, n) = t.mem - 1 \/ t.keys[Probe(t, k, n)] \in {NULL, k}}

\* How many slots may be passed before one that ends the search for k.
Stops(t, k) == {n \in Slots(t) : t.keys[Probe(t, k, n)] \in {NULL, k}}

\* The slot where the search for k ends, if it ends.
StopSlot(t, k) == Probe(t, k, CHOOSE n \in Stops(t, k) : \A m \in Stops(t, k) : n <= m)

\* hashtable_findKeyLocation
FindKeyLocation(t, k) ==
    IF Stops(t, k) = {} \/ t.keys[StopSlot(t, k)] # k THEN NotFound ELSE StopSlot(t, k)

\* Mutant: the key is not counted.
InsertUncounted(t, k, v) ==
    LET loc == StopSlot(t, k) IN
      IF t.keys[loc] = k THEN t
      ELSE [t EXCEPT !.keys[loc] = k, !.values[loc] = v]

\* hashtable_insert, in a table with a slot to end the search
Insert(t, k, v) ==
    LET loc == StopSlot(t, k) IN
      IF t.keys[loc] = k THEN t
      ELSE [t EXCEPT !.keys[loc] = k, !.values[loc] = v, !.size = @ + 1]

\* hashtable_rehash.  The count goes on from the old one.
Rehash(t) ==
    LET moved[n \in 0..t.mem] ==
          IF n = 0 THEN Arrays(Larger(t.mem), t.size)
          ELSE IF t.keys[n - 1] = NULL THEN moved[n - 1]
          ELSE Insert(moved[n - 1], t.keys[n - 1], t.values[n - 1])
    IN  moved[t.mem]

\* Mutant: the table may go over its capacity by one key.
CrowdedLate(t) == t.size > Capacity(t.mem)

Crowded(t) == t.size + 1 > Capacity(t.mem)

Allocated(t) == IF t.mem = 0 THEN Arrays(FirstMem, 0) ELSE t

-----------------------------------------------------------------------------
(* The API *)

Return(call, r) == ret' = <<call, r>>
Dies == ret' = Fault

\* A condition as a C int.
CInt(condition) == IF condition THEN 1 ELSE 0

\* hashtable_put.  The table is rehashed before it is known whether the key
\* is there.
Put(k, v) ==
    LET old  == Allocated(table)
        room == IF Crowded(old) THEN Rehash(old) ELSE old
        new  == Insert(room, k, v)
    IN  /\ room.mem <= MaxMem
        /\ Stops(room, k) # {}                  \* else the call never returns
        /\ table' = new
        /\ Return("put", CInt(new # room))
        /\ UNCHANGED broken

\* calloc returns NULL for the first arrays.
PutNoMemory ==
    /\ table.mem = 0
    /\ Return("put", 0)
    /\ UNCHANGED <<table, broken>>

\* calloc returns NULL in hashtable_rehash, which does not look.
PutRehashNoMemory ==
    /\ table.mem # 0 /\ Crowded(table)
    /\ Dies
    /\ UNCHANGED <<table, broken>>

\* hash(key) % mem_size in a table that has no arrays yet
SearchFault ==
    /\ table.mem = 0
    /\ Dies
    /\ UNCHANGED <<table, broken>>

Lookup(t, k) ==
    LET loc == FindKeyLocation(t, k) IN IF loc = NotFound THEN NULL ELSE t.values[loc]

Get(k) ==
    /\ table.mem # 0
    /\ Return("get", Lookup(table, k))
    /\ UNCHANGED <<table, broken>>

\* hashtable_getWithDefault takes NULL for a key that is not there.
GetWithDefault(k, default) ==
    /\ table.mem # 0
    /\ LET actual == Lookup(table, k)
       IN  Return("getWithDefault", IF actual = NULL THEN default ELSE actual)
    /\ UNCHANGED <<table, broken>>

ContainsKey(k) ==
    /\ table.mem # 0
    /\ Return("containsKey", CInt(FindKeyLocation(table, k) # NotFound))
    /\ UNCHANGED <<table, broken>>

\* Every slot is compared, those in use and those that are free; value_equals
\* is the application's, and finds NULL equal to no value.
ContainsValue(v) ==
    /\ Return("containsValue", CInt(\E n \in Slots(table) : table.values[n] = v))
    /\ UNCHANGED <<table, broken>>

\* The search of remove and replace fails, or finds a value that is not one
\* of those the caller names.
Misses(call, k, accepted) ==
    /\ table.mem # 0
    /\ Lookup(table, k) \notin accepted
    /\ Return(call, NULL)
    /\ UNCHANGED <<table, broken>>

Hits(call, k, accepted) ==
    /\ table.mem # 0
    /\ Lookup(table, k) \in accepted
    /\ Return(call, Lookup(table, k))

\* The next slot is in use: a search may have to pass over slot loc.
InRun(loc) == table.keys[(loc + 1) % table.mem] # NULL

\* Mutant: a miss counts down too.
RemoveMissCounts(k, accepted) ==
    \/ /\ Lookup(table, k) \notin accepted
       /\ table.mem # 0
       /\ table' = [table EXCEPT !.size = @ - 1]
       /\ Return("remove", NULL)
       /\ UNCHANGED broken
    \/ /\ Hits("remove", k, accepted)
       /\ LET loc == FindKeyLocation(table, k) IN
            /\ table' = [table EXCEPT !.keys[loc] = NULL, !.values[loc] = NULL, !.size = @ - 1]
            /\ broken' = (broken \/ InRun(loc))

\* hashtable_remove takes any value, hashtable_removeIfValue one.
Remove(k, accepted) ==
    \/ Misses("remove", k, accepted)
    \/ /\ Hits("remove", k, accepted)
       /\ LET loc == FindKeyLocation(table, k) IN
            /\ table' = [table EXCEPT !.keys[loc] = NULL, !.values[loc] = NULL, !.size = @ - 1]
            /\ broken' = (broken \/ InRun(loc))

\* hashtable_replace takes any old value, hashtable_replaceIfValue one.
Replace(k, accepted, v) ==
    \/ Misses("replace", k, accepted)
    \/ /\ Hits("replace", k, accepted)
       /\ table' = [table EXCEPT !.values[FindKeyLocation(table, k)] = v]
       /\ UNCHANGED broken

Size ==
    /\ Return("size", table.size)
    /\ UNCHANGED <<table, broken>>

IsEmpty ==
    /\ Return("isEmpty", CInt(table.size = 0))
    /\ UNCHANGED <<table, broken>>

\* The i-th slot that is in use: there are i of them up to it.
UsedSlot(t, i) == CHOOSE n \in Used(t) : Cardinality({m \in Used(t) : m <= n}) = i

\* The keys in the order of their slots, in an array list that is made with
\* room for as many as are counted.
KeysInOrder == [i \in 1..Cardinality(Used(table)) |-> table.keys[UsedSlot(table, i)]]

GetKeys ==
    /\ Len(KeysInOrder) <= table.size      \* else the list has to grow
    /\ Return("getKeys", KeysInOrder)
    /\ UNCHANGED <<table, broken>>

\* The array list cannot be made, which is not looked at before its first use.
GetKeysNoMemory ==
    /\ IF Used(table) = {} THEN Return("getKeys", NULL) ELSE Dies
    /\ UNCHANGED <<table, broken>>

\* hashtable_destroy
Destroy ==
    /\ table' = Arrays(0, 0)
    /\ ret' = Destroyed
    /\ UNCHANGED broken

\* What a caller of remove and replace accepts: any value, or the one it names.
Accepted == {Value} \cup {{v} : v \in Value}

Call(k) ==
    \/ Get(k) \/ ContainsKey(k)
    \/ \E v \in Value : Put(k, v) \/ GetWithDefault(k, v)
    \/ \E a \in Accepted : Remove(k, a) \/ \E v \in Value : Replace(k, a, v)

Next ==
    /\ ret \notin {Fault, Destroyed}
    /\ \/ \E k \in Key : Call(k)
       \/ PutNoMemory \/ PutRehashNoMemory \/ SearchFault
       \/ \E v \in Value : ContainsValue(v)
       \/ Size \/ IsEmpty \/ GetKeys \/ GetKeysNoMemory \/ Destroy

Spec == Init /\ [][Next]_vars

-----------------------------------------------------------------------------
(* Properties *)

\* The count never falls behind the keys that are there, through duplicates,
\* rehashes and removals; the capacity check relies on it.
CountCovers == table.size >= Cardinality(Used(table))

\* The table has a free slot, so that the loop of hashtable_insert, which
\* looks for one without counting, ends.
RoomLeft == table.mem > 0 => Used(table) # Slots(table)

\* The keys in a table, and the value of each.
Mapped(t)  == {t.keys[n] : n \in Used(t)}
Mapping(t) == [k \in Mapped(t) |-> t.values[CHOOSE n \in Used(t) : t.keys[n] = k]]
Map        == INSTANCE AbstractMap WITH map <- Mapping(table)

\* hashtable_size and hashtable_isEmpty tell of a count that a rehash has made
\* too large.
Overcounted ==
    /\ table.size > Cardinality(Used(table))
    /\ ret' \in {<<"size", table.size>>, <<"isEmpty", 0>>}
    /\ UNCHANGED table

\* Until a key is removed from the middle of a run, every call does to the
\* mapping what hashtable.h says and returns it: growing, colliding, wrapping
\* around and removing from the end of a run lose, invent and duplicate
\* nothing, and the list of the keys holds each of them once.  Only the size
\* may be too large.
StepsLikeMap == [][broken' \/ ret' = Fault \/ Map!Next \/ Overcounted]_vars

-----------------------------------------------------------------------------
(* What the repository says, and the code does not do *)

\* collections/hashtable.h:65 get returns the value mapped to a key that is
\* in the table: every key in a slot can be found.
FindsMapped == \A k \in Mapped(table) : FindKeyLocation(table, k) # NotFound

=============================================================================
