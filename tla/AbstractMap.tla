---------------------------- MODULE AbstractMap ----------------------------
(***************************************************************************)
(* What collections/hashtable.h promises of a hash table that holds no     *)
(* NULL values: each call behaves as its comment says on a finite map.     *)
(***************************************************************************)
EXTENDS Naturals, FiniteSets

Seqs == INSTANCE SequencesExt

CONSTANTS Key, Value, NULL, Destroyed

VARIABLES
    map,    \* the value of each key that has one
    ret     \* the last call and what it returned

Mapped == DOMAIN map

Return(call, r) == ret' = <<call, r>>

\* A condition as a C int.
CInt(condition) == IF condition THEN 1 ELSE 0

\* A key that is mapped keeps its value.
Put(k, v) ==
    IF k \in Mapped
      THEN Return("put", 0) /\ UNCHANGED map
      ELSE /\ map' = [j \in Mapped \cup {k} |-> IF j = k THEN v ELSE map[j]]
           /\ Return("put", 1)

\* Out of memory: zero, as for a key that is mapped.
PutNoMemory == Return("put", 0) /\ UNCHANGED map

Get(k) ==
    /\ Return("get", IF k \in Mapped THEN map[k] ELSE NULL)
    /\ UNCHANGED map

GetWithDefault(k, default) ==
    /\ Return("getWithDefault", IF k \in Mapped THEN map[k] ELSE default)
    /\ UNCHANGED map

ContainsKey(k) ==
    /\ Return("containsKey", CInt(k \in Mapped))
    /\ UNCHANGED map

ContainsValue(v) ==
    /\ Return("containsValue", CInt(\E k \in Mapped : map[k] = v))
    /\ UNCHANGED map

\* remove and replace do nothing if the key is not mapped or, in the variants
\* that name the old value, is mapped to another.
Misses(call, k, accepted) ==
    /\ k \in Mapped => map[k] \notin accepted
    /\ Return(call, NULL)
    /\ UNCHANGED map

Hits(call, k, accepted) ==
    /\ k \in Mapped /\ map[k] \in accepted
    /\ Return(call, map[k])

Remove(k, accepted) ==
    \/ Misses("remove", k, accepted)
    \/ Hits("remove", k, accepted) /\ map' = [j \in Mapped \ {k} |-> map[j]]

Replace(k, accepted, v) ==
    \/ Misses("replace", k, accepted)
    \/ Hits("replace", k, accepted) /\ map' = [map EXCEPT ![k] = v]

Size    == Return("size", Cardinality(Mapped)) /\ UNCHANGED map
IsEmpty == Return("isEmpty", CInt(Mapped = {})) /\ UNCHANGED map

\* Each key once, in any order; or NULL, out of memory.
GetKeys ==
    /\ \E keys \in Seqs!SetToSeqs(Mapped) \cup {NULL} : Return("getKeys", keys)
    /\ UNCHANGED map

Destroy ==
    /\ map' = [k \in {} |-> NULL]
    /\ ret' = Destroyed

\* Any old value, or the one that the caller names.
Accepted == {Value} \cup {{v} : v \in Value}

Next ==
    \/ \E k \in Key :
        \/ Get(k) \/ ContainsKey(k)
        \/ \E v \in Value : Put(k, v) \/ GetWithDefault(k, v)
        \/ \E a \in Accepted : Remove(k, a) \/ \E v \in Value : Replace(k, a, v)
    \/ \E v \in Value : ContainsValue(v)
    \/ PutNoMemory \/ Size \/ IsEmpty \/ GetKeys \/ Destroy

=============================================================================
