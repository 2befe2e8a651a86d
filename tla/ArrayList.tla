------------------------------ MODULE ArrayList ------------------------------
(***************************************************************************)
(* collections/arraylist.c: a list in an array that grows by Step when it  *)
(* is full and shrinks when more than four Steps are unused.  Every call   *)
(* holds the list's mutex from its first access to its last, so a call is  *)
(* one step.                                                               *)
(***************************************************************************)
EXTENDS Integers, Sequences

CONSTANTS
    Elem,
    NULL,
    Unset,         \* what an array slot holds before it is written
    Step,          \* DEFAULT_LIST_STEP: 25 in the code
    InitLen,       \* values of arraylist_init_len's argument
    MaxLen         \* bound: the length of the list

ASSUME ElemAssumption    == NULL \notin Elem
ASSUME StepAssumption    == Step \in Nat \ {0}
ASSUME InitLenAssumption == InitLen \subseteq Nat
ASSUME MaxLenAssumption  == MaxLen \in Nat

VARIABLES
    array,       \* the slots, 1..allocated
    len,
    allocated,
    err,         \* the error field, shared by all callers
    ret          \* what the last call returned

vars == <<array, len, allocated, err, ret>>

Slot  == Elem \cup {NULL, Unset}
Error == {"LIST_OKAY", "LIST_BOUNDS", "LIST_MEMORY"}

TypeOK ==
    /\ len \in Nat
    /\ allocated \in Nat
    /\ array \in [1..allocated -> Slot]
    /\ err \in Error
    /\ ret \in Elem \cup {NULL} \cup Nat

Init ==
    /\ len = 0
    /\ allocated \in InitLen
    /\ array = [i \in 1..allocated |-> Unset]
    /\ err = "LIST_OKAY"
    /\ ret = NULL

\* realloc keeps the slots that both sizes have.
Realloc(a, old, new) == [i \in 1..new |-> IF i <= old THEN a[i] ELSE Unset]

Fail(code) ==
    /\ err' = code
    /\ ret' = NULL
    /\ UNCHANGED <<array, len, allocated>>

\* Mutant: an element is let in when the array is exactly full.
GrownLate == IF len > allocated THEN allocated + Step ELSE allocated

\* The number of slots arraylist_add_pos needs before it inserts.
Grown == IF len + 1 > allocated THEN allocated + Step ELSE allocated

\* Mutant: the move ends one element early.
InsertedShort(a, pos, e) ==
    [i \in DOMAIN a |->
        IF i = pos + 1 THEN e
        ELSE IF i > pos + 1 /\ i <= len THEN a[i - 1]
        ELSE a[i]]

\* The elements from pos on move up by one, and e takes the place.
Inserted(a, pos, e) ==
    [i \in DOMAIN a |->
        IF i = pos + 1 THEN e
        ELSE IF i > pos + 1 /\ i <= len + 1 THEN a[i - 1]
        ELSE a[i]]

AddPos(pos, e) ==
    /\ pos <= len
    /\ len < MaxLen
    /\ array' = Inserted(Realloc(array, allocated, Grown), pos, e)
    /\ allocated' = Grown
    /\ len' = len + 1
    /\ err' = "LIST_OKAY"
    /\ ret' = NULL

AddPosBounds(pos) == len < pos /\ Fail("LIST_BOUNDS")

AddPosMemory ==
    /\ Grown # allocated
    /\ Fail("LIST_MEMORY")

\* arraylist_add is arraylist_add_pos at the end.
Add(e) == AddPos(len, e)

InBounds(pos) == len # 0 /\ pos <= len - 1

Get(pos) ==
    /\ InBounds(pos)
    /\ ret' = array[pos + 1]
    /\ err' = "LIST_OKAY"
    /\ UNCHANGED <<array, len, allocated>>

GetBounds(pos) == ~InBounds(pos) /\ Fail("LIST_BOUNDS")

\* The elements after pos move down by one, and the last slot is cleared.
Closed(a, pos) ==
    [i \in DOMAIN a |->
        IF i > pos /\ i < len THEN a[i + 1]
        ELSE IF i = len THEN NULL
        ELSE a[i]]

\* The number of slots after one of len elements is removed.
Shrunk == IF len - 1 + 4 * Step < allocated THEN len - 1 + Step ELSE allocated

Remove(pos) ==
    /\ InBounds(pos)
    /\ array' = Realloc(Closed(array, pos), allocated, Shrunk)
    /\ allocated' = Shrunk
    /\ len' = len - 1
    /\ err' = "LIST_OKAY"
    /\ ret' = array[pos + 1]

\* The realloc that shrinks the array fails: the element has been removed,
\* and the caller gets NULL.
RemoveMemory(pos) ==
    /\ InBounds(pos) /\ Shrunk # allocated
    /\ array' = Closed(array, pos)
    /\ len' = len - 1
    /\ err' = "LIST_MEMORY"
    /\ ret' = NULL
    /\ UNCHANGED allocated

RemoveBounds(pos) == ~InBounds(pos) /\ Fail("LIST_BOUNDS")

Size ==
    /\ ret' = len
    /\ err' = "LIST_OKAY"
    /\ UNCHANGED <<array, len, allocated>>

\* Callers pass positions up to one past any element.
Pos == 0..(MaxLen + 1)

Next ==
    \/ \E e \in Elem : Add(e) \/ \E pos \in Pos : AddPos(pos, e)
    \/ AddPosMemory
    \/ \E pos \in Pos :
         \/ AddPosBounds(pos)
         \/ Get(pos) \/ GetBounds(pos)
         \/ Remove(pos) \/ RemoveMemory(pos) \/ RemoveBounds(pos)
    \/ Size

Spec == Init /\ [][Next]_vars

-----------------------------------------------------------------------------
(* Properties *)

\* The elements are in slots the array has, and none of those slots is one
\* that was never written or was cleared.
ElementsAreStored == len <= allocated /\ \A i \in 1..len : array[i] \in Elem

Contents == [i \in 1..len |-> array[i]]

\* Through growing, shrinking and both failing, every call does to the
\* elements what AbstractList says.
List == INSTANCE AbstractList WITH list <- Contents
ImplementsList == List!Spec

=============================================================================
