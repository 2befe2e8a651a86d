---------------------------- MODULE AbstractList ----------------------------
(***************************************************************************)
(* What collections/list.h promises of a list: every call behaves as the   *)
(* operation on a sequence that its comment describes, and a call that     *)
(* sets an error leaves the list as it was.  Positions count from 0.  One  *)
(* exception goes beyond the header: see RemoveUnpaid.                     *)
(***************************************************************************)
EXTENDS Integers, Sequences

CONSTANTS
    Elem,
    NULL,
    Pos     \* the positions callers pass

VARIABLES
    list,   \* the elements
    err,    \* the error field
    ret     \* what the last call returned

Before(s, pos) == SubSeq(s, 1, pos)
After(s, pos)  == SubSeq(s, pos + 1, Len(s))

Init == list = <<>> /\ err = "LIST_OKAY" /\ ret = NULL

AddPos(pos, e) ==
    /\ pos <= Len(list)
    /\ list' = Before(list, pos) \o <<e>> \o After(list, pos)
    /\ err' = "LIST_OKAY"
    /\ ret' = NULL

Get(pos) ==
    /\ pos < Len(list)
    /\ ret' = list[pos + 1]
    /\ err' = "LIST_OKAY"
    /\ UNCHANGED list

Remove(pos) ==
    /\ pos < Len(list)
    /\ ret' = list[pos + 1]
    /\ list' = Before(list, pos) \o After(list, pos + 1)
    /\ err' = "LIST_OKAY"

\* The element is removed, memory runs out when the list gives some back, and
\* the caller gets NULL and LIST_MEMORY for an element it can reach no more.
\* The header names no such error.
RemoveUnpaid(pos) ==
    /\ pos < Len(list)
    /\ list' = Before(list, pos) \o After(list, pos + 1)
    /\ err' = "LIST_MEMORY"
    /\ ret' = NULL

Size ==
    /\ ret' = Len(list)
    /\ err' = "LIST_OKAY"
    /\ UNCHANGED list

\* Any other error changes nothing but err.  Memory may run out when an element is
\* added; a position is out of bounds only if it is.
OutOfMemory ==
    /\ err' = "LIST_MEMORY"
    /\ ret' = NULL
    /\ UNCHANGED list

OutOfBounds(pos) ==
    /\ pos >= Len(list)
    /\ err' = "LIST_BOUNDS"
    /\ ret' = NULL
    /\ UNCHANGED list

Next ==
    \/ \E pos \in Pos, e \in Elem : AddPos(pos, e)
    \/ \E pos \in Pos : Get(pos) \/ Remove(pos) \/ RemoveUnpaid(pos) \/ OutOfBounds(pos)
    \/ Size \/ OutOfMemory

Spec == Init /\ [][Next]_<<list, err, ret>>

=============================================================================
