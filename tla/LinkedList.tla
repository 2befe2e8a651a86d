----------------------------- MODULE LinkedList -----------------------------
(***************************************************************************)
(* collections/linkedlist.c: a list of nodes with next and prev pointers.  *)
(* Every call holds the list's recursive mutex from its first access to    *)
(* its last, so a call is one step.  ListDispatch makes the calls.         *)
(*                                                                         *)
(* An insertion between two nodes links them wrongly (InsertBetween), and  *)
(* the model follows the pointers through what comes of it.  A call that   *)
(* reads a freed node or NULL, that never ends, or that returns with the   *)
(* mutex held ends the behaviour, with the reason in end.                  *)
(***************************************************************************)
EXTENDS Integers, Sequences, FiniteSets

CONSTANTS
    Node,      \* the addresses of nodes; bound: how many there are
    Elem,
    NULL

\* What ListDispatch assumes of them.  With NULL among the elements
\* linkedlist_get would set LIST_INVALID_STATE.
NodeAssumption == IsFiniteSet(Node) /\ NULL \notin Node
ElemAssumption == NULL \notin Elem

VARIABLES
    heap,      \* the nodes that are allocated
    first,
    last,
    err,       \* the error field, shared by all callers
    ret,       \* what the last call returned
    end,       \* why no call follows
    between    \* history: an element was inserted between two others

vars == <<heap, first, last, err, ret, end, between>>

Live    == DOMAIN heap
Pointer == Node \cup {NULL}
Field   == [data : Elem, next : Pointer, prev : Pointer]
Ends    == {"none", "freed", "endless", "fault", "locked"}

TypeOK ==
    /\ Live \subseteq Node
    /\ heap \in [Live -> Field]
    /\ first \in Pointer /\ last \in Pointer
    /\ err \in {"LIST_OKAY", "LIST_BOUNDS", "LIST_MEMORY", "LIST_INVALID_STATE"}
    /\ ret \in Elem \cup {NULL} \cup Nat
    /\ end \in Ends
    /\ between \in BOOLEAN

Init ==
    /\ heap = [n \in {} |-> NULL]
    /\ first = NULL /\ last = NULL
    /\ err = "LIST_OKAY" /\ ret = NULL
    /\ end = "none" /\ between = FALSE

-----------------------------------------------------------------------------
(* Walks *)

Most == Cardinality(Node)

\* The nodes a loop visits from start on, until NULL or a freed node.
Walk(start, link) ==
    LET at[i \in 0..Most] ==
          IF i = 0 THEN start
          ELSE LET p == at[i - 1] IN IF p \in Live THEN heap[p][link] ELSE p
    IN  at

Forward  == Walk(first, "next")
Backward == Walk(last, "prev")

\* A walk that has not ended after as many nodes as there are is in a cycle.
WalkEnds == Forward[Most] = NULL
Cyclic   == Forward[Most] \in Live

\* What linkedlist_size returns.
Count == Cardinality({i \in 0..(Most - 1) : Forward[i] \in Live})

\* Mutant: the count from the back starts at the size.
NodeAtLate(pos) ==
    IF pos < Count \div 2 \/ pos = 0 THEN Forward[pos] ELSE Backward[Count - pos]

\* _llnode_get: the search starts from the nearer end.
NodeAt(pos) ==
    IF pos < Count \div 2 THEN Forward[pos] ELSE Backward[Count - 1 - pos]

Contents == [i \in 1..Count |-> heap[Forward[i - 1]].data]

-----------------------------------------------------------------------------
(* Nodes *)

\* An assignment to a field, of no node if p is NULL.
Put(h, p, field, value) ==
    IF p \in DOMAIN h THEN [h EXCEPT ![p] = [@ EXCEPT ![field] = value]] ELSE h

\* heap with the node n, or as it is when malloc returned NULL for n.
Created(n, e, next, prev) ==
    [m \in Live \cup ({n} \ {NULL}) |->
        IF m = n THEN [data |-> e, next |-> next, prev |-> prev] ELSE heap[m]]

\* Mutant: the neighbours keep their pointers to the node.
FreedOnly(h, n) == [m \in DOMAIN h \ {n} |-> h[m]]

\* h after _llnode_free(n, true): the neighbours forget n.
Freed(h, n) ==
    LET h1 == Put(h, h[n].next, "prev", NULL)
        h2 == Put(h1, h1[n].prev, "next", NULL)
    IN  [m \in DOMAIN h \ {n} |-> h2[m]]

\* The nodes that _llnode_free(n, true) writes to besides n.
Neighbours(h, n) == {h[n].next, h[n].prev} \ {NULL}

\* The loop of linkedlist_free: what it leaves, and where it ends, at NULL or
\* at a node that has been freed or has a neighbour that has.
FreeLoop ==
    LET at[i \in 0..Most] ==
          IF i = 0 THEN [nodes |-> heap, cur |-> first]
          ELSE LET s == at[i - 1]
               IN  IF /\ s.cur \in DOMAIN s.nodes
                      /\ Neighbours(s.nodes, s.cur) \subseteq DOMAIN s.nodes
                   THEN [nodes |-> Freed(s.nodes, s.cur), cur |-> s.nodes[s.cur].next]
                   ELSE s
    IN  at[Most]

-----------------------------------------------------------------------------
(* Calls *)

Return(code, value) == err' = code /\ ret' = value

Fail(code) ==
    /\ Return(code, NULL)
    /\ UNCHANGED <<heap, first, last, end, between>>

Running == end = "none"
Empty   == first = NULL /\ last = NULL

AddFront(e) ==
    /\ Running
    /\ Empty \/ first \in Live
    /\ \E n \in Node \ Live :
         /\ heap' = Put(Created(n, e, first, NULL), first, "prev", n)
         /\ first' = n
         /\ last' = IF Empty THEN n ELSE last
    /\ Return("LIST_OKAY", NULL)
    /\ UNCHANGED <<end, between>>

AddBack(e) ==
    /\ Running
    /\ Empty \/ last \in Live
    /\ \E n \in Node \ Live :
         /\ heap' = Put(Created(n, e, NULL, last), last, "next", n)
         /\ first' = IF Empty THEN n ELSE first
         /\ last' = n
    /\ Return("LIST_OKAY", NULL)
    /\ UNCHANGED <<end, between>>

AddMemory == Running /\ Fail("LIST_MEMORY")

\* The calls with a position begin with linkedlist_size.
Positioned(pos) == Running /\ WalkEnds /\ pos < Count

\* _llnode_create takes next before prev and is given left before right; both
\* neighbours' next become the new node, and neither prev.  The result of
\* malloc is not looked at.
InsertBetween(pos, e) ==
    LET right == NodeAt(pos)
        left  == heap[right].prev
    IN  /\ Positioned(pos) /\ pos # 0
        /\ right \in Live /\ left \in Live
        /\ \E n \in (Node \ Live) \cup {NULL} :
             heap' = Put(Put(Created(n, e, left, right), left, "next", n),
                         right, "next", n)
        /\ between' = TRUE
        /\ Return("LIST_OKAY", NULL)
        /\ UNCHANGED <<first, last, end>>

\* The error return that keeps the mutex: other threads wait for it for ever.
InsertLocked(pos) ==
    /\ Positioned(pos) /\ pos # 0
    /\ NodeAt(pos) \in Live /\ heap[NodeAt(pos)].prev = NULL
    /\ Return("LIST_INVALID_STATE", NULL)
    /\ end' = "locked"
    /\ UNCHANGED <<heap, first, last, between>>

AddPos(pos, e) ==
    \/ pos = 0 /\ WalkEnds /\ AddFront(e)
    \/ pos # 0 /\ WalkEnds /\ pos = Count /\ AddBack(e)
    \/ InsertBetween(pos, e)

AddPosBounds(pos) == Running /\ WalkEnds /\ Count < pos /\ Fail("LIST_BOUNDS")

Get(pos) ==
    /\ Positioned(pos) /\ NodeAt(pos) \in Live
    /\ Return("LIST_OKAY", heap[NodeAt(pos)].data)
    /\ UNCHANGED <<heap, first, last, end, between>>

\* linkedlist_get and linkedlist_remove_pos
PosBounds(pos) == Running /\ WalkEnds /\ Count <= pos /\ Fail("LIST_BOUNDS")

\* Mutant: the node is returned in place of its data.
RemoveFrontNode ==
    /\ Running /\ first # NULL /\ last # NULL
    /\ first \in Live /\ Neighbours(heap, first) \subseteq Live
    /\ heap' = Freed(heap, first)
    /\ first' = heap[first].next
    /\ last' = IF heap[first].next = NULL THEN NULL ELSE last
    /\ Return("LIST_OKAY", first)
    /\ UNCHANGED <<end, between>>

RemoveFront ==
    /\ Running /\ first # NULL /\ last # NULL
    /\ first \in Live /\ Neighbours(heap, first) \subseteq Live
    /\ heap' = Freed(heap, first)
    /\ first' = heap[first].next
    /\ last' = IF heap[first].next = NULL THEN NULL ELSE last
    /\ Return("LIST_OKAY", heap[first].data)
    /\ UNCHANGED <<end, between>>

\* Mutant: first is left pointing to the last node that was removed.
RemoveBackKeepsFirst ==
    /\ Running /\ first # NULL /\ last # NULL
    /\ last \in Live /\ Neighbours(heap, last) \subseteq Live
    /\ heap' = Freed(heap, last)
    /\ last' = heap[last].prev
    /\ Return("LIST_OKAY", heap[last].data)
    /\ UNCHANGED <<first, end, between>>

RemoveBack ==
    /\ Running /\ first # NULL /\ last # NULL
    /\ last \in Live /\ Neighbours(heap, last) \subseteq Live
    /\ heap' = Freed(heap, last)
    /\ last' = heap[last].prev
    /\ first' = IF heap[last].prev = NULL THEN NULL ELSE first
    /\ Return("LIST_OKAY", heap[last].data)
    /\ UNCHANGED <<end, between>>

RemoveEmpty == Running /\ (first = NULL \/ last = NULL) /\ Fail("LIST_BOUNDS")

RemoveBetween(pos) ==
    LET remove == NodeAt(pos)
        left   == heap[remove].prev
        right  == heap[remove].next
    IN  /\ Positioned(pos) /\ pos # 0
        /\ remove \in Live /\ {left, right} \subseteq Live \ {remove}
        /\ heap' = Put(Put(Freed(heap, remove), left, "next", right), right, "prev", left)
        /\ Return("LIST_OKAY", heap[remove].data)
        /\ UNCHANGED <<first, last, end, between>>

\* A neighbour is missing: so it is for the last position, which the test for
\* pos = size never selects.
RemoveRefused(pos) ==
    /\ Positioned(pos) /\ pos # 0
    /\ NodeAt(pos) \in Live
    /\ NULL \in {heap[NodeAt(pos)].prev, heap[NodeAt(pos)].next}
    /\ Fail("LIST_INVALID_STATE")

RemovePos(pos) ==
    \/ Positioned(pos) /\ pos = 0 /\ RemoveFront
    \/ RemoveBetween(pos)
    \/ RemoveRefused(pos)

Size ==
    /\ Running /\ WalkEnds
    /\ Return("LIST_OKAY", Count)
    /\ UNCHANGED <<heap, first, last, end, between>>

\* No node is looked for unless first and last are both there.
Nodeless == first = NULL \/ last = NULL

Free ==
    /\ Running
    /\ Nodeless \/ FreeLoop.cur = NULL
    /\ heap' = IF Nodeless THEN heap ELSE FreeLoop.nodes
    /\ end' = "freed"
    /\ UNCHANGED <<first, last, err, ret, between>>

\* A call that counts the nodes stays in the loop, with the mutex.
Endless ==
    /\ Running /\ Cyclic
    /\ end' = "endless"
    /\ UNCHANGED <<heap, first, last, err, ret, between>>

\* The pointers that some call follows from here: to the ends, along a walk, to
\* the node at a position, and from it or from an end to its neighbours.
Followed ==
    LET walked == {Forward[i] : i \in 0..Most} \ {NULL}
        ends   == IF Empty THEN {} ELSE {first, last}
        placed == IF WalkEnds THEN {NodeAt(pos) : pos \in 0..(Count - 1)} ELSE {}
        named  == ends \cup placed
    IN  walked \cup named \cup UNION {Neighbours(heap, n) : n \in named \cap Live}

\* A call reads or writes a freed node or NULL.
Fault ==
    /\ Running
    /\ \/ ~(Followed \subseteq Live)
       \/ ~Nodeless /\ FreeLoop.cur # NULL
    /\ end' = "fault"
    /\ UNCHANGED <<heap, first, last, err, ret, between>>

\* Callers pass positions up to one past any element.
Pos == 0..(Most + 1)

-----------------------------------------------------------------------------
(* Properties *)

\* Until an element is inserted between two others, the two directions are
\* mirror images, the ends are the ends of both, and no node is allocated
\* that a walk does not reach.
WellLinked ==
    ~between /\ end = "none" =>
        /\ WalkEnds /\ Count = Cardinality(Live)
        /\ \A i \in 0..(Count - 1) : Forward[i] = Backward[Count - 1 - i]
        /\ Backward[Count] = NULL

List == INSTANCE AbstractList WITH list <- Contents

\* Until then every call does to the elements what the header says, except
\* that the last of several elements cannot be removed by its position, and
\* stays.
StepsLikeList ==
    [][~between' /\ end' = "none" =>
         \/ List!Next
         \/ /\ Len(Contents) > 1 /\ RemoveRefused(Len(Contents) - 1)
            /\ UNCHANGED Contents]_vars

\* Until then no call follows a pointer to nowhere, fails to end or leaves the
\* mutex locked, and linkedlist_free gives every node back.
EndsWell ==
    ~between => /\ end \in {"none", "freed"}
                /\ end = "freed" => Live = {}

\* collections/linkedlist.h:70: an item is added in any position.
InsertsAnywhere ==
    [][\A pos \in Pos, e \in Elem : AddPos(pos, e) => List!AddPos(pos, e)]_vars

=============================================================================
