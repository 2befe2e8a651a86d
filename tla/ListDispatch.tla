---------------------------- MODULE ListDispatch ----------------------------
(***************************************************************************)
(* collections/list.c, collections/stack.c and collections/queue.c on top  *)
(* of the two lists: one handle, made as an array list, a linked list, a   *)
(* stack or a queue.  The calls of list.h select those of the              *)
(* implementation, those of stack.h and queue.h rename ones of the linked  *)
(* list.  A list may also be used through the header of its                *)
(* implementation; a stack is used through stack.h only, a queue through   *)
(* queue.h only.  The condition variable of a queue is in module Queue.    *)
(*                                                                         *)
(* A handle whose implementation is neither does not come from list_init,  *)
(* and what the calls do with one (LIST_INVALID_IMPL) is left out.         *)
(***************************************************************************)
EXTENDS ArrayList, FiniteSets

CONSTANT Node       \* the addresses of linked nodes; bound: how many there are

VARIABLES
    impl,           \* what the handle is, "freed" when an array list is freed
    heap, first, last, lerr, lret, end, between     \* see LinkedList

linked == <<heap, first, last, lerr, lret, end, between>>

Linked == INSTANCE LinkedList WITH err <- lerr, ret <- lret

ASSUME LinkedAssumption == Linked!NodeAssumption /\ Linked!ElemAssumption

\* A step of the array list, or of the linked list that is a list, a stack or
\* a queue.
OfArray  == impl = "LIST_ARRAY" /\ UNCHANGED <<impl, linked>>
OfLinked == impl = "LIST_LINKED" /\ UNCHANGED <<impl, vars>>
OfStack  == impl = "STACK" /\ UNCHANGED <<impl, vars>>
OfQueue  == impl = "QUEUE" /\ UNCHANGED <<impl, vars>>

\* What a handle over linked nodes may be.
NodeLists == {"LIST_LINKED", "STACK", "QUEUE"}

\* The same for a call with a position, up to one past any element.
OfArrayAt(pos)  == pos \in Pos /\ OfArray
OfLinkedAt(pos) == pos \in Linked!Pos /\ OfLinked

-----------------------------------------------------------------------------
(* collections/list.c *)

\* The handle has the fields of its own list only.
list_init ==
    /\ Linked!Init
    /\ \/ impl = "LIST_ARRAY" /\ Init
       \/ /\ impl \in NodeLists
          /\ array = <<>> /\ len = 0 /\ allocated = 0
          /\ err = "LIST_OKAY" /\ ret = NULL

list_add(e) ==
    \/ OfArray  /\ (Add(e) \/ AddPosMemory)
    \/ OfLinked /\ (Linked!AddBack(e) \/ Linked!AddMemory)

list_add_pos(pos, e) ==
    \/ /\ OfArrayAt(pos)
       /\ \/ AddPos(pos, e)
          \/ pos <= len /\ AddPosMemory
          \/ AddPosBounds(pos)
    \/ /\ OfLinkedAt(pos)
       /\ \/ Linked!AddPos(pos, e)
          \/ pos \in {0, Linked!Count} /\ Linked!AddMemory
          \/ Linked!InsertLocked(pos)
          \/ Linked!AddPosBounds(pos)

list_get(pos) ==
    \/ OfArrayAt(pos)  /\ (Get(pos) \/ GetBounds(pos))
    \/ OfLinkedAt(pos) /\ (Linked!Get(pos) \/ Linked!PosBounds(pos))

list_remove(pos) ==
    \/ OfArrayAt(pos)  /\ (Remove(pos) \/ RemoveMemory(pos) \/ RemoveBounds(pos))
    \/ OfLinkedAt(pos) /\ (Linked!RemovePos(pos) \/ Linked!PosBounds(pos))

list_size ==
    \/ OfArray  /\ Size
    \/ OfLinked /\ Linked!Size

\* arraylist_free; what linkedlist_free leaves is in the linked list's state.
arraylist_free ==
    /\ impl = "LIST_ARRAY" /\ impl' = "freed"
    /\ UNCHANGED <<vars, linked>>

list_free == arraylist_free \/ (OfLinked /\ Linked!Free)

-----------------------------------------------------------------------------
(* collections/stack.c *)

stack_push(e) == OfStack /\ (Linked!AddFront(e) \/ Linked!AddMemory)

stack_pop == OfStack /\ (Linked!RemoveFront \/ Linked!RemoveEmpty)

stack_peek_pos(pos) == pos \in Linked!Pos /\ OfStack /\ (Linked!Get(pos) \/ Linked!PosBounds(pos))

stack_peek == stack_peek_pos(0)

stack_size == OfStack /\ Linked!Size

stack_free == OfStack /\ Linked!Free

-----------------------------------------------------------------------------
(* collections/queue.c *)

\* Mutant: elements leave at the end where they enter.
queue_dequeue_front == OfQueue /\ (Linked!RemoveFront \/ Linked!RemoveEmpty)

queue_enqueue(e) == OfQueue /\ (Linked!AddFront(e) \/ Linked!AddMemory)

queue_dequeue == OfQueue /\ (Linked!RemoveBack \/ Linked!RemoveEmpty)

queue_peek_pos(pos) == pos \in Linked!Pos /\ OfQueue /\ (Linked!Get(pos) \/ Linked!PosBounds(pos))

queue_peek == queue_peek_pos(0)

queue_size == OfQueue /\ Linked!Size

queue_free == OfQueue /\ Linked!Free

-----------------------------------------------------------------------------
(* The calls of linkedlist.h that list.h does not have *)

linkedlist_add_front(e) == OfLinked /\ (Linked!AddFront(e) \/ Linked!AddMemory)

linkedlist_remove_front == OfLinked /\ (Linked!RemoveFront \/ Linked!RemoveEmpty)

linkedlist_remove_back == OfLinked /\ (Linked!RemoveBack \/ Linked!RemoveEmpty)

\* Some call does not end, or goes through a bad pointer.
Stuck ==
    /\ impl \in NodeLists /\ UNCHANGED <<impl, vars>>
    /\ Linked!Endless \/ Linked!Fault

Positions == Pos \cup Linked!Pos

DispatchNext ==
    \/ \E e \in Elem :
         \/ list_add(e) \/ stack_push(e) \/ queue_enqueue(e)
         \/ \E pos \in Positions : list_add_pos(pos, e)
    \/ \E pos \in Positions : list_get(pos) \/ list_remove(pos)
    \/ \E pos \in Positions : stack_peek_pos(pos) \/ queue_peek_pos(pos)
    \/ list_size \/ list_free
    \/ stack_pop \/ stack_peek \/ stack_size \/ stack_free
    \/ queue_dequeue \/ queue_peek \/ queue_size \/ queue_free
    \/ \E e \in Elem : linkedlist_add_front(e)
    \/ linkedlist_remove_front \/ linkedlist_remove_back
    \/ Stuck

DispatchSpec == list_init /\ [][DispatchNext]_<<impl, vars, linked>>

-----------------------------------------------------------------------------
(* Properties *)

\* Every variable of the handle and of both lists has a value of its kind, and
\* only the list that the handle is has ever been used.
HandleOK ==
    /\ impl \in {"LIST_ARRAY", "freed"} \cup NodeLists
    /\ TypeOK /\ Linked!TypeOK
    /\ impl \in NodeLists => len = 0
    /\ impl \in {"LIST_ARRAY", "freed"} => heap = [n \in {} |-> NULL] /\ end = "none"

\* Of LinkedList: the nodes are linked in both directions, calls end well, and
\* do what the header says, until an element is inserted between two others.
WellLinked     == Linked!WellLinked
EndsWell       == Linked!EndsWell
StepsLikeList  == Linked!StepsLikeList
InsertsAnywhere == Linked!InsertsAnywhere

\* An element enters in front, leaves from a position of a list that is not
\* empty, or is shown.
Enters(e)   == Linked!List!AddPos(0, e) \/ Linked!List!OutOfMemory
Leaves(pos) == \/ Linked!Contents # <<>> /\ Linked!List!Remove(pos)
               \/ Linked!Contents = <<>> /\ Linked!List!OutOfBounds(0)
Shows(pos)  == Linked!List!Get(pos) \/ Linked!List!OutOfBounds(pos)

\* A stack and a queue do to their linked list what list.h promises of the
\* calls they are made of: an element enters in front, and leaves there or at
\* the other end unless there is none.  No sequence of their calls breaks the
\* list, ends in a loop or goes through a bad pointer.  Module Queue takes the
\* calls of a queue for these steps.
KeepsOrder ==
    [][(impl \in {"STACK", "QUEUE"}) =>
         /\ end' \in {"none", "freed"} /\ ~between'
         /\ \A e \in Elem : stack_push(e) \/ queue_enqueue(e) => Enters(e)
         /\ stack_pop => Leaves(0)
         /\ queue_dequeue => Leaves(Len(Linked!Contents) - 1)
         /\ \A pos \in Linked!Pos : stack_peek_pos(pos) \/ queue_peek_pos(pos) => Shows(pos)
         /\ stack_size \/ queue_size => Linked!List!Size
      ]_linked

=============================================================================
