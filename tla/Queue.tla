------------------------------- MODULE Queue -------------------------------
(***************************************************************************)
(* collections/queue.c: a linked list of which elements enter the front    *)
(* and leave the back, and a condition variable for threads that wait for  *)
(* one.  The list is an AbstractList here: KeepsOrder of ListDispatch says *)
(* that the calls of a queue are these steps of it on the linked list.     *)
(*                                                                         *)
(* What the application does between calls is not in the code: producers   *)
(* add elements, consumers take one whenever queue_block returns and may   *)
(* also take one without waiting.                                          *)
(***************************************************************************)
EXTENDS Integers, Sequences, SequencesExt, FiniteSets

CONSTANTS
    Producer,
    Consumer,
    PerProducer,    \* bound: elements that a producer adds
    NULL

ASSUME ThreadAssumption ==
    /\ Producer \cap Consumer = {}
    /\ IsFiniteSet(Producer) /\ IsFiniteSet(Consumer)
ASSUME PerProducerAssumption == PerProducer \in Nat

\* queue_block takes an element that is NULL for an empty queue, so no element is.
Elem == [by : Producer, nr : 1..PerProducer]
ASSUME ElemAssumption == NULL \notin Elem

VARIABLES
    queue,      \* the elements of the list, the newest first
    err,        \* the error field
    ret,        \* what the last call of the list returned
    pc,
    sent,       \* how many elements each producer has passed to queue_enqueue
    added,      \* history: the elements in the order they entered
    taken       \* history: the elements in the order they left

vars == <<queue, err, ret, pc, sent, added, taken>>

List == INSTANCE AbstractList WITH list <- queue, Pos <- {0}

TypeOK ==
    /\ queue \in Seq(Elem)
    /\ err \in {"LIST_OKAY", "LIST_BOUNDS", "LIST_MEMORY"}
    /\ ret \in Elem \cup {NULL}
    /\ pc \in [Producer \cup Consumer -> {"ready", "signal", "waiting", "woken", "take"}]
    /\ sent \in [Producer -> 0..PerProducer]
    /\ added \in Seq(Elem) /\ taken \in Seq(Elem)

Init ==
    /\ List!Init
    /\ pc = [t \in Producer \cup Consumer |-> "ready"]
    /\ sent = [p \in Producer |-> 0]
    /\ added = <<>> /\ taken = <<>>

At(t, place) == pc[t] = place
Goto(t, place) == pc' = [pc EXCEPT ![t] = place]

Signalling == {p \in Producer : At(p, "signal")}
Waiting    == {c \in Consumer : At(c, "waiting")}
Active     == {c \in Consumer : At(c, "woken") \/ At(c, "take")}

-----------------------------------------------------------------------------
(* queue_enqueue *)

\* Mutant: the element enters where elements leave.
InsertBack(e) == List!AddPos(Len(queue), e)

\* linkedlist_add_front
Insert(e) == List!AddPos(0, e)

\* Whether or not there is memory for the element, the signal follows.
Enqueue(p) ==
    LET e == [by |-> p, nr |-> sent[p] + 1]
    IN  /\ At(p, "ready") /\ sent[p] < PerProducer
        /\ sent' = [sent EXCEPT ![p] = @ + 1]
        /\ \/ Insert(e) /\ added' = Append(added, e)
           \/ List!OutOfMemory /\ UNCHANGED added
        /\ Goto(p, "signal")
        /\ UNCHANGED taken

\* Mutant: no signal is sent while the queue has more than one element.
SignalFirst(p) ==
    /\ At(p, "signal")
    /\ IF Waiting # {} /\ Len(queue) <= 1
       THEN \E c \in Waiting : pc' = [pc EXCEPT ![p] = "ready", ![c] = "woken"]
       ELSE Goto(p, "ready")
    /\ UNCHANGED <<queue, err, ret, sent, added, taken>>

\* pthread_cond_signal, without the mutex: one thread is woken if one waits.
Signal(p) ==
    /\ At(p, "signal")
    /\ \/ \E c \in Waiting : pc' = [pc EXCEPT ![p] = "ready", ![c] = "woken"]
       \/ Waiting = {} /\ Goto(p, "ready")
    /\ UNCHANGED <<queue, err, ret, sent, added, taken>>

-----------------------------------------------------------------------------
(* queue_block and queue_dequeue *)

\* The test of the loop in queue_block.  pthread_cond_wait gives the mutex back
\* in the step that makes the thread a waiting one, so nothing comes between.
Look(c) ==
    /\ At(c, "ready") \/ At(c, "woken")
    /\ \/ List!Get(0) /\ Goto(c, "take")
       \/ List!OutOfBounds(0) /\ Goto(c, "waiting")

Block(c) == Look(c) /\ UNCHANGED <<sent, added, taken>>

\* pthread_cond_wait may return without a signal.
WakeSpuriously(c) ==
    /\ At(c, "waiting") /\ Goto(c, "woken")
    /\ UNCHANGED <<queue, err, ret, sent, added, taken>>

\* Mutant: the result is taken for an element without a look.
DequeueUnchecked(c) ==
    /\ At(c, "take") \/ At(c, "ready")
    /\ \/ queue # <<>> /\ List!Remove(Len(queue) - 1)
       \/ queue = <<>> /\ List!OutOfBounds(0)
    /\ taken' = Append(taken, ret')
    /\ Goto(c, "ready")
    /\ UNCHANGED <<sent, added>>

\* queue_dequeue after queue_block, or without it.  Another thread may have
\* been faster: then it returns NULL.
Dequeue(c) ==
    /\ At(c, "take") \/ At(c, "ready")
    /\ \/ /\ queue # <<>> /\ List!Remove(Len(queue) - 1)
          /\ taken' = Append(taken, ret')
       \/ queue = <<>> /\ List!OutOfBounds(0) /\ UNCHANGED taken
    /\ Goto(c, "ready")
    /\ UNCHANGED <<sent, added>>

Next ==
    \/ \E p \in Producer : Enqueue(p) \/ Signal(p)
    \/ \E c \in Consumer : Block(c) \/ WakeSpuriously(c) \/ Dequeue(c)

\* A thread inside a call goes on, a consumer takes an element after
\* queue_block returns, and calls queue_block again.  Nobody has to produce,
\* to poll, or to wake without a signal.
Fairness ==
    /\ \A p \in Producer : WF_vars(Signal(p))
    /\ \A c \in Consumer : WF_vars(Block(c)) /\ WF_vars(At(c, "take") /\ Dequeue(c))

Spec == Init /\ [][Next]_vars /\ Fairness

-----------------------------------------------------------------------------
(* Properties *)

\* The elements leave in the order they entered, none lost and none twice,
\* whichever threads add and take them.
FirstInFirstOut == added = taken \o Reverse(queue)

\* Signals are sent after the mutex is released, may find nobody, or wake a
\* thread that finds nothing: still, while a thread waits, each element of the
\* queue has a thread that is about to signal, to look or to take.
ElementsHaveThreads ==
    Waiting # {} => Len(queue) <= Cardinality(Signalling) + Cardinality(Active)

\* No element stays while consumers wait.
ElementsAreTaken ==
    \A e \in Elem : e \in ToSet(added) ~> e \in ToSet(taken)

=============================================================================
