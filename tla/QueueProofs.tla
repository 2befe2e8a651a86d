----------------------------- MODULE QueueProofs -----------------------------
(***************************************************************************)
(* Queue, for all finite sets of producers and consumers and any number of *)
(* elements: the types, the order, and that no element is without a thread *)
(* while consumers wait.                                                   *)
(***************************************************************************)
EXTENDS Queue, SequenceTheorems, FiniteSetTheorems, TLAPS

USE ThreadAssumption, PerProducerAssumption

Thread == Producer \cup Consumer

-----------------------------------------------------------------------------
(* Sequences *)

\* An element added at position 0 comes before all others.
LEMMA AddedFirst ==
    ASSUME NEW S, NEW s \in Seq(S), NEW e \in S
    PROVE  List!Before(s, 0) \o <<e>> \o List!After(s, 0) = <<e>> \o s
<1>1. List!Before(s, 0) = <<>>
  BY SubSeqEmpty DEF List!Before
<1>2. List!After(s, 0) = s
  BY SubSeqFull, LenProperties DEF List!After
<1>3. <<>> \o <<e>> = <<e>>
  BY ConcatEmptySeq, <<e>> \in Seq(S)
<1> QED BY <1>1, <1>2, <1>3

\* Removing the last position leaves the sequence without its last element.
LEMMA RemovedLast ==
    ASSUME NEW S, NEW s \in Seq(S), s # <<>>
    PROVE  List!Before(s, Len(s) - 1) \o List!After(s, Len(s)) = SubSeq(s, 1, Len(s) - 1)
<1>1. Len(s) \in Nat \ {0} /\ \A i \in 1..Len(s) : s[i] \in S
  BY EmptySeq, LenProperties
<1>2. List!After(s, Len(s)) = <<>>
  BY <1>1, SubSeqEmpty DEF List!After
<1>3. SubSeq(s, 1, Len(s) - 1) \in Seq(S)
  BY <1>1, SubSeqProperties
<1> QED BY <1>2, <1>3, ConcatEmptySeq DEF List!Before

\* A reverse has the elements of the sequence, in as many places.
LEMMA ReverseType ==
    ASSUME NEW S, NEW s \in Seq(S)
    PROVE  Reverse(s) \in Seq(S) /\ Len(Reverse(s)) = Len(s)
<1>1. Len(s) \in Nat /\ \A i \in 1..Len(s) : s[i] \in S
  BY LenProperties
<1> QED BY <1>1 DEF Reverse

\* What is added at the front of a sequence is added at the end of its reverse.
LEMMA ReverseAdd ==
    ASSUME NEW S, NEW s \in Seq(S), NEW e \in S
    PROVE  Reverse(<<e>> \o s) = Append(Reverse(s), e)
<1> DEFINE t == <<e>> \o s
<1>1. Len(s) \in Nat /\ \A i \in 1..Len(s) : s[i] \in S
  BY LenProperties
<1>2. t \in Seq(S) /\ Len(t) = Len(s) + 1 /\ \A i \in 1..(Len(s) + 1) : t[i] = IF i = 1 THEN e ELSE s[i - 1]
  BY <1>1
<1>3. Reverse(s) \in Seq(S) /\ Len(Reverse(s)) = Len(s)
  BY <1>1 DEF Reverse
<1>4. Reverse(t) \in Seq(S) /\ Len(Reverse(t)) = Len(s) + 1
  BY <1>1, <1>2 DEF Reverse
<1>5. Append(Reverse(s), e) \in Seq(S) /\ Len(Append(Reverse(s), e)) = Len(s) + 1
  BY <1>1, <1>3
<1> HIDE DEF t
<1>6. ASSUME NEW i \in 1..(Len(s) + 1) PROVE Reverse(t)[i] = Append(Reverse(s), e)[i]
  <2>1. Reverse(t)[i] = t[Len(s) + 1 - i + 1]
    BY <1>1, <1>2 DEF Reverse
  <2>2. CASE i = Len(s) + 1
    BY <2>1, <2>2, <1>1, <1>2, <1>3
  <2>3. CASE i # Len(s) + 1
    <3>1. i \in 1..Len(s) /\ Len(s) + 1 - i + 1 \in 2..(Len(s) + 1)
      BY <2>3, <1>1
    <3>2. t[Len(s) + 1 - i + 1] = s[Len(s) - i + 1]
      BY <3>1, <1>1, <1>2
    <3>3. Append(Reverse(s), e)[i] = Reverse(s)[i]
      BY <3>1, <1>1, <1>3
    <3> QED BY <2>1, <3>1, <3>2, <3>3 DEF Reverse
  <2> QED BY <2>2, <2>3
<1>7. Reverse(t) = Append(Reverse(s), e)
  BY <1>1, <1>4, <1>5, <1>6, SeqEqual
<1> QED BY <1>7 DEF t

\* What is removed from the end of a sequence was first in its reverse.
LEMMA ReverseRemove ==
    ASSUME NEW S, NEW s \in Seq(S), NEW n \in Nat, Len(s) = n + 1
    PROVE  Reverse(s) = <<s[n + 1]>> \o Reverse(SubSeq(s, 1, n))
<1> DEFINE f == SubSeq(s, 1, n)
<1>1. \A i \in 1..(n + 1) : s[i] \in S
  BY LenProperties
<1>2. f \in Seq(S) /\ Len(f) = n /\ \A i \in 1..n : f[i] = s[i]
  <2>1. \A i \in 1..n : s[i] \in S
    BY <1>1
  <2> QED BY <2>1, SubSeqProperties
<1> HIDE DEF f
<1>3. Reverse(f) \in Seq(S) /\ Len(Reverse(f)) = n
  BY <1>2, ReverseType
<1>4. Reverse(s) \in Seq(S) /\ Len(Reverse(s)) = n + 1
  BY ReverseType
<1>5. s[n + 1] \in S
  BY <1>1
<1>6. ASSUME NEW i \in 1..(n + 1) PROVE Reverse(s)[i] = (<<s[n + 1]>> \o Reverse(f))[i]
  <2>1. CASE i = 1
    BY <2>1, <1>3, <1>5 DEF Reverse
  <2>2. CASE i # 1
    <3>1. i - 1 \in 1..n /\ n + 1 - i + 1 \in 1..n
      BY <2>2
    <3>2. (<<s[n + 1]>> \o Reverse(f))[i] = Reverse(f)[i - 1]
      BY <2>2, <3>1, <1>3, <1>5
    <3>3. Reverse(f)[i - 1] = f[n - (i - 1) + 1]
      BY <3>1, <1>2 DEF Reverse
    <3> QED BY <3>1, <3>2, <3>3, <1>2 DEF Reverse
  <2> QED BY <2>1, <2>2
<1>7. <<s[n + 1]>> \o Reverse(f) \in Seq(S) /\ Len(<<s[n + 1]>> \o Reverse(f)) = n + 1
  BY <1>3, <1>5
<1>8. Reverse(s) = <<s[n + 1]>> \o Reverse(f)
  BY <1>4, <1>6, <1>7, SeqEqual
<1> QED BY <1>8 DEF f

-----------------------------------------------------------------------------
(* Types and order *)

IInv == TypeOK /\ FirstInFirstOut

\* At first nothing has entered.
LEMMA InitIInv == Init => IInv
BY DEF Init, List!Init, IInv, TypeOK, FirstInFirstOut, Reverse, Thread

\* An element that enters is last in line.
LEMMA EnqueueIInv ==
    ASSUME IInv, NEW p \in Producer, Enqueue(p)
    PROVE  IInv'
<1> DEFINE e == [by |-> p, nr |-> sent[p] + 1]
<1>1. e \in Elem /\ sent' \in [Producer -> 0..PerProducer]
  BY DEF Enqueue, IInv, TypeOK, Elem
<1>2. pc' \in [Thread -> {"ready", "signal", "waiting", "woken", "take"}]
  BY DEF Enqueue, Goto, IInv, TypeOK, Thread
<1>3. taken' = taken
  BY DEF Enqueue
<1>4. CASE Insert(e) /\ added' = Append(added, e)
  <2>1. queue' = <<e>> \o queue
    BY <1>1, <1>4, AddedFirst DEF Insert, List!AddPos, IInv, TypeOK
  <2>2. queue' \in Seq(Elem) /\ added' \in Seq(Elem)
    BY <1>1, <1>4, <2>1 DEF IInv, TypeOK
  <2>3. Reverse(queue') = Append(Reverse(queue), e)
    BY <1>1, <2>1, ReverseAdd DEF IInv, TypeOK
  <2>4. Reverse(queue) \in Seq(Elem)
    BY DEF IInv, TypeOK, Reverse
  <2>5. added' = taken' \o Reverse(queue')
    <3>1. taken \o Reverse(queue) \in Seq(Elem) /\ <<e>> \in Seq(Elem) /\ taken \in Seq(Elem)
      BY <1>1, <2>4 DEF IInv, TypeOK
    <3>2. added' = (taken \o Reverse(queue)) \o <<e>>
      BY <1>1, <1>4, <3>1 DEF IInv, FirstInFirstOut
    <3>3. Append(Reverse(queue), e) = Reverse(queue) \o <<e>>
      BY <1>1, <2>4
    <3>4. (taken \o Reverse(queue)) \o <<e>> = taken \o (Reverse(queue) \o <<e>>)
      BY <2>4, <3>1, ConcatAssociative
    <3> QED BY <1>3, <2>3, <3>2, <3>3, <3>4
  <2> QED BY <1>1, <1>2, <1>3, <1>4, <2>2, <2>5 DEF Insert, List!AddPos, IInv, TypeOK, FirstInFirstOut, Thread
<1>5. CASE List!OutOfMemory /\ UNCHANGED added
  BY <1>1, <1>2, <1>3, <1>5 DEF List!OutOfMemory, IInv, TypeOK, FirstInFirstOut, Thread
<1> QED BY <1>4, <1>5 DEF Enqueue

\* The element that leaves is the first in line.
LEMMA DequeueIInv ==
    ASSUME IInv, NEW c \in Consumer, Dequeue(c)
    PROVE  IInv'
<1>1. pc' \in [Thread -> {"ready", "signal", "waiting", "woken", "take"}]
  BY DEF Dequeue, Goto, IInv, TypeOK, Thread
<1>2. sent' = sent /\ added' = added
  BY DEF Dequeue
<1>3. CASE queue # <<>> /\ List!Remove(Len(queue) - 1) /\ taken' = Append(taken, ret')
  <2>1. Len(queue) \in Nat \ {0} /\ \A i \in 1..Len(queue) : queue[i] \in Elem
    BY <1>3, EmptySeq, LenProperties DEF IInv, TypeOK
  <2>2. ret' = queue[Len(queue)] /\ ret' \in Elem
    BY <1>3, <2>1 DEF List!Remove
  <2>3. queue' = SubSeq(queue, 1, Len(queue) - 1)
    <3>1. queue' = List!Before(queue, Len(queue) - 1) \o List!After(queue, Len(queue))
      BY <1>3, <2>1 DEF List!Remove
    <3> QED BY <1>3, <3>1, RemovedLast DEF IInv, TypeOK
  <2>4. queue' \in Seq(Elem)
    BY <2>1, <2>3, SubSeqProperties
  <2>5. Reverse(queue) = <<ret'>> \o Reverse(queue')
    <3>1. PICK n \in Nat : Len(queue) = n + 1
      BY <2>1
    <3>2. queue' = SubSeq(queue, 1, n) /\ ret' = queue[n + 1]
      BY <2>2, <2>3, <3>1
    <3> QED BY <3>1, <3>2, ReverseRemove DEF IInv, TypeOK
  <2>6. Reverse(queue') \in Seq(Elem)
    BY <2>4 DEF Reverse
  <2>7. taken' \in Seq(Elem) /\ taken' = taken \o <<ret'>>
    BY <1>3, <2>2 DEF IInv, TypeOK
  <2>8. added' = taken' \o Reverse(queue')
    BY <1>2, <2>2, <2>5, <2>6, <2>7, ConcatAssociative, SMTT(40) DEF IInv, TypeOK, FirstInFirstOut
  <2> QED BY <1>1, <1>2, <1>3, <2>2, <2>4, <2>7, <2>8
          DEF List!Remove, IInv, TypeOK, FirstInFirstOut, Thread
<1>4. CASE queue = <<>> /\ List!OutOfBounds(0) /\ UNCHANGED taken
  BY <1>1, <1>2, <1>4 DEF List!OutOfBounds, IInv, TypeOK, FirstInFirstOut, Thread
<1> QED BY <1>3, <1>4 DEF Dequeue

\* Signals, looks and wakings leave the elements alone.
LEMMA OtherIInv ==
    ASSUME IInv, \/ \E p \in Producer : Signal(p)
                 \/ \E c \in Consumer : Block(c) \/ WakeSpuriously(c)
    PROVE  IInv'
<1>1. queue' = queue /\ added' = added /\ taken' = taken /\ sent' = sent
  BY DEF Signal, Block, Look, WakeSpuriously, List!Get, List!OutOfBounds
<1>2. pc' \in [Thread -> {"ready", "signal", "waiting", "woken", "take"}]
  BY DEF Signal, Block, Look, WakeSpuriously, Goto, Waiting, IInv, TypeOK, Thread
<1>3. err' \in {"LIST_OKAY", "LIST_BOUNDS", "LIST_MEMORY"} /\ ret' \in Elem \cup {NULL}
  <2>1. ASSUME NEW c \in Consumer, Block(c), List!Get(0) PROVE ret' \in Elem
    BY <2>1, LenProperties DEF List!Get, IInv, TypeOK
  <2> QED BY <2>1 DEF Signal, Block, Look, WakeSpuriously, List!Get, List!OutOfBounds, IInv, TypeOK
<1> QED BY <1>1, <1>2, <1>3 DEF IInv, TypeOK, FirstInFirstOut, Thread

\* The invariant is inductive.
LEMMA NextIInv == IInv /\ [Next]_vars => IInv'
<1> SUFFICES ASSUME IInv, [Next]_vars PROVE IInv'
  OBVIOUS
<1>1. CASE UNCHANGED vars
  BY <1>1 DEF vars, IInv, TypeOK, FirstInFirstOut, Reverse
<1> QED BY <1>1, EnqueueIInv, DequeueIInv, OtherIInv DEF Next

\* Every reachable state of the queue is well typed.
THEOREM TypeAlways == Spec => []TypeOK
<1>1. IInv => TypeOK
  BY DEF IInv
<1> QED BY <1>1, InitIInv, NextIInv, PTL DEF Spec

\* Elements leave the queue in the order they entered, none lost and none
\* twice, for any number of threads that add and take them.
THEOREM FirstInFirstOutAlways == Spec => []FirstInFirstOut
<1>1. IInv => FirstInFirstOut
  BY DEF IInv
<1> QED BY <1>1, InitIInv, NextIInv, PTL DEF Spec

-----------------------------------------------------------------------------
(* Elements and threads *)

\* The sets of threads are finite, now and after any step.
LEMMA Finite ==
    /\ IsFiniteSet(Signalling) /\ Cardinality(Signalling) \in Nat
    /\ IsFiniteSet(Active) /\ Cardinality(Active) \in Nat
<1>1. Signalling \in SUBSET Producer /\ Active \in SUBSET Consumer
  BY DEF Signalling, Active
<1>2. IsFiniteSet(Signalling) /\ IsFiniteSet(Active)
  BY <1>1, FS_Subset
<1> QED BY <1>2, FS_CardinalityType

\* An enqueue adds at most one element and one thread that will signal.
LEMMA EnqueueCount ==
    ASSUME IInv, IInv', ElementsHaveThreads, NEW p \in Producer, Enqueue(p)
    PROVE  ElementsHaveThreads'
<1>1. p \notin Signalling /\ Signalling' = Signalling \cup {p}
  BY DEF Enqueue, At, Goto, Signalling, IInv, TypeOK
<1>2. Active' = Active /\ Waiting' = Waiting
  BY DEF Enqueue, At, Goto, Active, Waiting, IInv, TypeOK
<1>3. Len(queue) \in Nat /\ Len(queue') \in Nat /\ Len(queue') <= Len(queue) + 1
  <2>1. Len(queue) \in Nat /\ Len(queue') \in Nat
    BY LenProperties DEF IInv, TypeOK
  <2>2. CASE queue' = queue
    BY <2>1, <2>2
  <2>3. ASSUME NEW e \in Elem, Insert(e) PROVE Len(queue') = Len(queue) + 1
    <3>1. queue' = <<e>> \o queue
      BY <2>3, AddedFirst DEF Insert, List!AddPos, IInv, TypeOK
    <3>2. <<e>> \in Seq(Elem) /\ Len(<<e>>) = 1
      BY <2>3
    <3> QED BY <2>1, <3>1, <3>2, ConcatProperties DEF IInv, TypeOK
  <2>4. [by |-> p, nr |-> sent[p] + 1] \in Elem
    BY DEF Enqueue, IInv, TypeOK, Elem
  <2> QED BY <2>1, <2>2, <2>3, <2>4 DEF Enqueue, List!OutOfMemory
<1>4. Cardinality(Signalling') = Cardinality(Signalling) + 1
  BY <1>1, Finite, FS_AddElement
<1> QED BY <1>2, <1>3, <1>4, Finite DEF ElementsHaveThreads

\* A signal turns a thread that signals into one that is awake.
LEMMA SignalCount ==
    ASSUME IInv, ElementsHaveThreads, NEW p \in Producer, Signal(p)
    PROVE  ElementsHaveThreads'
<1>1. CASE Waiting = {}
  <2>1. Waiting' = {}
    BY <1>1 DEF Signal, Goto, At, Waiting, IInv, TypeOK
  <2> QED BY <2>1 DEF ElementsHaveThreads
<1>2. ASSUME NEW c \in Waiting, pc' = [pc EXCEPT ![p] = "ready", ![c] = "woken"]
      PROVE  ElementsHaveThreads'
  <2>1. p \in Signalling /\ Signalling' = Signalling \ {p}
    BY <1>2 DEF Signal, At, Signalling, Waiting, IInv, TypeOK
  <2>2. c \notin Active /\ Active' = Active \cup {c}
    BY <1>2 DEF Signal, At, Active, Waiting, IInv, TypeOK
  <2>3. Cardinality(Signalling') = Cardinality(Signalling) - 1
    BY <2>1, Finite, FS_RemoveElement
  <2>4. Cardinality(Active') = Cardinality(Active) + 1
    BY <2>2, Finite, FS_AddElement
  <2>5. queue' = queue /\ Len(queue) \in Nat
    BY LenProperties DEF Signal, IInv, TypeOK
  <2> QED BY <1>2, <2>3, <2>4, <2>5, Finite DEF ElementsHaveThreads
<1> QED BY <1>1, <1>2 DEF Signal

\* A thread that becomes active while the queue stays as it is can only help.
LEMMA AwakeCount ==
    ASSUME IInv, ElementsHaveThreads, Waiting' # {} => Waiting # {}, queue' = queue,
           Signalling' = Signalling, NEW c, Active' = Active \cup {c}
    PROVE  ElementsHaveThreads'
<1>1. Cardinality(Active') >= Cardinality(Active) /\ Cardinality(Active') \in Nat
  <2>1. Cardinality(Active') = IF c \in Active THEN Cardinality(Active) ELSE Cardinality(Active) + 1
    BY Finite, FS_AddElement
  <2> QED BY <2>1, Finite
<1>2. Len(queue) \in Nat
  BY LenProperties DEF IInv, TypeOK
<1> QED BY <1>1, <1>2, Finite DEF ElementsHaveThreads

\* An empty queue needs no thread.
LEMMA EmptyCount ==
    ASSUME queue' = <<>>
    PROVE  ElementsHaveThreads'
<1>1. Cardinality(Signalling') \in Nat /\ Cardinality(Active') \in Nat
  <2>1. Signalling' \in SUBSET Producer /\ Active' \in SUBSET Consumer
    BY DEF Signalling, Active
  <2>2. IsFiniteSet(Signalling') /\ IsFiniteSet(Active')
    BY <2>1, FS_Subset
  <2> QED BY <2>2, FS_CardinalityType
<1>2. Len(queue') = 0
  OBVIOUS
<1> QED BY <1>1, <1>2 DEF ElementsHaveThreads

\* A thread looks at an empty queue before it waits, or goes on to take.
LEMMA BlockCount ==
    ASSUME IInv, ElementsHaveThreads, NEW c \in Consumer, Block(c)
    PROVE  ElementsHaveThreads'
<1>1. CASE List!Get(0) /\ Goto(c, "take")
  <2>1. Waiting' = Waiting /\ Signalling' = Signalling /\ Active' = Active \cup {c}
    BY <1>1 DEF Block, Look, At, Goto, Waiting, Signalling, Active, IInv, TypeOK
  <2> QED BY <1>1, <2>1, AwakeCount DEF List!Get
<1>2. CASE List!OutOfBounds(0) /\ Goto(c, "waiting")
  <2>1. queue' = <<>>
    BY <1>2, EmptySeq DEF List!OutOfBounds, IInv, TypeOK
  <2> QED BY <2>1, EmptyCount
<1> QED BY <1>1, <1>2 DEF Block, Look

\* A thread that wakes by itself looks as any other does.
LEMMA SpuriousCount ==
    ASSUME IInv, ElementsHaveThreads, NEW c \in Consumer, WakeSpuriously(c)
    PROVE  ElementsHaveThreads'
<1>1. c \in Waiting /\ Signalling' = Signalling /\ Active' = Active \cup {c}
  BY DEF WakeSpuriously, At, Goto, Waiting, Signalling, Active, IInv, TypeOK
<1> QED BY <1>1, AwakeCount DEF WakeSpuriously

\* A dequeue takes an element for the thread that is active no more.
LEMMA DequeueCount ==
    ASSUME IInv, ElementsHaveThreads, NEW c \in Consumer, Dequeue(c)
    PROVE  ElementsHaveThreads'
<1>1. CASE queue = <<>>
  BY <1>1, EmptyCount DEF Dequeue, List!OutOfBounds
<1>2. CASE queue # <<>>
  <2>1. Waiting' = Waiting /\ Signalling' = Signalling /\ Active' = Active \ {c}
    BY DEF Dequeue, At, Goto, Waiting, Signalling, Active, IInv, TypeOK
  <2>2. Cardinality(Active') >= Cardinality(Active) - 1 /\ Cardinality(Active') \in Nat
    <3>1. Cardinality(Active') = IF c \in Active THEN Cardinality(Active) - 1 ELSE Cardinality(Active)
      BY <2>1, Finite, FS_RemoveElement
    <3>2. IsFiniteSet(Active')
      BY <2>1, Finite, FS_RemoveElement
    <3>3. Cardinality(Active') \in Nat
      BY <3>2, FS_CardinalityType
    <3> QED BY <3>1, <3>3, Finite
  <2>3. Len(queue) \in Nat \ {0} /\ \A i \in 1..Len(queue) : queue[i] \in Elem
    BY <1>2, EmptySeq, LenProperties DEF IInv, TypeOK
  <2>4. queue' = SubSeq(queue, 1, Len(queue) - 1)
    <3>1. queue' = List!Before(queue, Len(queue) - 1) \o List!After(queue, Len(queue))
      BY <1>2, <2>3 DEF Dequeue, List!Remove
    <3> QED BY <1>2, <3>1, RemovedLast DEF IInv, TypeOK
  <2>5. Len(queue') = Len(queue) - 1
    <3>1. PICK n \in Nat : Len(queue) = n + 1
      BY <2>3
    <3>2. \A i \in 1..n : queue[i] \in Elem
      BY <2>3, <3>1
    <3>3. Len(SubSeq(queue, 1, n)) = n
      BY <3>2, SubSeqProperties
    <3> QED BY <2>4, <3>1, <3>3
  <2> QED BY <2>1, <2>2, <2>3, <2>5, Finite DEF ElementsHaveThreads
<1> QED BY <1>1, <1>2

\* The count is inductive under the types.
LEMMA NextCount == IInv /\ IInv' /\ ElementsHaveThreads /\ [Next]_vars => ElementsHaveThreads'
<1> SUFFICES ASSUME IInv, IInv', ElementsHaveThreads, [Next]_vars PROVE ElementsHaveThreads'
  OBVIOUS
<1>1. CASE UNCHANGED vars
  <2>1. Waiting' = Waiting /\ Signalling' = Signalling /\ Active' = Active /\ queue' = queue
    BY <1>1 DEF vars, Waiting, Signalling, Active, At
  <2> QED BY <2>1 DEF ElementsHaveThreads
<1> QED
  BY <1>1, EnqueueCount, SignalCount, BlockCount, SpuriousCount, DequeueCount DEF Next

\* No signal is lost: as long as a consumer waits, every element of the queue
\* has a thread that is about to signal, to look or to take.
THEOREM ElementsHaveThreadsAlways == Spec => []ElementsHaveThreads
<1>1. Init => ElementsHaveThreads
  BY DEF Init, ElementsHaveThreads, Waiting, At
<1> QED BY <1>1, InitIInv, NextIInv, NextCount, PTL DEF Spec

=============================================================================
