------------------------------ MODULE ListProofs ------------------------------
(***************************************************************************)
(* ListDispatch, for every Step, initial size and length of the array and  *)
(* every finite set of nodes: an array list keeps its elements in slots    *)
(* the array has and implements AbstractList; a linked list, until an      *)
(* element is inserted between two others, is a chain, every call of it    *)
(* ends, and does what AbstractList says; a stack and a queue always are   *)
(* one, a stack is last in, first out, and the calls of a queue are those  *)
(* that module Queue is about.                                             *)
(***************************************************************************)
EXTENDS ListDispatch, FiniteSetTheorems, SequenceTheorems, WellFoundedInduction, TLAPS

-----------------------------------------------------------------------------
(* The array list: its elements are stored *)

USE StepAssumption, InitLenAssumption, MaxLenAssumption

\* The array is as large as allocated says, and what is in use is an element.
IInv == TypeOK /\ ElementsAreStored

\* Growing makes room for one more element and takes no slot away.
LEMMA GrownFits ==
    ASSUME len \in Nat, allocated \in Nat, len <= allocated
    PROVE  Grown \in Nat /\ len + 1 <= Grown /\ allocated <= Grown
BY DEF Grown

\* Shrinking leaves room for the elements that remain.
LEMMA ShrunkFits ==
    ASSUME len \in Nat, allocated \in Nat, len <= allocated, len # 0
    PROVE  Shrunk \in Nat /\ len - 1 <= Shrunk /\ Shrunk <= allocated
BY DEF Shrunk

\* A new list has no elements.
LEMMA InitIInv == Init => IInv
BY DEF Init, IInv, TypeOK, ElementsAreStored, Slot, Error

\* A call that fails changes no element.
LEMMA FailIInv ==
    ASSUME IInv, NEW code \in Error, Fail(code)
    PROVE  IInv'
BY DEF IInv, TypeOK, ElementsAreStored, Fail

\* An add stores every element, the old ones and the new one.
LEMMA AddPosIInv ==
    ASSUME IInv, NEW pos \in Nat, NEW e \in Elem, AddPos(pos, e)
    PROVE  IInv'
<1>1. Grown \in Nat /\ len + 1 <= Grown /\ allocated <= Grown
  BY GrownFits DEF IInv, TypeOK, ElementsAreStored
<1>2. array' \in [1..allocated' -> Slot]
  BY <1>1 DEF AddPos, Inserted, Realloc, IInv, TypeOK, Slot
<1>3. len' <= allocated'
  BY <1>1 DEF AddPos, IInv, TypeOK
<1>4. ASSUME NEW i \in 1..len' PROVE array'[i] \in Elem
  <2>1. i \in 1..Grown /\ pos <= len /\ len' = len + 1
    BY <1>1 DEF AddPos, IInv, TypeOK
  <2>2. CASE i = pos + 1
    BY <2>1, <2>2 DEF AddPos, Inserted, Realloc
  <2>3. CASE i > pos + 1
    <3>1. i - 1 \in 1..len /\ i - 1 \in 1..Grown /\ i - 1 <= allocated
      BY <2>1, <2>3, <1>1 DEF IInv, TypeOK, ElementsAreStored
    <3>2. array'[i] = array[i - 1]
      BY <2>1, <2>3, <3>1 DEF AddPos, Inserted, Realloc, IInv, TypeOK
    <3> QED BY <3>1, <3>2 DEF IInv, ElementsAreStored
  <2>4. CASE i < pos + 1
    <3>1. i \in 1..len /\ i <= allocated
      BY <2>1, <2>4 DEF IInv, TypeOK, ElementsAreStored
    <3>2. array'[i] = array[i]
      BY <2>1, <2>4, <3>1 DEF AddPos, Inserted, Realloc, IInv, TypeOK
    <3> QED BY <3>1, <3>2 DEF IInv, ElementsAreStored
  <2> QED BY <2>1, <2>2, <2>3, <2>4
<1>5. len' \in Nat /\ allocated' \in Nat /\ err' \in Error /\ ret' \in Elem \cup {NULL} \cup Nat
  BY <1>1 DEF AddPos, IInv, TypeOK, Error
<1> QED BY <1>2, <1>3, <1>4, <1>5 DEF IInv, TypeOK, ElementsAreStored

\* A remove leaves the other elements in slots that are kept.
LEMMA RemoveIInv ==
    ASSUME IInv, NEW pos \in Nat, Remove(pos)
    PROVE  IInv'
<1>1. Shrunk \in Nat /\ len - 1 <= Shrunk /\ Shrunk <= allocated
  BY ShrunkFits DEF IInv, TypeOK, ElementsAreStored, Remove, InBounds
<1>2. pos + 1 \in 1..len /\ len' = len - 1 /\ len' \in Nat
  BY DEF Remove, InBounds, IInv, TypeOK
<1>3. array' \in [1..allocated' -> Slot]
  <2>1. ASSUME NEW i \in 1..Shrunk PROVE Closed(array, pos)[i] \in Slot
    <3>1. i \in 1..allocated /\ i \in DOMAIN array /\ (i < len => i + 1 \in 1..allocated)
      BY <1>1 DEF IInv, TypeOK, ElementsAreStored
    <3>2. array[i] \in Slot /\ (i < len => array[i + 1] \in Slot)
      BY <3>1 DEF IInv, TypeOK
    <3> QED BY <3>1, <3>2 DEF Closed, Slot
  <2>2. array' = [i \in 1..Shrunk |-> IF i <= allocated THEN Closed(array, pos)[i] ELSE Unset]
    BY DEF Remove, Realloc
  <2>3. allocated' = Shrunk
    BY DEF Remove
  <2> QED BY <2>1, <2>2, <2>3 DEF Slot
<1>4. ASSUME NEW i \in 1..len' PROVE array'[i] \in Elem
  <2>1. i \in 1..Shrunk /\ i <= allocated /\ i \in 1..len /\ i + 1 \in 1..len /\ i < len
    BY <1>1, <1>2 DEF IInv, TypeOK, ElementsAreStored
  <2>2. array'[i] = array[i] \/ array'[i] = array[i + 1]
    BY <2>1, <1>1 DEF Remove, Closed, Realloc, IInv, TypeOK
  <2> QED BY <2>1, <2>2 DEF IInv, ElementsAreStored
<1>5. allocated' \in Nat /\ len' <= allocated' /\ err' \in Error
  BY <1>1, <1>2 DEF Remove, IInv, TypeOK, Error
<1>6. ret' \in Elem
  BY <1>2 DEF Remove, IInv, ElementsAreStored
<1> QED BY <1>2, <1>3, <1>4, <1>5, <1>6 DEF IInv, TypeOK, ElementsAreStored

\* So does a remove that cannot shrink the array.
LEMMA RemoveMemoryIInv ==
    ASSUME IInv, NEW pos \in Nat, RemoveMemory(pos)
    PROVE  IInv'
<1>1. pos + 1 \in 1..len /\ len' = len - 1 /\ len' \in Nat /\ allocated' = allocated
  BY DEF RemoveMemory, InBounds, IInv, TypeOK
<1>2. array' \in [1..allocated' -> Slot]
  <2>1. ASSUME NEW i \in 1..allocated PROVE Closed(array, pos)[i] \in Slot
    <3>1. i \in DOMAIN array /\ (i < len => i + 1 \in 1..allocated)
      BY DEF IInv, TypeOK, ElementsAreStored
    <3>2. array[i] \in Slot /\ (i < len => array[i + 1] \in Slot)
      BY <3>1 DEF IInv, TypeOK
    <3> QED BY <3>1, <3>2 DEF Closed, Slot
  <2>2. array' = Closed(array, pos) /\ DOMAIN array = 1..allocated
    BY DEF RemoveMemory, IInv, TypeOK
  <2>3. array' = [i \in 1..allocated |-> array'[i]]
    BY <2>2 DEF Closed
  <2> QED BY <1>1, <2>1, <2>2, <2>3
<1>3. ASSUME NEW i \in 1..len' PROVE array'[i] \in Elem
  <2>1. i \in 1..allocated /\ i \in 1..len /\ i + 1 \in 1..len /\ i < len
    BY <1>1 DEF IInv, TypeOK, ElementsAreStored
  <2>2. array'[i] = array[i] \/ array'[i] = array[i + 1]
    BY <2>1 DEF RemoveMemory, Closed, IInv, TypeOK
  <2> QED BY <2>1, <2>2 DEF IInv, ElementsAreStored
<1> QED
  BY <1>1, <1>2, <1>3 DEF RemoveMemory, IInv, TypeOK, ElementsAreStored, Error

\* Calls that read change nothing.
LEMMA ReadIInv ==
    ASSUME IInv, Size \/ \E pos \in Nat : Get(pos)
    PROVE  IInv'
<1>1. CASE Size
  BY <1>1 DEF Size, IInv, TypeOK, ElementsAreStored, Error
<1>2. ASSUME NEW pos \in Nat, Get(pos) PROVE IInv'
  <2>1. pos + 1 \in 1..len
    BY <1>2 DEF Get, InBounds, IInv, TypeOK
  <2> QED BY <1>2, <2>1 DEF Get, IInv, TypeOK, ElementsAreStored, Error
<1> QED BY <1>1, <1>2

\* The invariant is inductive.
LEMMA NextIInv == IInv /\ [Next]_vars => IInv'
<1> SUFFICES ASSUME IInv, [Next]_vars PROVE IInv'
  OBVIOUS
<1>1. ASSUME NEW e \in Elem, Add(e) PROVE IInv'
  BY <1>1, AddPosIInv DEF Add, IInv, TypeOK
<1>2. ASSUME NEW e \in Elem, NEW pos \in Pos, AddPos(pos, e) PROVE IInv'
  BY <1>2, AddPosIInv DEF Pos
<1>3. CASE AddPosMemory
  BY <1>3, FailIInv DEF AddPosMemory, Error
<1>4. ASSUME NEW pos \in Pos, AddPosBounds(pos) \/ GetBounds(pos) \/ RemoveBounds(pos)
      PROVE  IInv'
  BY <1>4, FailIInv DEF AddPosBounds, GetBounds, RemoveBounds, Error
<1>5. ASSUME NEW pos \in Pos, Get(pos) PROVE IInv'
  BY <1>5, ReadIInv DEF Pos
<1>6. ASSUME NEW pos \in Pos, Remove(pos) PROVE IInv'
  BY <1>6, RemoveIInv DEF Pos
<1>7. ASSUME NEW pos \in Pos, RemoveMemory(pos) PROVE IInv'
  BY <1>7, RemoveMemoryIInv DEF Pos
<1>8. CASE Size
  BY <1>8, ReadIInv
<1>9. CASE UNCHANGED vars
  BY <1>9 DEF vars, IInv, TypeOK, ElementsAreStored
<1> QED BY <1>1, <1>2, <1>3, <1>4, <1>5, <1>6, <1>7, <1>8, <1>9 DEF Next

-----------------------------------------------------------------------------
(* The array list implements AbstractList *)

\* A sequence that agrees with s up to pos, has e next, and then the rest of
\* s, is what AbstractList's AddPos makes of s.
LEMMA InsertedSeq ==
    ASSUME NEW s \in Seq(Elem), NEW e \in Elem, NEW pos \in 0..Len(s),
           NEW t \in Seq(Elem), Len(t) = Len(s) + 1,
           \A i \in 1..Len(t) : t[i] = IF i <= pos THEN s[i]
                                       ELSE IF i = pos + 1 THEN e ELSE s[i - 1]
    PROVE  t = SubSeq(s, 1, pos) \o <<e>> \o SubSeq(s, pos + 1, Len(s))
<1> DEFINE a == SubSeq(s, 1, pos)
           b == SubSeq(s, pos + 1, Len(s))
           m == a \o <<e>>
<1>1. Len(s) \in Nat /\ \A i \in 1..Len(s) : s[i] \in Elem
  BY ElementOfSeq, LenProperties
<1>2. a \in Seq(Elem) /\ Len(a) = pos /\ \A i \in 1..pos : a[i] = s[i]
  <2>1. \A i \in 1..pos : s[i] \in Elem
    BY <1>1
  <2> QED BY <1>1, <2>1, SubSeqProperties, Z3
<1>3. b \in Seq(Elem) /\ Len(b) = Len(s) - pos /\ \A i \in 1..(Len(s) - pos) : b[i] = s[pos + i]
  <2>1. \A i \in (pos + 1)..Len(s) : s[i] \in Elem
    BY <1>1
  <2>2. b \in Seq(Elem) /\ Len(b) = Len(s) - pos /\ \A i \in 1..(Len(s) - pos) : b[i] = s[pos + 1 + i - 1]
    BY <1>1, <2>1, SubSeqProperties, Z3
  <2> QED BY <1>1, <2>2
<1>4. m \in Seq(Elem) /\ Len(m) = pos + 1 /\ \A i \in 1..(pos + 1) : m[i] = IF i <= pos THEN a[i] ELSE e
  <2>1. <<e>> \in Seq(Elem) /\ Len(<<e>>) = 1 /\ <<e>>[1] = e
    OBVIOUS
  <2>2. a \in Seq(Elem) /\ Len(a) = pos
    BY <1>2
  <2> HIDE DEF a
  <2>3. m \in Seq(Elem) /\ Len(m) = Len(a) + 1
        /\ \A i \in 1..(Len(a) + 1) : m[i] = IF i <= Len(a) THEN a[i] ELSE <<e>>[i - Len(a)]
    BY <2>1, <2>2, ConcatProperties
  <2> HIDE DEF m
  <2>4. ASSUME NEW i \in 1..(pos + 1) PROVE m[i] = IF i <= pos THEN a[i] ELSE e
    BY <1>1, <2>1, <2>2, <2>3
  <2> QED BY <2>2, <2>3, <2>4
<1> HIDE DEF a, b, m
<1>5. /\ m \o b \in Seq(Elem) /\ Len(m \o b) = Len(s) + 1
      /\ \A i \in 1..(Len(s) + 1) : (m \o b)[i] = IF i <= pos + 1 THEN m[i] ELSE b[i - (pos + 1)]
  <2>1. m \o b \in Seq(Elem) /\ Len(m \o b) = Len(m) + Len(b)
        /\ \A i \in 1..(Len(m) + Len(b)) : (m \o b)[i] = IF i <= Len(m) THEN m[i] ELSE b[i - Len(m)]
    BY <1>3, <1>4, ConcatProperties
  <2>2. Len(m) + Len(b) = Len(s) + 1
    BY <1>1, <1>3, <1>4
  <2> QED BY <1>4, <2>1, <2>2
<1>6. ASSUME NEW i \in 1..Len(t) PROVE t[i] = (m \o b)[i]
  <2>1. i \in 1..(Len(s) + 1) /\ i \in Nat /\ pos \in Nat
    BY <1>1
  <2>2. i <= pos \/ i = pos + 1 \/ i > pos + 1
    BY <2>1
  <2>3. CASE i <= pos
    <3>1. (m \o b)[i] = m[i]
      BY <1>5, <2>1, <2>3
    <3>2. m[i] = a[i]
      BY <1>4, <2>1, <2>3
    <3>3. a[i] = s[i]
      BY <1>2, <2>1, <2>3
    <3>4. t[i] = s[i]
      BY <2>3
    <3> QED BY <3>1, <3>2, <3>3, <3>4
  <2>4. CASE i = pos + 1
    BY <1>1, <1>4, <1>5, <2>1, <2>4
  <2>5. CASE i > pos + 1
    <3>1. (m \o b)[i] = b[i - (pos + 1)]
      BY <1>5, <2>1, <2>5
    <3>2. i - (pos + 1) \in 1..(Len(s) - pos) /\ pos + (i - (pos + 1)) = i - 1
      BY <1>1, <2>1, <2>5
    <3>3. b[i - (pos + 1)] = s[i - 1]
      BY <1>3, <3>2
    <3>4. t[i] = s[i - 1]
      BY <2>1, <2>5
    <3> QED BY <3>1, <3>3, <3>4
  <2> QED BY <2>2, <2>3, <2>4, <2>5
<1>7. t = m \o b
  BY <1>5, <1>6, SeqEqual
<1> QED BY <1>7 DEF a, b, m

\* The same for a sequence that leaves out one place of s.
LEMMA RemovedSeq ==
    ASSUME NEW s \in Seq(Elem), NEW pos \in 0..(Len(s) - 1),
           NEW t \in Seq(Elem), Len(t) = Len(s) - 1,
           \A i \in 1..Len(t) : t[i] = IF i <= pos THEN s[i] ELSE s[i + 1]
    PROVE  t = SubSeq(s, 1, pos) \o SubSeq(s, pos + 2, Len(s))
<1> DEFINE a == SubSeq(s, 1, pos)
           b == SubSeq(s, pos + 2, Len(s))
<1>1. Len(s) \in Nat /\ \A i \in 1..Len(s) : s[i] \in Elem
  BY ElementOfSeq, LenProperties
<1>2. a \in Seq(Elem) /\ Len(a) = pos /\ \A i \in 1..pos : a[i] = s[i]
  <2>1. \A i \in 1..pos : s[i] \in Elem
    BY <1>1
  <2> QED BY <1>1, <2>1, SubSeqProperties, Z3
<1>3. b \in Seq(Elem) /\ Len(b) = Len(s) - pos - 1 /\ \A i \in 1..(Len(s) - pos - 1) : b[i] = s[pos + 1 + i]
  <2>1. \A i \in (pos + 2)..Len(s) : s[i] \in Elem
    BY <1>1
  <2>2. b \in Seq(Elem) /\ Len(b) = Len(s) - pos - 1 /\ \A i \in 1..(Len(s) - pos - 1) : b[i] = s[pos + 2 + i - 1]
    BY <1>1, <2>1, SubSeqProperties, Z3
  <2> QED BY <1>1, <2>2
<1> HIDE DEF a, b
<1>4. /\ a \o b \in Seq(Elem) /\ Len(a \o b) = Len(s) - 1
      /\ \A i \in 1..(Len(s) - 1) : (a \o b)[i] = IF i <= pos THEN a[i] ELSE b[i - pos]
  <2>1. a \o b \in Seq(Elem) /\ Len(a \o b) = Len(a) + Len(b)
        /\ \A i \in 1..(Len(a) + Len(b)) : (a \o b)[i] = IF i <= Len(a) THEN a[i] ELSE b[i - Len(a)]
    BY <1>2, <1>3, ConcatProperties
  <2>2. Len(a) + Len(b) = Len(s) - 1
    BY <1>1, <1>2, <1>3
  <2> QED BY <1>2, <2>1, <2>2
<1>5. ASSUME NEW i \in 1..Len(t) PROVE t[i] = (a \o b)[i]
  BY <1>1, <1>2, <1>3, <1>4
<1>6. t = a \o b
  BY <1>4, <1>5, SeqEqual
<1> QED BY <1>6 DEF a, b

\* The elements are a sequence, before a step
LEMMA ContentsSeq ==
    ASSUME IInv
    PROVE  Contents \in Seq(Elem) /\ Len(Contents) = len /\ \A i \in 1..len : Contents[i] = array[i]
BY DEF IInv, TypeOK, ElementsAreStored, Contents

\* and after it.
LEMMA ContentsSeqNext ==
    ASSUME IInv'
    PROVE  Contents' \in Seq(Elem) /\ Len(Contents') = len' /\ \A i \in 1..len' : Contents'[i] = array'[i]
BY DEF IInv, TypeOK, ElementsAreStored, Contents

\* An add is an add of the sequence.
LEMMA AddPosRefines ==
    ASSUME IInv, NEW pos \in Pos, NEW e \in Elem, AddPos(pos, e)
    PROVE  List!AddPos(pos, e)
<1>1. IInv'
  BY AddPosIInv DEF Pos
<1> DEFINE s == Contents
           t == Contents'
<1>2. s \in Seq(Elem) /\ Len(s) = len /\ \A i \in 1..len : s[i] = array[i]
  BY ContentsSeq
<1>3. t \in Seq(Elem) /\ Len(t) = len' /\ \A i \in 1..len' : t[i] = array'[i]
  BY <1>1, ContentsSeqNext
<1>4. pos \in 0..Len(s) /\ Len(t) = Len(s) + 1 /\ len' = len + 1 /\ len \in Nat /\ allocated \in Nat
  BY <1>2, <1>3 DEF AddPos, IInv, TypeOK, Pos
<1>5. Grown \in Nat /\ len + 1 <= Grown /\ len <= allocated
  BY GrownFits DEF IInv, TypeOK, ElementsAreStored
<1>6. ASSUME NEW i \in 1..len'
      PROVE  array'[i] = IF i <= pos THEN array[i] ELSE IF i = pos + 1 THEN e ELSE array[i - 1]
  <2>1. i \in 1..Grown /\ (i > pos + 1 => i - 1 \in 1..Grown /\ i - 1 <= allocated)
    BY <1>4, <1>5 DEF Pos
  <2>2. i <= pos => i <= allocated
    BY <1>2, <1>4, <1>5 DEF Pos
  <2> QED BY <1>4, <2>1, <2>2 DEF AddPos, Inserted, Realloc, Pos
<1> HIDE DEF s, t
<1>7. ASSUME NEW i \in 1..Len(t)
      PROVE  t[i] = IF i <= pos THEN s[i] ELSE IF i = pos + 1 THEN e ELSE s[i - 1]
  <2>1. i \in 1..len' /\ (i <= pos => i \in 1..len) /\ (i > pos + 1 => i - 1 \in 1..len)
    BY <1>2, <1>3, <1>4 DEF Pos
  <2>2. CASE i <= pos
    BY <1>2, <1>3, <1>6, <2>1, <2>2
  <2>3. CASE i = pos + 1
    BY <1>3, <1>6, <2>1, <2>3, <1>4
  <2>4. CASE i > pos + 1
    BY <1>2, <1>3, <1>4, <1>6, <2>1, <2>4, SMTT(40)
  <2> QED BY <2>1, <2>2, <2>3, <2>4, <1>4
<1>8. t = SubSeq(s, 1, pos) \o <<e>> \o SubSeq(s, pos + 1, Len(s))
  BY <1>2, <1>3, <1>4, <1>7, InsertedSeq
<1> QED
  BY <1>4, <1>8 DEF AddPos, List!AddPos, List!Before, List!After, s, t

\* A remove, whether or not the array can shrink, takes that element.
LEMMA ClosedContents ==
    ASSUME IInv, IInv', NEW pos \in Nat, InBounds(pos), len' = len - 1,
           \A i \in 1..len' : array'[i] = IF i <= pos THEN array[i] ELSE array[i + 1]
    PROVE  /\ pos < Len(Contents)
           /\ Contents[pos + 1] = array[pos + 1]
           /\ Contents' = List!Before(Contents, pos) \o List!After(Contents, pos + 1)
<1> DEFINE s == Contents
           t == Contents'
<1>1. s \in Seq(Elem) /\ Len(s) = len /\ \A i \in 1..len : s[i] = array[i]
  BY ContentsSeq
<1>2. t \in Seq(Elem) /\ Len(t) = len' /\ \A i \in 1..len' : t[i] = array'[i]
  BY ContentsSeqNext
<1>3. pos \in 0..(Len(s) - 1) /\ Len(t) = Len(s) - 1 /\ len \in Nat /\ pos + 1 \in 1..len
  BY <1>1, <1>2 DEF InBounds, IInv, TypeOK
<1> HIDE DEF s, t
<1>4. ASSUME NEW i \in 1..Len(t) PROVE t[i] = IF i <= pos THEN s[i] ELSE s[i + 1]
  <2>1. i \in 1..len' /\ i \in 1..len /\ i + 1 \in 1..len
    BY <1>1, <1>2, <1>3
  <2> QED BY <1>1, <1>2, <2>1
<1>5. t = SubSeq(s, 1, pos) \o SubSeq(s, pos + 2, Len(s))
  BY <1>1, <1>2, <1>3, <1>4, RemovedSeq
<1>6. pos + 1 + 1 = pos + 2
  OBVIOUS
<1> QED BY <1>1, <1>3, <1>5, <1>6 DEF List!Before, List!After, s, t

\* A remove is a remove of the sequence
LEMMA RemoveRefines ==
    ASSUME IInv, NEW pos \in Pos, Remove(pos)
    PROVE  List!Remove(pos)
<1>1. IInv' /\ pos \in Nat
  BY RemoveIInv DEF Pos
<1>2. Shrunk \in Nat /\ len - 1 <= Shrunk /\ Shrunk <= allocated
  BY ShrunkFits DEF IInv, TypeOK, ElementsAreStored, Remove, InBounds
<1>3. ASSUME NEW i \in 1..len' PROVE array'[i] = IF i <= pos THEN array[i] ELSE array[i + 1]
  <2>1. i \in 1..Shrunk /\ i <= allocated /\ i \in 1..allocated /\ i < len
    BY <1>2 DEF Remove, IInv, TypeOK, ElementsAreStored
  <2> QED BY <1>1, <2>1 DEF Remove, Closed, Realloc, IInv, TypeOK
<1> QED BY <1>1, <1>3, ClosedContents DEF Remove, List!Remove

\* and, when the array cannot shrink, one that the caller is not told of.
LEMMA RemoveMemoryRefines ==
    ASSUME IInv, NEW pos \in Pos, RemoveMemory(pos)
    PROVE  List!RemoveUnpaid(pos)
<1>1. IInv' /\ pos \in Nat
  BY RemoveMemoryIInv DEF Pos
<1>2. ASSUME NEW i \in 1..len' PROVE array'[i] = IF i <= pos THEN array[i] ELSE array[i + 1]
  <2>1. i \in 1..allocated /\ i < len
    BY DEF RemoveMemory, IInv, TypeOK, ElementsAreStored
  <2> QED BY <1>1, <2>1 DEF RemoveMemory, Closed, IInv, TypeOK
<1> QED BY <1>1, <1>2, ClosedContents DEF RemoveMemory, List!RemoveUnpaid

\* Calls that only read, and calls that fail.
LEMMA ReadRefines ==
    ASSUME IInv, NEW pos \in Pos,
           Get(pos) \/ Size \/ AddPosMemory \/ AddPosBounds(pos) \/ GetBounds(pos) \/ RemoveBounds(pos)
    PROVE  List!Get(pos) \/ List!Size \/ List!OutOfMemory \/ List!OutOfBounds(pos)
<1>1. Len(Contents) = len /\ (\A i \in 1..len : Contents[i] = array[i]) /\ len \in Nat /\ pos \in Nat
  BY ContentsSeq DEF IInv, TypeOK, Pos
<1>2. UNCHANGED <<array, len, allocated>> => Contents' = Contents
  BY DEF Contents
<1>3. CASE Get(pos)
  BY <1>1, <1>2, <1>3 DEF Get, InBounds, List!Get
<1>4. CASE Size
  BY <1>1, <1>2, <1>4 DEF Size, List!Size
<1>5. CASE AddPosMemory
  BY <1>2, <1>5 DEF AddPosMemory, Fail, List!OutOfMemory
<1>6. CASE AddPosBounds(pos)
  BY <1>1, <1>2, <1>6 DEF AddPosBounds, Fail, List!OutOfBounds
<1>7. CASE GetBounds(pos) \/ RemoveBounds(pos)
  BY <1>1, <1>2, <1>7 DEF GetBounds, RemoveBounds, InBounds, Fail, List!OutOfBounds
<1> QED BY <1>3, <1>4, <1>5, <1>6, <1>7

\* A new list is the empty sequence.
LEMMA InitRefines == Init => List!Init
<1> SUFFICES ASSUME Init PROVE Contents = <<>>
  BY DEF Init, List!Init
<1> QED BY DEF Init, Contents

\* Every step is a step of the sequence, or changes nothing.
LEMMA NextRefines ==
    IInv /\ [Next]_vars => [List!Next]_<<Contents, err, ret>>
<1> SUFFICES ASSUME IInv, [Next]_vars PROVE [List!Next]_<<Contents, err, ret>>
  OBVIOUS
<1>1. ASSUME NEW e \in Elem, Add(e) PROVE List!Next
  <2>1. len \in Pos /\ AddPos(len, e)
    BY <1>1 DEF Add, AddPos, Pos, IInv, TypeOK
  <2> QED BY <2>1, AddPosRefines DEF List!Next
<1>2. ASSUME NEW e \in Elem, NEW pos \in Pos, AddPos(pos, e) PROVE List!Next
  BY <1>2, AddPosRefines DEF List!Next
<1>3. ASSUME NEW pos \in Pos,
             Get(pos) \/ Size \/ AddPosMemory \/ AddPosBounds(pos) \/ GetBounds(pos) \/ RemoveBounds(pos)
      PROVE  List!Next
  BY <1>3, ReadRefines DEF List!Next
<1>4. ASSUME NEW pos \in Pos, Remove(pos) PROVE List!Next
  BY <1>4, RemoveRefines DEF List!Next
<1>5. ASSUME NEW pos \in Pos, RemoveMemory(pos) PROVE List!Next
  BY <1>5, RemoveMemoryRefines DEF List!Next
<1>6. CASE UNCHANGED vars
  BY <1>6 DEF vars, Contents
<1>7. 0 \in Pos
  BY DEF Pos
<1> QED BY <1>1, <1>2, <1>3, <1>4, <1>5, <1>6, <1>7 DEF Next

-----------------------------------------------------------------------------
(* Natural numbers *)

\* A set of natural numbers has a least one.
LEMMA Least ==
  ASSUME NEW T \in SUBSET Nat, T # {}
  PROVE  \E n \in T : \A m \in T : n <= m
<1>1. PICK n \in T : \A m \in T : ~ (<<m, n>> \in OpToRel(<, Nat))
  BY NatLessThanWellFounded, WFMin
<1>2. \A m \in T : ~ (m < n)
  BY <1>1 DEF OpToRel
<1> QED BY <1>2

\* A set that holds 0 and with each number the next holds them all.
LEMMA Induct ==
  ASSUME NEW T, 0 \in T, \A n \in Nat : n \in T => n + 1 \in T
  PROVE  \A n \in Nat : n \in T
<1> SUFFICES ASSUME Nat \ T # {} PROVE FALSE
  OBVIOUS
<1>1. PICK n \in Nat \ T : \A m \in Nat \ T : n <= m
  BY Least
<1>2. n - 1 \in Nat /\ n - 1 \notin Nat \ T
  BY <1>1
<1> QED BY <1>1, <1>2

-----------------------------------------------------------------------------
(* Nodes *)

Pointer == Linked!Pointer
Field   == Linked!Field

\* The addresses are a finite set, and NULL is none of them.
LEMMA NodeFacts ==
  /\ IsFiniteSet(Node) /\ NULL \notin Node /\ NULL \notin Elem
  /\ Pointer = Node \cup {NULL}
  /\ Linked!Most = Cardinality(Node) /\ Linked!Most \in Nat
<1>1. IsFiniteSet(Node) /\ NULL \notin Node /\ NULL \notin Elem
  BY LinkedAssumption
     DEF Linked!NodeAssumption, Linked!ElemAssumption, Linked!IsFiniteSet, IsFiniteSet
<1>2. Linked!Most = Cardinality(Node)
  BY DEF Linked!Most, Linked!Cardinality, Cardinality
<1>3. Cardinality(Node) \in Nat
  BY <1>1, FS_CardinalityType
<1> QED BY <1>1, <1>2, <1>3 DEF Pointer, Linked!Pointer

\* What an assignment to a next changes,
LEMMA PutNext ==
  ASSUME NEW D, NEW h \in [D -> Field], NEW p, NEW v \in Pointer
  PROVE  LET g == Linked!Put(h, p, "next", v)
         IN  /\ g \in [D -> Field]
             /\ \A m \in D : /\ g[m].next = IF m = p THEN v ELSE h[m].next
                             /\ g[m].prev = h[m].prev /\ g[m].data = h[m].data
BY DEF Linked!Put, Field, Linked!Field, Pointer, Linked!Pointer

\* to a prev,
LEMMA PutPrev ==
  ASSUME NEW D, NEW h \in [D -> Field], NEW p, NEW v \in Pointer
  PROVE  LET g == Linked!Put(h, p, "prev", v)
         IN  /\ g \in [D -> Field]
             /\ \A m \in D : /\ g[m].prev = IF m = p THEN v ELSE h[m].prev
                             /\ g[m].next = h[m].next /\ g[m].data = h[m].data
BY DEF Linked!Put, Field, Linked!Field, Pointer, Linked!Pointer

\* _llnode_create: the nodes there are then,
LEMMA CreatedTyped ==
  ASSUME heap \in [DOMAIN heap -> Field], NEW x \in Node \ DOMAIN heap, NEW e \in Elem,
         NEW nx \in Pointer, NEW pv \in Pointer
  PROVE  Linked!Created(x, e, nx, pv) \in [DOMAIN heap \cup {x} -> Field]
<1>1. x # NULL /\ {x} \ {NULL} = {x}
  BY NodeFacts
<1>2. [data |-> e, next |-> nx, prev |-> pv] \in Field
  BY DEF Field, Linked!Field, Pointer
<1>3. Linked!Created(x, e, nx, pv) =
        [m \in DOMAIN heap \cup {x} |->
             IF m = x THEN [data |-> e, next |-> nx, prev |-> pv] ELSE heap[m]]
  BY <1>1 DEF Linked!Created, Linked!Live
<1> QED BY <1>2, <1>3

\* and what they hold,
LEMMA CreatedIs ==
  ASSUME NEW x \in Node \ DOMAIN heap, NEW e, NEW nx, NEW pv
  PROVE  LET g == Linked!Created(x, e, nx, pv)
         IN  /\ g[x].next = nx /\ g[x].prev = pv /\ g[x].data = e
             /\ \A m \in DOMAIN heap : g[m] = heap[m]
<1> DEFINE g == Linked!Created(x, e, nx, pv)
           r == [data |-> e, next |-> nx, prev |-> pv]
<1>1. x # NULL /\ {x} \ {NULL} = {x}
  BY NodeFacts
<1>2. g = [m \in DOMAIN heap \cup {x} |-> IF m = x THEN r ELSE heap[m]]
  BY <1>1 DEF Linked!Created, Linked!Live
<1>3. r.data = e /\ r.next = nx /\ r.prev = pv
  OBVIOUS
<1> HIDE DEF g, r
<1>4. g[x] = r
  BY <1>2
<1>5. \A m \in DOMAIN heap : g[m] = heap[m]
  BY <1>2
<1> QED BY <1>3, <1>4, <1>5 DEF g

\* and _llnode_free: the nodes that remain,
LEMMA FreedTyped ==
  ASSUME NEW D, NEW h \in [D -> Field], NEW x \in D
  PROVE  Linked!Freed(h, x) \in [D \ {x} -> Field]
<1> DEFINE h1 == Linked!Put(h, h[x].next, "prev", NULL)
           h2 == Linked!Put(h1, h1[x].prev, "next", NULL)
<1>1. NULL \in Pointer
  BY NodeFacts
<1>2. h1 \in [D -> Field]
  BY <1>1, PutPrev
<1> HIDE DEF h1
<1>3. h2 \in [D -> Field]
  BY <1>1, <1>2, PutNext
<1>4. Linked!Freed(h, x) = [m \in D \ {x} |-> h2[m]]
  BY DEF Linked!Freed, h1
<1> HIDE DEF h2
<1> QED BY <1>3, <1>4
\* and what they point to.
LEMMA FreedIs ==
  ASSUME NEW D, NEW h \in [D -> Field], NEW x \in D, h[x].next # x
  PROVE  LET g == Linked!Freed(h, x)
         IN  \A m \in D \ {x} :
               /\ g[m].next = IF m = h[x].prev THEN NULL ELSE h[m].next
               /\ g[m].prev = IF m = h[x].next THEN NULL ELSE h[m].prev
               /\ g[m].data = h[m].data
<1> DEFINE h1 == Linked!Put(h, h[x].next, "prev", NULL)
           h2 == Linked!Put(h1, h1[x].prev, "next", NULL)
           g  == Linked!Freed(h, x)
<1>1. NULL \in Pointer
  BY NodeFacts
<1>2. /\ h1 \in [D -> Field]
      /\ \A m \in D : /\ h1[m].prev = IF m = h[x].next THEN NULL ELSE h[m].prev
                      /\ h1[m].next = h[m].next /\ h1[m].data = h[m].data
  BY <1>1, PutPrev
<1> HIDE DEF h1
<1>3. /\ h2 \in [D -> Field]
      /\ \A m \in D : /\ h2[m].next = IF m = h1[x].prev THEN NULL ELSE h1[m].next
                      /\ h2[m].prev = h1[m].prev /\ h2[m].data = h1[m].data
  BY <1>1, <1>2, PutNext
<1>4. g = [m \in D \ {x} |-> h2[m]]
  BY DEF Linked!Freed, h1
<1> HIDE DEF g, h2
<1>5. h1[x].prev = h[x].prev
  BY <1>2
<1>6. ASSUME NEW m \in D \ {x}
      PROVE  /\ g[m].next = IF m = h[x].prev THEN NULL ELSE h[m].next
             /\ g[m].prev = IF m = h[x].next THEN NULL ELSE h[m].prev
             /\ g[m].data = h[m].data
  <2>1. g[m] = h2[m] /\ m \in D
    BY <1>4
  <2> QED BY <1>2, <1>3, <1>5, <2>1
<1> QED BY <1>6 DEF g

-----------------------------------------------------------------------------
(* Chains *)

\* h is a chain of n nodes, s[1] to s[n] from front to back, with NULL on
\* either side, and f and l are its ends.
Chain(n, s, h, f, l) ==
  /\ n \in Nat
  /\ s \in [0..(n + 1) -> Pointer] /\ s[0] = NULL /\ s[n + 1] = NULL
  /\ \A i \in 1..n : s[i] # NULL
  /\ \A i, j \in 1..n : s[i] = s[j] => i = j
  /\ DOMAIN h = {s[i] : i \in 1..n}
  /\ h \in [DOMAIN h -> Field]
  /\ \A i \in 1..n : h[s[i]].next = s[i + 1] /\ h[s[i]].prev = s[i - 1]
  /\ f = s[1] /\ l = s[n]

\* The elements in the nodes.
Data(n, s, h) == [i \in 1..n |-> h[s[i]].data]

\* The places of s with x at place k, and without what is at place k.
With(n, s, k, x)  == [i \in 0..(n + 2) |-> IF i < k THEN s[i] ELSE IF i = k THEN x ELSE s[i - 1]]
Without(n, s, k)  == [i \in 0..n |-> IF i < k THEN s[i] ELSE s[i + 1]]

\* A chain with no nodes.
LEMMA NoNodes == Chain(0, [i \in 0..1 |-> NULL], [n \in {} |-> NULL], NULL, NULL)
BY NodeFacts DEF Chain

\* The ends of a chain.
LEMMA ChainEnds ==
  ASSUME NEW n, NEW s, NEW h, NEW f, NEW l, Chain(n, s, h, f, l)
  PROVE  /\ f = NULL <=> n = 0
         /\ l = NULL <=> n = 0
         /\ n = 0 => DOMAIN h = {}
         /\ n # 0 => f \in DOMAIN h /\ l \in DOMAIN h
<1>1. n \in Nat /\ f = s[1] /\ l = s[n] /\ s[0] = NULL /\ s[n + 1] = NULL
      /\ DOMAIN h = {s[i] : i \in 1..n} /\ \A i \in 1..n : s[i] # NULL
  BY DEF Chain
<1>2. CASE n = 0
  <2>1. s[1] = NULL /\ s[n] = NULL /\ 1..n = {}
    BY <1>1, <1>2
  <2> QED BY <1>1, <1>2, <2>1
<1>3. CASE n # 0
  <2>1. 1 \in 1..n /\ n \in 1..n
    BY <1>1, <1>3
  <2> QED BY <1>1, <1>3, <2>1
<1> QED BY <1>2, <1>3

\* The pointers of a node lead to its neighbours, and not to itself.
LEMMA ChainNode ==
  ASSUME NEW n, NEW s, NEW h, NEW f, NEW l, Chain(n, s, h, f, l), NEW k \in 1..n
  PROVE  /\ s[k] \in DOMAIN h /\ s[k] \in Node
         /\ h[s[k]].next = s[k + 1] /\ h[s[k]].prev = s[k - 1]
         /\ s[k + 1] # s[k] /\ s[k - 1] # s[k]
         /\ IF k = n THEN s[k + 1] = NULL ELSE s[k + 1] \in DOMAIN h
         /\ IF k = 1 THEN s[k - 1] = NULL ELSE s[k - 1] \in DOMAIN h
         /\ s[k + 1] = s[k - 1] => s[k + 1] = NULL
<1>1. n \in Nat /\ s \in [0..(n + 1) -> Pointer] /\ s[0] = NULL /\ s[n + 1] = NULL
      /\ (\A i \in 1..n : s[i] # NULL) /\ (\A i, j \in 1..n : s[i] = s[j] => i = j)
      /\ DOMAIN h = {s[i] : i \in 1..n}
      /\ h[s[k]].next = s[k + 1] /\ h[s[k]].prev = s[k - 1]
  BY DEF Chain
<1>2. k \in 0..(n + 1) /\ s[k] \in Pointer /\ s[k] # NULL
  BY <1>1
<1>3. s[k] \in DOMAIN h /\ s[k] \in Node
  BY <1>1, <1>2, NodeFacts
<1>4. CASE k = n
  <2>1. s[k + 1] = NULL
    BY <1>1, <1>4
  <2>2. CASE k = 1
    BY <1>1, <1>2, <1>3, <1>4, <2>1, <2>2
  <2>3. CASE k # 1
    <3>1. k - 1 \in 1..n /\ k - 1 # k
      BY <1>1, <2>3
    <3>2. s[k - 1] \in DOMAIN h /\ s[k - 1] # s[k] /\ s[k - 1] # NULL
      BY <1>1, <3>1
    <3> QED BY <1>1, <1>2, <1>3, <1>4, <2>1, <2>3, <3>2
  <2> QED BY <2>2, <2>3
<1>5. CASE k # n
  <2>1. k + 1 \in 1..n /\ k + 1 # k
    BY <1>1, <1>5
  <2>2. s[k + 1] \in DOMAIN h /\ s[k + 1] # s[k] /\ s[k + 1] # NULL
    BY <1>1, <2>1
  <2>3. CASE k = 1
    BY <1>1, <1>2, <1>3, <1>5, <2>2, <2>3
  <2>4. CASE k # 1
    <3>1. k - 1 \in 1..n /\ k - 1 # k /\ k - 1 # k + 1
      BY <1>1, <2>4
    <3>2. s[k - 1] \in DOMAIN h /\ s[k - 1] # s[k] /\ s[k - 1] # s[k + 1]
      BY <1>1, <2>1, <3>1
    <3> QED BY <1>1, <1>2, <1>3, <1>5, <2>2, <2>4, <3>2
  <2> QED BY <2>3, <2>4
<1> QED BY <1>4, <1>5

\* A new node between two places.
LEMMA ChainWith ==
  ASSUME NEW n, NEW s, NEW h, NEW f, NEW l, Chain(n, s, h, f, l),
         NEW k \in 1..(n + 1), NEW x \in Node \ DOMAIN h,
         NEW g \in [DOMAIN h \cup {x} -> Field],
         g[x].next = s[k], g[x].prev = s[k - 1],
         \A m \in DOMAIN h : /\ g[m].next = IF m = s[k - 1] THEN x ELSE h[m].next
                             /\ g[m].prev = IF m = s[k] THEN x ELSE h[m].prev
                             /\ g[m].data = h[m].data
  PROVE  LET w == With(n, s, k, x)
         IN  /\ Chain(n + 1, w, g, w[1], w[n + 1])
             /\ w[1] = IF k = 1 THEN x ELSE f
             /\ w[n + 1] = IF k = n + 1 THEN x ELSE l
             /\ \A i \in 1..(n + 1) :
                  Data(n + 1, w, g)[i] = IF i < k THEN Data(n, s, h)[i]
                                         ELSE IF i = k THEN g[x].data ELSE Data(n, s, h)[i - 1]
<1> DEFINE w == With(n, s, k, x)
<1>a. n \in Nat
  BY DEF Chain
<1>b. (\A i \in 1..n : s[i] # NULL) /\ \A i, j \in 1..n : s[i] = s[j] => i = j
  BY DEF Chain
<1>c. \A i \in 1..n : h[s[i]].next = s[i + 1] /\ h[s[i]].prev = s[i - 1]
  BY DEF Chain
<1>1. n \in Nat /\ s \in [0..(n + 1) -> Pointer] /\ s[0] = NULL /\ s[n + 1] = NULL
      /\ (\A i \in 1..n : s[i] # NULL) /\ (\A i, j \in 1..n : s[i] = s[j] => i = j)
      /\ DOMAIN h = {s[i] : i \in 1..n}
      /\ (\A i \in 1..n : h[s[i]].next = s[i + 1] /\ h[s[i]].prev = s[i - 1])
      /\ f = s[1] /\ l = s[n]
  BY DEF Chain
<1>2. x \in Pointer /\ x # NULL
  BY NodeFacts
<1>3. \A i \in 0..(n + 2) : w[i] = IF i < k THEN s[i] ELSE IF i = k THEN x ELSE s[i - 1]
  BY DEF With
<1>4. w \in [0..(n + 2) -> Pointer]
  <2>1. ASSUME NEW i \in 0..(n + 2)
        PROVE  (IF i < k THEN s[i] ELSE IF i = k THEN x ELSE s[i - 1]) \in Pointer
    <3>1. /\ i < k => i \in 0..(n + 1)
          /\ ~(i < k) /\ i # k => i - 1 \in 0..(n + 1)
      BY <1>1
    <3> QED BY <1>1, <1>2, <3>1
  <2> QED BY <2>1 DEF With
<1> HIDE DEF w
<1>5. \A i \in 1..n : s[i] # x /\ s[i] \in DOMAIN h
  BY <1>1
<1>6. w[0] = NULL /\ w[n + 2] = NULL
  <2>1. w[0] = s[0]
    BY <1>1, <1>3
  <2>2. w[n + 2] = s[n + 2 - 1] /\ n + 2 - 1 = n + 1
    BY <1>1, <1>3
  <2> QED BY <1>1, <2>1, <2>2
<1>7. ASSUME NEW i \in 1..(n + 1)
      PROVE  \/ i < k /\ i \in 1..n /\ w[i] = s[i]
             \/ i = k /\ w[i] = x
             \/ i > k /\ i - 1 \in 1..n /\ w[i] = s[i - 1]
  <2>1. i \in 0..(n + 2) /\ (i < k \/ i = k \/ i > k)
    BY <1>1
  <2> QED BY <1>1, <1>3, <2>1
<1>8. \A i \in 1..(n + 1) : w[i] # NULL
  BY <1>2, <1>b, <1>7
<1>9. ASSUME NEW i \in 1..(n + 1), NEW j \in 1..(n + 1), w[i] = w[j] PROVE i = j
  <2>1. \/ i < k /\ i \in 1..n /\ w[i] = s[i]
        \/ i = k /\ w[i] = x
        \/ i > k /\ i - 1 \in 1..n /\ w[i] = s[i - 1]
    BY <1>7
  <2>2. \/ j < k /\ j \in 1..n /\ w[j] = s[j]
        \/ j = k /\ w[j] = x
        \/ j > k /\ j - 1 \in 1..n /\ w[j] = s[j - 1]
    BY <1>7
  <2> QED BY <1>a, <1>b, <1>5, <1>9, <2>1, <2>2
<1>10. DOMAIN g = {w[i] : i \in 1..(n + 1)}
  <2>1. ASSUME NEW i \in 1..(n + 1) PROVE w[i] \in DOMAIN g
    BY <1>5, <1>7
  <2>2. ASSUME NEW m \in DOMAIN g PROVE \E i \in 1..(n + 1) : w[i] = m
    <3>1. CASE m = x
      <4>1. k \in 1..(n + 1) /\ k \in 0..(n + 2) /\ ~(k < k)
        BY <1>1
      <4> QED BY <1>3, <3>1, <4>1
    <3>2. CASE m # x
      <4>1. PICK j \in 1..n : m = s[j]
        BY <1>1, <3>2
      <4>2. CASE j < k
        <5>1. j \in 1..(n + 1) /\ j \in 0..(n + 2)
          BY <1>1
        <5> QED BY <1>3, <4>1, <4>2, <5>1
      <4>3. CASE ~(j < k)
        <5>1. j + 1 \in 1..(n + 1) /\ j + 1 \in 0..(n + 2) /\ ~(j + 1 < k) /\ j + 1 # k /\ j + 1 - 1 = j
          BY <1>1, <4>3
        <5>2. w[j + 1] = s[j]
          BY <1>3, <5>1
        <5> QED BY <4>1, <5>1, <5>2
      <4> QED BY <4>2, <4>3
    <3> QED BY <3>1, <3>2
  <2> QED BY <2>1, <2>2
<1>11. ASSUME NEW i \in 1..(n + 1)
       PROVE  g[w[i]].next = w[i + 1] /\ g[w[i]].prev = w[i - 1]
  <2>1. i + 1 \in 0..(n + 2) /\ i - 1 \in 0..(n + 2) /\ i \in 0..(n + 2)
    BY <1>1
  <2>2. CASE i = k
    <3>1. w[i] = x /\ w[i + 1] = s[i + 1 - 1] /\ w[i - 1] = s[i - 1] /\ i + 1 - 1 = i
      BY <1>3, <2>1, <2>2
    <3> QED BY <2>2, <3>1
  <2>3. CASE i < k
    <3>1. i \in 1..n /\ w[i] = s[i] /\ s[i] \in DOMAIN h
      BY <1>a, <1>3, <1>5, <2>1, <2>3
    <3>2. w[i - 1] = s[i - 1]
      BY <1>3, <2>1, <2>3
    <3>3. w[i + 1] = IF i + 1 = k THEN x ELSE s[i + 1]
      BY <1>3, <2>1, <2>3
    <3>4. s[i] # s[k]
      <4>1. CASE k = n + 1
        BY <1>1, <3>1, <4>1
      <4>2. CASE k # n + 1
        <5>1. k \in 1..n
          BY <1>1, <4>2
        <5> QED BY <1>1, <2>3, <3>1, <5>1
      <4> QED BY <4>1, <4>2
    <3>5. s[i] = s[k - 1] <=> i + 1 = k
      <4>1. k - 1 \in 1..n
        BY <1>1, <2>3
      <4> QED BY <1>1, <3>1, <4>1
    <3>6. /\ g[s[i]].next = IF s[i] = s[k - 1] THEN x ELSE h[s[i]].next
          /\ g[s[i]].prev = IF s[i] = s[k] THEN x ELSE h[s[i]].prev
      BY <3>1
    <3>7. h[s[i]].next = s[i + 1] /\ h[s[i]].prev = s[i - 1]
      BY <1>c, <3>1
    <3> QED BY <3>1, <3>2, <3>3, <3>4, <3>5, <3>6, <3>7
  <2>4. CASE i > k
    <3>1. i - 1 \in 1..n /\ w[i] = s[i - 1] /\ s[i - 1] \in DOMAIN h
      BY <1>a, <1>3, <1>5, <2>1, <2>4
    <3>2. w[i - 1] = IF i - 1 = k THEN x ELSE s[i - 1 - 1]
      BY <1>3, <2>1, <2>4
    <3>3. w[i + 1] = s[i + 1 - 1] /\ i + 1 - 1 = i /\ i = i - 1 + 1
      BY <1>3, <2>1, <2>4
    <3>4. s[i - 1] # s[k - 1]
      <4>1. CASE k = 1
        BY <1>1, <3>1, <4>1
      <4>2. CASE k # 1
        <5>1. k - 1 \in 1..n /\ k - 1 # i - 1
          BY <1>1, <2>4, <4>2
        <5> QED BY <1>1, <3>1, <5>1
      <4> QED BY <4>1, <4>2
    <3>5. s[i - 1] = s[k] <=> i - 1 = k
      <4>1. k \in 1..n
        BY <1>1, <2>4
      <4> QED BY <1>1, <3>1, <4>1
    <3>6. /\ g[s[i - 1]].next = IF s[i - 1] = s[k - 1] THEN x ELSE h[s[i - 1]].next
          /\ g[s[i - 1]].prev = IF s[i - 1] = s[k] THEN x ELSE h[s[i - 1]].prev
      BY <3>1
    <3>7. h[s[i - 1]].next = s[i - 1 + 1] /\ h[s[i - 1]].prev = s[i - 1 - 1]
      BY <1>c, <3>1
    <3> QED BY <3>1, <3>2, <3>3, <3>4, <3>5, <3>6, <3>7
  <2>5. i = k \/ i < k \/ i > k
    BY <1>1
  <2> QED BY <2>2, <2>3, <2>4, <2>5
<1>12. Chain(n + 1, w, g, w[1], w[n + 1])
  <2>1. n + 1 \in Nat /\ n + 1 + 1 = n + 2
    BY <1>1
  <2> QED BY <1>4, <1>6, <1>8, <1>9, <1>10, <1>11, <2>1 DEF Chain
<1>13. /\ w[1] = IF k = 1 THEN x ELSE f
       /\ w[n + 1] = IF k = n + 1 THEN x ELSE l
  <2>1. 1 \in 0..(n + 2) /\ n + 1 \in 0..(n + 2) /\ n + 1 - 1 = n
    BY <1>1
  <2> QED BY <1>1, <1>3, <2>1
<1>14. ASSUME NEW i \in 1..(n + 1)
       PROVE  Data(n + 1, w, g)[i] = IF i < k THEN Data(n, s, h)[i]
                                     ELSE IF i = k THEN g[x].data ELSE Data(n, s, h)[i - 1]
  <2>1. Data(n + 1, w, g)[i] = g[w[i]].data
    BY DEF Data
  <2>2. \A j \in 1..n : Data(n, s, h)[j] = h[s[j]].data /\ g[s[j]].data = h[s[j]].data
    BY <1>5 DEF Data
  <2> QED BY <1>a, <1>7, <2>1, <2>2
<1> QED BY <1>12, <1>13, <1>14 DEF w

\* A node less.
LEMMA ChainWithout ==
  ASSUME NEW n, NEW s, NEW h, NEW f, NEW l, Chain(n, s, h, f, l),
         NEW k \in 1..n,
         NEW g \in [DOMAIN h \ {s[k]} -> Field],
         \A m \in DOMAIN h \ {s[k]} :
            /\ g[m].next = IF m = s[k - 1] THEN s[k + 1] ELSE h[m].next
            /\ g[m].prev = IF m = s[k + 1] THEN s[k - 1] ELSE h[m].prev
            /\ g[m].data = h[m].data
  PROVE  LET w == Without(n, s, k)
         IN  /\ Chain(n - 1, w, g, w[1], w[n - 1])
             /\ w[1] = IF k = 1 THEN s[2] ELSE f
             /\ w[n - 1] = IF k = n THEN s[n - 1] ELSE l
             /\ \A i \in 1..(n - 1) :
                  Data(n - 1, w, g)[i] = IF i < k THEN Data(n, s, h)[i] ELSE Data(n, s, h)[i + 1]
<1> DEFINE w == Without(n, s, k)
<1>a. n \in Nat
  BY DEF Chain
<1>b. (\A i \in 1..n : s[i] # NULL) /\ \A i, j \in 1..n : s[i] = s[j] => i = j
  BY DEF Chain
<1>c. \A i \in 1..n : h[s[i]].next = s[i + 1] /\ h[s[i]].prev = s[i - 1]
  BY DEF Chain
<1>1. n \in Nat /\ s \in [0..(n + 1) -> Pointer] /\ s[0] = NULL /\ s[n + 1] = NULL
      /\ (\A i \in 1..n : s[i] # NULL) /\ (\A i, j \in 1..n : s[i] = s[j] => i = j)
      /\ DOMAIN h = {s[i] : i \in 1..n}
      /\ (\A i \in 1..n : h[s[i]].next = s[i + 1] /\ h[s[i]].prev = s[i - 1])
      /\ f = s[1] /\ l = s[n]
  BY DEF Chain
<1>3. \A i \in 0..n : w[i] = IF i < k THEN s[i] ELSE s[i + 1]
  BY DEF Without
<1>4. w \in [0..n -> Pointer]
  <2>1. ASSUME NEW i \in 0..n PROVE (IF i < k THEN s[i] ELSE s[i + 1]) \in Pointer
    <3>1. i \in 0..(n + 1) /\ i + 1 \in 0..(n + 1)
      BY <1>1
    <3> QED BY <1>1, <3>1
  <2> QED BY <2>1 DEF Without
<1> HIDE DEF w
<1>5. \A i \in 1..n : i # k => s[i] \in DOMAIN g
  BY <1>1
<1>6. w[0] = NULL /\ w[n] = NULL
  BY <1>1, <1>3
<1>7. ASSUME NEW i \in 1..(n - 1)
      PROVE  \/ i < k /\ i \in 1..n /\ w[i] = s[i]
             \/ i >= k /\ i + 1 \in 1..n /\ i + 1 # k /\ w[i] = s[i + 1]
  <2>1. i \in 0..n /\ (i < k \/ i >= k)
    BY <1>1
  <2> QED BY <1>1, <1>3, <2>1
<1>8. \A i \in 1..(n - 1) : w[i] # NULL
  BY <1>b, <1>7
<1>9. ASSUME NEW i \in 1..(n - 1), NEW j \in 1..(n - 1), w[i] = w[j] PROVE i = j
  <2>1. \/ i < k /\ i \in 1..n /\ w[i] = s[i]
        \/ i >= k /\ i + 1 \in 1..n /\ w[i] = s[i + 1]
    BY <1>7
  <2>2. \/ j < k /\ j \in 1..n /\ w[j] = s[j]
        \/ j >= k /\ j + 1 \in 1..n /\ w[j] = s[j + 1]
    BY <1>7
  <2> QED BY <1>a, <1>b, <1>9, <2>1, <2>2
<1>10. DOMAIN g = {w[i] : i \in 1..(n - 1)}
  <2>1. ASSUME NEW i \in 1..(n - 1) PROVE w[i] \in DOMAIN g
    BY <1>5, <1>7
  <2>2. ASSUME NEW m \in DOMAIN g PROVE \E i \in 1..(n - 1) : w[i] = m
    <3>1. PICK j \in 1..n : m = s[j] /\ j # k
      BY <1>1
    <3>2. CASE j < k
      <4>1. j \in 1..(n - 1) /\ j \in 0..n
        BY <1>1, <3>2
      <4> QED BY <1>3, <3>1, <3>2, <4>1
    <3>3. CASE ~(j < k)
      <4>1. j - 1 \in 1..(n - 1) /\ j - 1 \in 0..n /\ ~(j - 1 < k) /\ j - 1 + 1 = j
        BY <1>1, <3>1, <3>3
      <4>2. w[j - 1] = s[j]
        BY <1>3, <4>1
      <4> QED BY <3>1, <4>1, <4>2
    <3> QED BY <3>2, <3>3
  <2> QED BY <2>1, <2>2
<1>11. ASSUME NEW i \in 1..(n - 1)
       PROVE  g[w[i]].next = w[i + 1] /\ g[w[i]].prev = w[i - 1]
  <2>1. i + 1 \in 0..n /\ i - 1 \in 0..n /\ i \in 0..n
    BY <1>1
  <2>2. CASE i < k
    <3>1. i \in 1..n /\ w[i] = s[i] /\ s[i] \in DOMAIN h \ {s[k]}
      BY <1>1, <1>3, <2>1, <2>2
    <3>2. w[i - 1] = s[i - 1]
      BY <1>3, <2>1, <2>2
    <3>3. w[i + 1] = IF i + 1 = k THEN s[k + 1] ELSE s[i + 1]
      BY <1>3, <2>1, <2>2
    <3>4. s[i] # s[k + 1]
      <4>1. CASE k = n
        BY <1>1, <3>1, <4>1
      <4>2. CASE k # n
        <5>1. k + 1 \in 1..n /\ k + 1 # i
          BY <1>1, <2>2, <4>2
        <5> QED BY <1>1, <3>1, <5>1
      <4> QED BY <4>1, <4>2
    <3>5. s[i] = s[k - 1] <=> i + 1 = k
      <4>1. k - 1 \in 1..n
        BY <1>1, <2>2
      <4> QED BY <1>1, <3>1, <4>1
    <3>6. /\ g[s[i]].next = IF s[i] = s[k - 1] THEN s[k + 1] ELSE h[s[i]].next
          /\ g[s[i]].prev = IF s[i] = s[k + 1] THEN s[k - 1] ELSE h[s[i]].prev
      BY <3>1
    <3>7. h[s[i]].next = s[i + 1] /\ h[s[i]].prev = s[i - 1]
      BY <1>c, <3>1
    <3> QED BY <3>1, <3>2, <3>3, <3>4, <3>5, <3>6, <3>7
  <2>3. CASE i >= k
    <3>1. i + 1 \in 1..n /\ w[i] = s[i + 1] /\ s[i + 1] \in DOMAIN h \ {s[k]}
      BY <1>1, <1>3, <2>1, <2>3
    <3>2. w[i - 1] = IF i = k THEN s[k - 1] ELSE s[i - 1 + 1]
      BY <1>3, <2>1, <2>3
    <3>3. w[i + 1] = s[i + 1 + 1] /\ i - 1 + 1 = i /\ i + 1 - 1 = i
      BY <1>3, <2>1, <2>3
    <3>4. s[i + 1] # s[k - 1]
      <4>1. CASE k = 1
        BY <1>1, <3>1, <4>1
      <4>2. CASE k # 1
        <5>1. k - 1 \in 1..n /\ k - 1 # i + 1
          BY <1>1, <2>3, <4>2
        <5> QED BY <1>1, <3>1, <5>1
      <4> QED BY <4>1, <4>2
    <3>5. s[i + 1] = s[k + 1] <=> i = k
      <4>1. k + 1 \in 1..n
        BY <1>1, <2>3
      <4> QED BY <1>1, <3>1, <4>1
    <3>6. /\ g[s[i + 1]].next = IF s[i + 1] = s[k - 1] THEN s[k + 1] ELSE h[s[i + 1]].next
          /\ g[s[i + 1]].prev = IF s[i + 1] = s[k + 1] THEN s[k - 1] ELSE h[s[i + 1]].prev
      BY <3>1
    <3>7. h[s[i + 1]].next = s[i + 1 + 1] /\ h[s[i + 1]].prev = s[i + 1 - 1]
      BY <1>c, <3>1
    <3> QED BY <3>1, <3>2, <3>3, <3>4, <3>5, <3>6, <3>7
  <2>4. i < k \/ i >= k
    BY <1>1
  <2> QED BY <2>2, <2>3, <2>4
<1>12. Chain(n - 1, w, g, w[1], w[n - 1])
  <2>1. n - 1 \in Nat /\ n - 1 + 1 = n
    BY <1>1
  <2> QED BY <1>4, <1>6, <1>8, <1>9, <1>10, <1>11, <2>1 DEF Chain
<1>13. /\ w[1] = IF k = 1 THEN s[2] ELSE f
       /\ w[n - 1] = IF k = n THEN s[n - 1] ELSE l
  <2>1. 1 \in 0..n /\ n - 1 \in 0..n /\ n - 1 + 1 = n
    BY <1>1
  <2> QED BY <1>1, <1>3, <2>1
<1>14. ASSUME NEW i \in 1..(n - 1)
       PROVE  Data(n - 1, w, g)[i] = IF i < k THEN Data(n, s, h)[i] ELSE Data(n, s, h)[i + 1]
  <2>1. Data(n - 1, w, g)[i] = g[w[i]].data
    BY DEF Data
  <2>2. \A j \in 1..n : Data(n, s, h)[j] = h[s[j]].data /\ (j # k => g[s[j]].data = h[s[j]].data)
    BY <1>5 DEF Data
  <2> QED BY <1>a, <1>7, <2>1, <2>2
<1> QED BY <1>12, <1>13, <1>14 DEF w

-----------------------------------------------------------------------------
(* Walks *)

\* Linked!Walk on any heap.
WalkIn(h, start, link) ==
    LET at[i \in 0..Linked!Most] ==
          IF i = 0 THEN start
          ELSE LET p == at[i - 1] IN IF p \in DOMAIN h THEN h[p][link] ELSE p
    IN  at

\* A step of a walk.
Onward(h, link, p) == IF p \in DOMAIN h THEN h[p][link] ELSE p

Walks(h, start, link, f, m) ==
    f = [i \in 0..m |-> IF i = 0 THEN start ELSE Onward(h, link, f[i - 1])]

\* The recursion has a solution, for any number of steps.
LEMMA WalkIs ==
  ASSUME NEW h, NEW start, NEW link
  PROVE  LET w == WalkIn(h, start, link)
         IN  /\ w[0] = start
             /\ \A i \in 0..(Linked!Most - 1) :
                  w[i + 1] = IF w[i] \in DOMAIN h THEN h[w[i]][link] ELSE w[i]
<1> DEFINE T == {m \in Nat : \E f : Walks(h, start, link, f, m)}
<1>1. 0 \in T
  <2>1. Walks(h, start, link, [i \in 0..0 |-> start], 0)
    BY DEF Walks
  <2> QED BY <2>1
<1>2. ASSUME NEW m \in Nat, m \in T PROVE m + 1 \in T
  <2>1. PICK f : Walks(h, start, link, f, m)
    BY <1>2
  <2> DEFINE g == [i \in 0..(m + 1) |-> IF i = m + 1 THEN Onward(h, link, f[m]) ELSE f[i]]
             k == [i \in 0..(m + 1) |-> IF i = 0 THEN start ELSE Onward(h, link, g[i - 1])]
  <2>2. ASSUME NEW i \in 0..(m + 1) PROVE g[i] = k[i]
    <3>1. CASE i = m + 1
      <4>1. i - 1 = m /\ m \in 0..(m + 1) /\ m # m + 1 /\ i # 0
        BY <3>1
      <4>2. g[m] = f[m] /\ g[i] = Onward(h, link, f[m])
        BY <3>1, <4>1
      <4>3. k[i] = Onward(h, link, g[m])
        BY <4>1
      <4> QED BY <4>2, <4>3
    <3>2. CASE i = 0
      <4>1. i \in 0..m /\ i # m + 1
        BY <3>2
      <4>2. f[i] = start
        BY <2>1, <3>2, <4>1 DEF Walks
      <4> QED BY <3>2, <4>1, <4>2
    <3>3. CASE i \in 1..m
      <4>1. i \in 0..m /\ i # m + 1 /\ i # 0 /\ i - 1 \in 0..(m + 1) /\ i - 1 # m + 1
        BY <3>3
      <4>2. f[i] = Onward(h, link, f[i - 1])
        BY <2>1, <4>1 DEF Walks
      <4> QED BY <4>1, <4>2
    <3> QED BY <3>1, <3>2, <3>3
  <2>3. g = k
    BY <2>2
  <2>4. Walks(h, start, link, g, m + 1)
    BY <2>3 DEF Walks
  <2> QED BY <2>4
<1>3. Linked!Most \in T
  BY <1>1, <1>2, Induct, NodeFacts
<1>4. PICK f : Walks(h, start, link, f, Linked!Most)
  BY <1>3
<1> DEFINE at[i \in 0..Linked!Most] ==
             IF i = 0 THEN start
             ELSE LET p == at[i - 1] IN IF p \in DOMAIN h THEN h[p][link] ELSE p
<1>5. WalkIn(h, start, link) = at
  BY DEF WalkIn
<1>6. at = [i \in 0..Linked!Most |->
             IF i = 0 THEN start
             ELSE LET p == at[i - 1] IN IF p \in DOMAIN h THEN h[p][link] ELSE p]
  BY <1>4 DEF Walks, Onward
<1> HIDE DEF at
<1>7. at = [i \in 0..Linked!Most |-> IF i = 0 THEN start ELSE Onward(h, link, at[i - 1])]
  BY <1>6 DEF Onward
<1>8. at[0] = start
  BY <1>7, NodeFacts
<1>9. ASSUME NEW i \in 0..(Linked!Most - 1)
      PROVE  at[i + 1] = IF at[i] \in DOMAIN h THEN h[at[i]][link] ELSE at[i]
  <2>1. i + 1 \in 0..Linked!Most /\ i + 1 # 0 /\ i + 1 - 1 = i
    BY NodeFacts
  <2> DEFINE k == i + 1
  <2> HIDE DEF k
  <2>2. k \in 0..Linked!Most /\ k # 0 /\ k - 1 = i
    BY <2>1 DEF k
  <2>3. at[k] = Onward(h, link, at[k - 1])
    BY <1>7, <2>2
  <2> QED BY <2>2, <2>3 DEF Onward, k
<1> QED BY <1>5, <1>8, <1>9

\* A chain has no more nodes than there are,
LEMMA ChainFits ==
  ASSUME NEW n, NEW s, NEW h, NEW f, NEW l, Chain(n, s, h, f, l), DOMAIN h \subseteq Node
  PROVE  n <= Linked!Most /\ IsFiniteSet(DOMAIN h) /\ Cardinality(DOMAIN h) = n
<1>1. n \in Nat /\ DOMAIN h = {s[i] : i \in 1..n} /\ (\A i, j \in 1..n : s[i] = s[j] => i = j)
  BY DEF Chain
<1>2. IsFiniteSet(1..n) /\ Cardinality(1..n) = n
  <2>1. IsFiniteSet(1..n) /\ Cardinality(1..n) = IF 1 > n THEN 0 ELSE n - 1 + 1
    BY <1>1, FS_Interval, SMTT(30)
  <2> QED BY <1>1, <2>1
<1> DEFINE b == [i \in 1..n |-> s[i]]
<1>3. b \in Bijection(1..n, DOMAIN h)
  BY <1>1 DEF Bijection, Injection, Surjection, IsInjective
<1>4. IsFiniteSet(DOMAIN h) /\ Cardinality(DOMAIN h) = n
  <2>1. \E g \in Bijection(1..n, DOMAIN h) : TRUE
    BY <1>3
  <2>2. ExistsBijection(1..n, DOMAIN h)
    BY <2>1 DEF ExistsBijection
  <2> QED BY <1>2, <2>2, FS_Bijection
<1>5. Cardinality(DOMAIN h) <= Cardinality(Node)
  BY FS_Subset, NodeFacts
<1> QED BY <1>4, <1>5, NodeFacts

\* and the walks along it visit them from the front
LEMMA ForwardIs ==
  ASSUME NEW n, NEW s, NEW h, NEW f, NEW l, Chain(n, s, h, f, l), n <= Linked!Most
  PROVE  LET w == WalkIn(h, f, "next")
         IN  \A i \in 0..Linked!Most : w[i] = IF i <= n THEN s[i + 1] ELSE NULL
<1> DEFINE w == WalkIn(h, f, "next")
           T == {i \in Nat : i <= Linked!Most => w[i] = IF i <= n THEN s[i + 1] ELSE NULL}
<1>0. w[0] = f /\ \A i \in 0..(Linked!Most - 1) :
                    w[i + 1] = IF w[i] \in DOMAIN h THEN h[w[i]]["next"] ELSE w[i]
  BY WalkIs
<1> HIDE DEF w
<1>1. n \in Nat /\ s[n + 1] = NULL /\ f = s[1] /\ Linked!Most \in Nat
  BY NodeFacts DEF Chain
<1>2. NULL \notin DOMAIN h
  BY DEF Chain
<1>3. 0 \in T
  BY <1>0, <1>1
<1>4. ASSUME NEW i \in Nat, i \in T PROVE i + 1 \in T
  <2>1. SUFFICES ASSUME i + 1 <= Linked!Most
                 PROVE  w[i + 1] = IF i + 1 <= n THEN s[i + 1 + 1] ELSE NULL
    BY <1>1
  <2>2. i \in 0..(Linked!Most - 1) /\ w[i] = (IF i <= n THEN s[i + 1] ELSE NULL)
    BY <1>1, <1>4, <2>1
  <2>3. CASE i < n
    <3>1. i + 1 \in 1..n /\ w[i] = s[i + 1]
      BY <1>1, <2>2, <2>3
    <3>2. s[i + 1] \in DOMAIN h /\ h[s[i + 1]].next = s[i + 1 + 1]
      BY <3>1 DEF Chain
    <3> QED BY <1>0, <2>2, <3>1, <3>2
  <2>4. CASE i >= n
    <3>1. w[i] = NULL
      BY <1>1, <2>2, <2>4
    <3> QED BY <1>0, <1>1, <1>2, <2>2, <2>4, <3>1
  <2> QED BY <1>1, <2>3, <2>4
<1> HIDE DEF T
<1>5. \A i \in Nat : i \in T
  BY <1>3, <1>4, Induct
<1> QED BY <1>1, <1>5 DEF T, w

\* and from the back.
LEMMA BackwardIs ==
  ASSUME NEW n, NEW s, NEW h, NEW f, NEW l, Chain(n, s, h, f, l), n <= Linked!Most
  PROVE  LET w == WalkIn(h, l, "prev")
         IN  \A i \in 0..Linked!Most : w[i] = IF i <= n THEN s[n - i] ELSE NULL
<1> DEFINE w == WalkIn(h, l, "prev")
           T == {i \in Nat : i <= Linked!Most => w[i] = IF i <= n THEN s[n - i] ELSE NULL}
<1>0. w[0] = l /\ \A i \in 0..(Linked!Most - 1) :
                    w[i + 1] = IF w[i] \in DOMAIN h THEN h[w[i]]["prev"] ELSE w[i]
  BY WalkIs
<1> HIDE DEF w
<1>1. n \in Nat /\ s[0] = NULL /\ l = s[n] /\ Linked!Most \in Nat
  BY NodeFacts DEF Chain
<1>2. NULL \notin DOMAIN h
  BY DEF Chain
<1>3. 0 \in T
  BY <1>0, <1>1
<1>4. ASSUME NEW i \in Nat, i \in T PROVE i + 1 \in T
  <2>1. SUFFICES ASSUME i + 1 <= Linked!Most
                 PROVE  w[i + 1] = IF i + 1 <= n THEN s[n - (i + 1)] ELSE NULL
    BY <1>1
  <2>2. i \in 0..(Linked!Most - 1) /\ w[i] = (IF i <= n THEN s[n - i] ELSE NULL)
    BY <1>1, <1>4, <2>1
  <2>3. CASE i < n
    <3>1. n - i \in 1..n /\ w[i] = s[n - i] /\ n - i - 1 = n - (i + 1)
      BY <1>1, <2>2, <2>3
    <3>2. s[n - i] \in DOMAIN h /\ h[s[n - i]].prev = s[n - i - 1]
      BY <3>1 DEF Chain
    <3>3. w[i + 1] = s[n - (i + 1)]
      BY <1>0, <2>2, <3>1, <3>2
    <3> QED BY <1>1, <2>3, <3>3
  <2>4. CASE i >= n
    <3>1. w[i] = NULL
      BY <1>1, <2>2, <2>4
    <3> QED BY <1>0, <1>1, <1>2, <2>2, <2>4, <3>1
  <2> QED BY <1>1, <2>3, <2>4
<1> HIDE DEF T
<1>5. \A i \in Nat : i \in T
  BY <1>3, <1>4, Induct
<1> QED BY <1>1, <1>5 DEF T, w

-----------------------------------------------------------------------------
(* What the operators of LinkedList are for a chain *)

CountIn(h, f) ==
    Cardinality({i \in 0..(Linked!Most - 1) : WalkIn(h, f, "next")[i] \in DOMAIN h})

ContentsIn(h, f) == [i \in 1..CountIn(h, f) |-> h[WalkIn(h, f, "next")[i - 1]].data]

\* Now and in the next state.
LEMMA WalksIn ==
  /\ Linked!Forward = WalkIn(heap, first, "next")
  /\ Linked!Backward = WalkIn(heap, last, "prev")
  /\ Linked!Count = CountIn(heap, first)
  /\ Linked!Contents = ContentsIn(heap, first)
  /\ Linked!Forward' = WalkIn(heap', first', "next")
  /\ Linked!Contents' = ContentsIn(heap', first')
<1>1. \A S : Linked!Cardinality(S) = Cardinality(S)
  BY DEF Linked!Cardinality, Cardinality
<1>2. /\ Linked!Forward = WalkIn(heap, first, "next")
      /\ Linked!Backward = WalkIn(heap, last, "prev")
      /\ Linked!Forward' = WalkIn(heap', first', "next")
  BY DEF Linked!Forward, Linked!Backward, Linked!Walk, WalkIn, Linked!Live
<1>3. /\ Linked!Count = CountIn(heap, first)
      /\ Linked!Count' = CountIn(heap', first')
  BY <1>1, <1>2 DEF Linked!Count, CountIn, Linked!Live
<1>4. /\ Linked!Contents = ContentsIn(heap, first)
      /\ Linked!Contents' = ContentsIn(heap', first')
  BY <1>2, <1>3 DEF Linked!Contents, ContentsIn
<1> QED BY <1>2, <1>3, <1>4

\* The elements of a chain.
LEMMA DataIs ==
  ASSUME NEW n, NEW s, NEW h, NEW f, NEW l, Chain(n, s, h, f, l), DOMAIN h \subseteq Node
  PROVE  /\ CountIn(h, f) = n
         /\ ContentsIn(h, f) = Data(n, s, h)
         /\ Data(n, s, h) \in Seq(Elem) /\ Len(Data(n, s, h)) = n
         /\ \A i \in 1..n : Data(n, s, h)[i] = h[s[i]].data /\ h[s[i]].data \in Elem
<1>1. n \in Nat /\ s[n + 1] = NULL /\ DOMAIN h = {s[i] : i \in 1..n}
      /\ h \in [DOMAIN h -> Field]
  BY DEF Chain
<1>2. n <= Linked!Most
  BY ChainFits
<1>3. \A i \in 0..Linked!Most : WalkIn(h, f, "next")[i] = IF i <= n THEN s[i + 1] ELSE NULL
  BY <1>2, ForwardIs
<1>4. {i \in 0..(Linked!Most - 1) : WalkIn(h, f, "next")[i] \in DOMAIN h} = 0..(n - 1)
  <2>1. ASSUME NEW i \in 0..(Linked!Most - 1), WalkIn(h, f, "next")[i] \in DOMAIN h
        PROVE  i \in 0..(n - 1)
    <3>1. NULL \notin DOMAIN h
      BY NodeFacts
    <3>2. i \in 0..Linked!Most /\ i \in Nat
      BY NodeFacts
    <3>3. CASE i < n
      BY <1>1, <3>2, <3>3
    <3>4. CASE i = n
      BY <1>1, <1>3, <2>1, <3>1, <3>2, <3>4
    <3>5. CASE i > n
      BY <1>1, <1>3, <2>1, <3>1, <3>2, <3>5
    <3> QED BY <1>1, <3>2, <3>3, <3>4, <3>5
  <2>2. ASSUME NEW i \in 0..(n - 1)
        PROVE  i \in 0..(Linked!Most - 1) /\ WalkIn(h, f, "next")[i] \in DOMAIN h
    <3>1. i \in 0..(Linked!Most - 1) /\ i \in 0..Linked!Most /\ i <= n /\ i + 1 \in 1..n
      BY <1>1, <1>2, NodeFacts
    <3>2. WalkIn(h, f, "next")[i] = s[i + 1] /\ s[i + 1] \in DOMAIN h
      BY <1>1, <1>3, <3>1
    <3> QED BY <3>1, <3>2
  <2> QED BY <2>1, <2>2
<1>5. CountIn(h, f) = n
  <2> DEFINE b == n - 1
  <2>1. b \in Int
    BY <1>1
  <2> HIDE DEF b
  <2>2. Cardinality(0..b) = IF 0 > b THEN 0 ELSE b - 0 + 1
    BY <2>1, FS_Interval
  <2>3. Cardinality(0..b) = n
    BY <1>1, <2>2 DEF b
  <2> QED BY <1>4, <2>3 DEF CountIn, b
<1>6. ASSUME NEW i \in 1..n
      PROVE  WalkIn(h, f, "next")[i - 1] = s[i] /\ s[i] \in DOMAIN h /\ h[s[i]].data \in Elem
  <2>1. i - 1 \in 0..Linked!Most /\ i - 1 <= n /\ i - 1 + 1 = i
    BY <1>1, <1>2, NodeFacts
  <2>2. s[i] \in DOMAIN h
    BY <1>1
  <2>3. h[s[i]] \in Field
    BY <1>1, <2>2
  <2> QED BY <1>3, <2>1, <2>2, <2>3 DEF Field, Linked!Field
<1>7. ContentsIn(h, f) = Data(n, s, h)
  BY <1>5, <1>6 DEF ContentsIn, Data
<1>8. \A i \in 1..n : Data(n, s, h)[i] = h[s[i]].data /\ h[s[i]].data \in Elem
  BY <1>6 DEF Data
<1>9. Data(n, s, h) \in Seq(Elem) /\ Len(Data(n, s, h)) = n
  <2> DEFINE d == Data(n, s, h)
  <2>1. d = [i \in 1..n |-> d[i]] /\ \A i \in 1..n : d[i] \in Elem
    BY <1>8 DEF Data
  <2> HIDE DEF d
  <2>2. d \in Seq(Elem) /\ Len(d) = n
    BY <1>1, <2>1
  <2> QED BY <2>2 DEF d
<1> QED BY <1>5, <1>7, <1>8, <1>9

\* The elements before a step.
LEMMA ContentsNow ==
  ASSUME NEW n, NEW s, Chain(n, s, heap, first, last), DOMAIN heap \subseteq Node
  PROVE  /\ Linked!Contents = Data(n, s, heap)
         /\ Linked!Contents \in Seq(Elem) /\ Len(Linked!Contents) = n
         /\ n \in Nat /\ Linked!Count = n
         /\ \A i \in 1..n : Linked!Contents[i] = heap[s[i]].data
<1>1. /\ CountIn(heap, first) = n /\ ContentsIn(heap, first) = Data(n, s, heap)
      /\ Data(n, s, heap) \in Seq(Elem) /\ Len(Data(n, s, heap)) = n
      /\ \A i \in 1..n : Data(n, s, heap)[i] = heap[s[i]].data
  BY DataIs
<1>2. n \in Nat
  BY DEF Chain
<1> QED BY <1>1, <1>2, WalksIn

\* The same after a step.
LEMMA ContentsNext ==
  ASSUME NEW n, NEW s, Chain(n, s, heap', first', last'), DOMAIN heap' \subseteq Node
  PROVE  /\ Linked!Contents' = Data(n, s, heap')
         /\ Linked!Contents' \in Seq(Elem) /\ Len(Linked!Contents') = n
BY DataIs, WalksIn

\* The walks of a chain end, and every position has its node.
LEMMA WalksNow ==
  ASSUME NEW n, NEW s, Chain(n, s, heap, first, last), DOMAIN heap \subseteq Node
  PROVE  /\ n \in 0..Linked!Most
         /\ \A i \in 0..Linked!Most : Linked!Forward[i] = IF i <= n THEN s[i + 1] ELSE NULL
         /\ \A i \in 0..Linked!Most : Linked!Backward[i] = IF i <= n THEN s[n - i] ELSE NULL
         /\ Linked!WalkEnds /\ ~Linked!Cyclic
         /\ \A pos \in 0..(n - 1) : Linked!NodeAt(pos) = s[pos + 1]
<1>1. n \in Nat /\ s[n + 1] = NULL /\ n <= Linked!Most /\ Linked!Most \in Nat
  BY ChainFits, NodeFacts DEF Chain
<1>2. \A i \in 0..Linked!Most : Linked!Forward[i] = IF i <= n THEN s[i + 1] ELSE NULL
  BY <1>1, ForwardIs, WalksIn
<1>3. \A i \in 0..Linked!Most : Linked!Backward[i] = IF i <= n THEN s[n - i] ELSE NULL
  BY <1>1, BackwardIs, WalksIn
<1>4. Linked!Forward[Linked!Most] = NULL
  <2>1. Linked!Most \in 0..Linked!Most
    BY <1>1
  <2> QED BY <1>1, <1>2, <2>1
<1>5. Linked!WalkEnds /\ ~Linked!Cyclic
  BY <1>4, NodeFacts DEF Linked!WalkEnds, Linked!Cyclic, Linked!Live
<1>6. ASSUME NEW pos \in 0..(n - 1) PROVE Linked!NodeAt(pos) = s[pos + 1]
  <2>1. Linked!Count = n
    BY ContentsNow
  <2>2. pos \in 0..Linked!Most /\ pos <= n
    BY <1>1
  <2>3. n - 1 - pos \in 0..Linked!Most /\ n - 1 - pos <= n /\ n - (n - 1 - pos) = pos + 1
    BY <1>1
  <2>4. Linked!Forward[pos] = s[pos + 1]
    BY <1>2, <2>2
  <2>5. Linked!Backward[n - 1 - pos] = s[pos + 1]
    <3> DEFINE j == n - 1 - pos
    <3>1. Linked!Backward[j] = s[n - j]
      BY <1>3, <2>3
    <3> QED BY <2>3, <3>1
  <2> QED BY <2>1, <2>4, <2>5 DEF Linked!NodeAt
<1> QED BY <1>1, <1>2, <1>3, <1>5, <1>6

-----------------------------------------------------------------------------
(* Nodes that leave a chain *)

\* What _llnode_free writes, in the places of the chain.
LEMMA FreedAt ==
  ASSUME NEW n, NEW s, NEW h, NEW f, NEW l, Chain(n, s, h, f, l), NEW k \in 1..n
  PROVE  LET g == Linked!Freed(h, s[k])
         IN  \A m \in DOMAIN h \ {s[k]} :
               /\ g[m].next = IF m = s[k - 1] THEN NULL ELSE h[m].next
               /\ g[m].prev = IF m = s[k + 1] THEN NULL ELSE h[m].prev
               /\ g[m].data = h[m].data
<1>1. /\ s[k] \in DOMAIN h
      /\ h[s[k]].next = s[k + 1] /\ h[s[k]].prev = s[k - 1] /\ s[k + 1] # s[k]
  BY ChainNode
<1>2. h \in [DOMAIN h -> Field]
  BY DEF Chain
<1> QED BY <1>1, <1>2, FreedIs

\* An end of a chain is freed.
LEMMA ChainFreed ==
  ASSUME NEW n, NEW s, NEW h, NEW f, NEW l, Chain(n, s, h, f, l), NEW k \in 1..n, k = 1 \/ k = n
  PROVE  LET g == Linked!Freed(h, s[k])
         IN  \A m \in DOMAIN h \ {s[k]} :
               /\ g[m].next = IF m = s[k - 1] THEN s[k + 1] ELSE h[m].next
               /\ g[m].prev = IF m = s[k + 1] THEN s[k - 1] ELSE h[m].prev
               /\ g[m].data = h[m].data
<1>1. /\ k = n => s[k + 1] = NULL
      /\ k = 1 => s[k - 1] = NULL
  BY ChainNode
<1>2. NULL \notin DOMAIN h
  BY DEF Chain
<1> QED BY <1>1, <1>2, FreedAt

\* A node away from the ends is freed, and its neighbours are linked.
LEMMA ChainCut ==
  ASSUME NEW n, NEW s, NEW h, NEW f, NEW l, Chain(n, s, h, f, l), NEW k \in 1..n
  PROVE  LET g == Linked!Put(Linked!Put(Linked!Freed(h, s[k]), s[k - 1], "next", s[k + 1]),
                             s[k + 1], "prev", s[k - 1])
         IN  \A m \in DOMAIN h \ {s[k]} :
               /\ g[m].next = IF m = s[k - 1] THEN s[k + 1] ELSE h[m].next
               /\ g[m].prev = IF m = s[k + 1] THEN s[k - 1] ELSE h[m].prev
               /\ g[m].data = h[m].data
<1> DEFINE D == DOMAIN h \ {s[k]}
           g0 == Linked!Freed(h, s[k])
           g1 == Linked!Put(g0, s[k - 1], "next", s[k + 1])
           g2 == Linked!Put(g1, s[k + 1], "prev", s[k - 1])
<1>1. s[k] \in DOMAIN h
  BY ChainNode
<1>2. h \in [DOMAIN h -> Field] /\ n \in Nat /\ s \in [0..(n + 1) -> Pointer]
  BY DEF Chain
<1>3. g0 \in [D -> Field]
  BY <1>1, <1>2, FreedTyped
<1>4. \A m \in D :
        /\ g0[m].next = IF m = s[k - 1] THEN NULL ELSE h[m].next
        /\ g0[m].prev = IF m = s[k + 1] THEN NULL ELSE h[m].prev
        /\ g0[m].data = h[m].data
  BY FreedAt
<1>5. s[k - 1] \in Pointer /\ s[k + 1] \in Pointer
  <2>1. k - 1 \in 0..(n + 1) /\ k + 1 \in 0..(n + 1)
    BY <1>2
  <2> QED BY <1>2, <2>1
<1> HIDE DEF g0, D
<1>6. /\ g1 \in [D -> Field]
      /\ \A m \in D : /\ g1[m].next = IF m = s[k - 1] THEN s[k + 1] ELSE g0[m].next
                      /\ g1[m].prev = g0[m].prev /\ g1[m].data = g0[m].data
  BY <1>3, <1>5, PutNext
<1> HIDE DEF g1
<1>7. \A m \in D : /\ g2[m].prev = IF m = s[k + 1] THEN s[k - 1] ELSE g1[m].prev
                   /\ g2[m].next = g1[m].next /\ g2[m].data = g1[m].data
  BY <1>5, <1>6, PutPrev
<1> HIDE DEF g2
<1>8. ASSUME NEW m \in D
      PROVE  /\ g2[m].next = IF m = s[k - 1] THEN s[k + 1] ELSE h[m].next
             /\ g2[m].prev = IF m = s[k + 1] THEN s[k - 1] ELSE h[m].prev
             /\ g2[m].data = h[m].data
  BY <1>4, <1>6, <1>7
<1> QED BY <1>8 DEF g0, g1, g2, D

\* What is left when the first node is freed.
LEMMA FrontFreed ==
  ASSUME NEW n, NEW s, NEW h, NEW f, NEW l, Chain(n, s, h, f, l), n # 0
  PROVE  /\ f \in DOMAIN h /\ Linked!Neighbours(h, f) \subseteq DOMAIN h
         /\ \E t, b : Chain(n - 1, t, Linked!Freed(h, f), h[f].next, b)
<1>1. n \in Nat /\ f = s[1] /\ 1 \in 1..n
  BY DEF Chain
<1>2. /\ s[1] \in DOMAIN h
      /\ h[s[1]].next = s[1 + 1] /\ h[s[1]].prev = s[1 - 1]
      /\ IF 1 = n THEN s[1 + 1] = NULL ELSE s[1 + 1] \in DOMAIN h
      /\ s[1 - 1] = NULL
  BY <1>1, ChainNode
<1>3. Linked!Neighbours(h, f) \subseteq DOMAIN h
  BY <1>1, <1>2 DEF Linked!Neighbours
<1> DEFINE g == Linked!Freed(h, s[1])
           w == Without(n, s, 1)
<1>a. g \in [DOMAIN h \ {s[1]} -> Field]
  BY <1>2, FreedTyped DEF Chain
<1>4. \A m \in DOMAIN h \ {s[1]} :
        /\ g[m].next = IF m = s[1 - 1] THEN s[1 + 1] ELSE h[m].next
        /\ g[m].prev = IF m = s[1 + 1] THEN s[1 - 1] ELSE h[m].prev
        /\ g[m].data = h[m].data
  <2> DEFINE k == 1
  <2>1. k \in 1..n /\ (k = 1 \/ k = n)
    BY <1>1
  <2> HIDE DEF k
  <2>2. LET y == Linked!Freed(h, s[k])
        IN  \A m \in DOMAIN h \ {s[k]} :
              /\ y[m].next = IF m = s[k - 1] THEN s[k + 1] ELSE h[m].next
              /\ y[m].prev = IF m = s[k + 1] THEN s[k - 1] ELSE h[m].prev
              /\ y[m].data = h[m].data
    BY <2>1, ChainFreed
  <2> QED BY <2>2 DEF k
<1> HIDE DEF g
<1>5. Chain(n - 1, w, g, w[1], w[n - 1]) /\ w[1] = s[2]
  BY <1>1, <1>a, <1>4, ChainWithout
<1> HIDE DEF w
<1>6. h[f].next = w[1]
  BY <1>1, <1>2, <1>5
<1> QED BY <1>1, <1>2, <1>3, <1>5, <1>6 DEF g

-----------------------------------------------------------------------------
(* linkedlist_free *)

\* A turn of the loop.
Turn(s) ==
    IF /\ s.cur \in DOMAIN s.nodes
       /\ Linked!Neighbours(s.nodes, s.cur) \subseteq DOMAIN s.nodes
    THEN [nodes |-> Linked!Freed(s.nodes, s.cur), cur |-> s.nodes[s.cur].next]
    ELSE s

Turns(f, m) ==
    f = [i \in 0..m |-> IF i = 0 THEN [nodes |-> heap, cur |-> first] ELSE Turn(f[i - 1])]

\* The recursion has a solution, for any number of turns.
LEMMA FreeLoopTurns ==
  \E f : Turns(f, Linked!Most) /\ Linked!FreeLoop = f[Linked!Most]
<1> DEFINE start == [nodes |-> heap, cur |-> first]
           T == {m \in Nat : \E f : Turns(f, m)}
<1>1. 0 \in T
  <2>1. Turns([i \in 0..0 |-> start], 0)
    BY DEF Turns
  <2> QED BY <2>1
<1>2. ASSUME NEW m \in Nat, m \in T PROVE m + 1 \in T
  <2>1. PICK f : Turns(f, m)
    BY <1>2
  <2> DEFINE g == [i \in 0..(m + 1) |-> IF i = m + 1 THEN Turn(f[m]) ELSE f[i]]
             k == [i \in 0..(m + 1) |-> IF i = 0 THEN start ELSE Turn(g[i - 1])]
  <2>2. ASSUME NEW i \in 0..(m + 1) PROVE g[i] = k[i]
    <3>1. CASE i = m + 1
      <4>1. i - 1 = m /\ m \in 0..(m + 1) /\ m # m + 1 /\ i # 0
        BY <3>1
      <4>2. g[m] = f[m] /\ g[i] = Turn(f[m])
        BY <3>1, <4>1
      <4>3. k[i] = Turn(g[m])
        BY <4>1
      <4> QED BY <4>2, <4>3
    <3>2. CASE i = 0
      <4>1. i \in 0..m /\ i # m + 1
        BY <3>2
      <4>2. f[i] = start
        BY <2>1, <3>2, <4>1 DEF Turns
      <4> QED BY <3>2, <4>1, <4>2
    <3>3. CASE i \in 1..m
      <4>1. i \in 0..m /\ i # m + 1 /\ i # 0 /\ i - 1 \in 0..(m + 1) /\ i - 1 # m + 1
        BY <3>3
      <4>2. f[i] = Turn(f[i - 1])
        BY <2>1, <4>1 DEF Turns
      <4> QED BY <4>1, <4>2
    <3> QED BY <3>1, <3>2, <3>3
  <2>3. g = k
    BY <2>2
  <2>4. Turns(g, m + 1)
    BY <2>3 DEF Turns
  <2> QED BY <2>4
<1>3. Linked!Most \in T
  BY <1>1, <1>2, Induct, NodeFacts
<1>4. PICK f : Turns(f, Linked!Most)
  BY <1>3
<1> DEFINE at[i \in 0..Linked!Most] ==
             IF i = 0 THEN [nodes |-> heap, cur |-> first]
             ELSE LET s == at[i - 1]
                  IN  IF /\ s.cur \in DOMAIN s.nodes
                         /\ Linked!Neighbours(s.nodes, s.cur) \subseteq DOMAIN s.nodes
                      THEN [nodes |-> Linked!Freed(s.nodes, s.cur), cur |-> s.nodes[s.cur].next]
                      ELSE s
<1>5. Linked!FreeLoop = at[Linked!Most]
  BY DEF Linked!FreeLoop
<1>6. at = [i \in 0..Linked!Most |->
             IF i = 0 THEN [nodes |-> heap, cur |-> first]
             ELSE LET s == at[i - 1]
                  IN  IF /\ s.cur \in DOMAIN s.nodes
                         /\ Linked!Neighbours(s.nodes, s.cur) \subseteq DOMAIN s.nodes
                      THEN [nodes |-> Linked!Freed(s.nodes, s.cur), cur |-> s.nodes[s.cur].next]
                      ELSE s]
  BY <1>4 DEF Turns, Turn
<1> HIDE DEF at
<1>7. Turns(at, Linked!Most)
  BY <1>6 DEF Turns, Turn
<1> QED BY <1>5, <1>7

\* One turn further.
LEMMA NextTurn ==
  ASSUME NEW f, Turns(f, Linked!Most), NEW i \in Nat, i + 1 <= Linked!Most
  PROVE  f[i + 1] = Turn(f[i])
<1> DEFINE k == i + 1
<1>1. k \in 0..Linked!Most /\ k # 0 /\ k - 1 = i
  BY NodeFacts
<1> HIDE DEF k
<1>2. f[k] = Turn(f[k - 1])
  BY <1>1 DEF Turns
<1> QED BY <1>1, <1>2 DEF k

\* Whatever the pointers are, what the loop leaves are nodes.
LEMMA FreeLoopTyped ==
  ASSUME DOMAIN heap \subseteq Node, heap \in [DOMAIN heap -> Field]
  PROVE  LET g == Linked!FreeLoop.nodes
         IN  DOMAIN g \subseteq Node /\ g \in [DOMAIN g -> Field]
<1>1. PICK f : Turns(f, Linked!Most) /\ Linked!FreeLoop = f[Linked!Most]
  BY FreeLoopTurns
<1> DEFINE OK(h) == DOMAIN h \subseteq Node /\ h \in [DOMAIN h -> Field]
           T == {i \in Nat : i <= Linked!Most => OK(f[i].nodes)}
<1>2. 0 \in T
  <2>1. f[0] = [nodes |-> heap, cur |-> first]
    BY <1>1, NodeFacts DEF Turns
  <2> QED BY <2>1
<1>3. ASSUME NEW i \in Nat, i \in T PROVE i + 1 \in T
  <2>1. SUFFICES ASSUME i + 1 <= Linked!Most PROVE OK(f[i + 1].nodes)
    BY <1>3
  <2>2. OK(f[i].nodes) /\ f[i + 1] = Turn(f[i])
    BY <1>1, <1>3, <2>1, NextTurn, NodeFacts
  <2> DEFINE s == f[i]
  <2> HIDE DEF OK
  <2>3. CASE s.cur \in DOMAIN s.nodes /\ Linked!Neighbours(s.nodes, s.cur) \subseteq DOMAIN s.nodes
    <3>1. f[i + 1].nodes = Linked!Freed(s.nodes, s.cur)
      BY <2>2, <2>3 DEF Turn
    <3>2. Linked!Freed(s.nodes, s.cur) \in [DOMAIN s.nodes \ {s.cur} -> Field]
      BY <2>2, <2>3, FreedTyped DEF OK
    <3> HIDE DEF s
    <3>3. DOMAIN Linked!Freed(s.nodes, s.cur) = DOMAIN s.nodes \ {s.cur}
      BY <3>2
    <3>4. DOMAIN s.nodes \ {s.cur} \subseteq Node
      BY <2>2 DEF OK, s
    <3> QED BY <3>1, <3>2, <3>3, <3>4 DEF OK
  <2>4. CASE ~(s.cur \in DOMAIN s.nodes /\ Linked!Neighbours(s.nodes, s.cur) \subseteq DOMAIN s.nodes)
    <3>1. f[i + 1] = s
      BY <2>2, <2>4 DEF Turn
    <3> QED BY <2>2, <3>1
  <2> QED BY <2>3, <2>4
<1> HIDE DEF T
<1>4. Linked!Most \in T
  BY <1>2, <1>3, Induct, NodeFacts
<1> QED BY <1>1, <1>4, NodeFacts DEF T

\* On a chain it frees every node and ends at NULL.
LEMMA FreeLoopEnds ==
  ASSUME NEW n, NEW s, Chain(n, s, heap, first, last), DOMAIN heap \subseteq Node
  PROVE  Linked!FreeLoop.cur = NULL /\ DOMAIN Linked!FreeLoop.nodes = {}
<1>1. PICK f : Turns(f, Linked!Most) /\ Linked!FreeLoop = f[Linked!Most]
  BY FreeLoopTurns
<1>2. n \in Nat /\ n <= Linked!Most
  BY ChainFits DEF Chain
<1> DEFINE Left(i) == IF i <= n THEN n - i ELSE 0
           T == {i \in Nat : i <= Linked!Most =>
                   \E t, l : Chain(Left(i), t, f[i].nodes, f[i].cur, l)}
<1>3. 0 \in T
  <2>1. f[0] = [nodes |-> heap, cur |-> first]
    BY <1>1, NodeFacts DEF Turns
  <2>2. Left(0) = n
    BY <1>2
  <2> HIDE DEF Left
  <2>3. Chain(Left(0), s, f[0].nodes, f[0].cur, last)
    BY <2>1, <2>2
  <2> QED BY <2>3
<1>4. ASSUME NEW i \in Nat, i \in T PROVE i + 1 \in T
  <2>1. SUFFICES ASSUME i + 1 <= Linked!Most
                 PROVE  \E t, l : Chain(Left(i + 1), t, f[i + 1].nodes, f[i + 1].cur, l)
    BY <1>4
  <2>2. PICK t, l : Chain(Left(i), t, f[i].nodes, f[i].cur, l)
    BY <1>4, <2>1, NodeFacts
  <2>3. f[i + 1] = Turn(f[i])
    BY <1>1, <2>1, NextTurn
  <2>4. CASE i < n
    <3>1. Left(i) # 0 /\ Left(i + 1) = Left(i) - 1
      BY <1>2, <2>4
    <3> HIDE DEF Left
    <3>2. /\ f[i].cur \in DOMAIN f[i].nodes
          /\ Linked!Neighbours(f[i].nodes, f[i].cur) \subseteq DOMAIN f[i].nodes
          /\ \E r, b : Chain(Left(i) - 1, r, Linked!Freed(f[i].nodes, f[i].cur),
                             f[i].nodes[f[i].cur].next, b)
      BY <2>2, <3>1, FrontFreed
    <3>3. /\ f[i + 1].nodes = Linked!Freed(f[i].nodes, f[i].cur)
          /\ f[i + 1].cur = f[i].nodes[f[i].cur].next
      BY <2>3, <3>2 DEF Turn
    <3> QED BY <3>1, <3>2, <3>3
  <2>5. CASE i >= n
    <3>1. Left(i) = 0 /\ Left(i + 1) = 0
      BY <1>2, <2>5
    <3> HIDE DEF Left
    <3>2. DOMAIN f[i].nodes = {}
      BY <2>2, <3>1, ChainEnds
    <3>3. f[i + 1] = f[i]
      BY <2>3, <3>2 DEF Turn
    <3> QED BY <2>2, <3>1, <3>3
  <2> QED BY <1>2, <2>4, <2>5
<1> HIDE DEF T
<1>5. Linked!Most \in T
  BY <1>3, <1>4, Induct, NodeFacts
<1>6. PICK t, l : Chain(Left(Linked!Most), t, f[Linked!Most].nodes, f[Linked!Most].cur, l)
  BY <1>5, NodeFacts DEF T
<1>7. Left(Linked!Most) = 0
  BY <1>2, NodeFacts
<1> HIDE DEF Left
<1> QED BY <1>1, <1>6, <1>7, ChainEnds

-----------------------------------------------------------------------------
(* Calls on a chain *)

\* The linked list is a chain.
Chained == \E n, s : Chain(n, s, heap, first, last)

\* A call links the new node x in at place k of the chain.
LinksIn(n, s, k, x) ==
  /\ heap' \in [DOMAIN heap \cup {x} -> Field]
  /\ heap'[x].next = s[k] /\ heap'[x].prev = s[k - 1]
  /\ \A m \in DOMAIN heap : /\ heap'[m].next = IF m = s[k - 1] THEN x ELSE heap[m].next
                            /\ heap'[m].prev = IF m = s[k] THEN x ELSE heap[m].prev
                            /\ heap'[m].data = heap[m].data
  /\ first' = IF k = 1 THEN x ELSE first
  /\ last' = IF k = n + 1 THEN x ELSE last

\* A call takes the node at place k out.
TakesOut(n, s, k) ==
  /\ heap' \in [DOMAIN heap \ {s[k]} -> Field]
  /\ \A m \in DOMAIN heap \ {s[k]} :
       /\ heap'[m].next = IF m = s[k - 1] THEN s[k + 1] ELSE heap[m].next
       /\ heap'[m].prev = IF m = s[k + 1] THEN s[k - 1] ELSE heap[m].prev
       /\ heap'[m].data = heap[m].data
  /\ first' = IF k = 1 THEN s[2] ELSE first
  /\ last' = IF k = n THEN s[n - 1] ELSE last

\* A node that is linked in at place k adds its element there.
LEMMA ListWith ==
  ASSUME NEW n, NEW s, Chain(n, s, heap, first, last), DOMAIN heap \subseteq Node,
         NEW k \in 1..(n + 1), NEW x \in Node \ DOMAIN heap, LinksIn(n, s, k, x)
  PROVE  /\ Chained'
         /\ Linked!Contents \in Seq(Elem) /\ Len(Linked!Contents) = n
         /\ Linked!Contents' \in Seq(Elem) /\ Len(Linked!Contents') = n + 1
         /\ \A i \in 1..(n + 1) :
              Linked!Contents'[i] = IF i <= k - 1 THEN Linked!Contents[i]
                                    ELSE IF i = k - 1 + 1 THEN heap'[x].data
                                    ELSE Linked!Contents[i - 1]
<1> DEFINE w == With(n, s, k, x)
<1>1. /\ Chain(n + 1, w, heap', w[1], w[n + 1])
      /\ w[1] = IF k = 1 THEN x ELSE first
      /\ w[n + 1] = IF k = n + 1 THEN x ELSE last
      /\ \A i \in 1..(n + 1) :
           Data(n + 1, w, heap')[i] = IF i < k THEN Data(n, s, heap)[i]
                                      ELSE IF i = k THEN heap'[x].data ELSE Data(n, s, heap)[i - 1]
  BY ChainWith DEF LinksIn
<1> HIDE DEF w
<1>2. Chain(n + 1, w, heap', first', last')
  BY <1>1 DEF LinksIn
<1>3. Chained'
  BY <1>2 DEF Chained
<1>4. DOMAIN heap' \subseteq Node
  BY DEF LinksIn
<1>5. /\ Linked!Contents' = Data(n + 1, w, heap')
      /\ Linked!Contents' \in Seq(Elem) /\ Len(Linked!Contents') = n + 1
  BY <1>2, <1>4, ContentsNext
<1>6. /\ Linked!Contents = Data(n, s, heap) /\ n \in Nat
      /\ Linked!Contents \in Seq(Elem) /\ Len(Linked!Contents) = n
  BY ContentsNow
<1>7. ASSUME NEW i \in 1..(n + 1)
      PROVE  Linked!Contents'[i] = IF i <= k - 1 THEN Linked!Contents[i]
                                   ELSE IF i = k - 1 + 1 THEN heap'[x].data
                                   ELSE Linked!Contents[i - 1]
  <2>1. (i < k <=> i <= k - 1) /\ (i = k <=> i = k - 1 + 1)
    BY <1>6
  <2>2. Data(n + 1, w, heap')[i] = IF i < k THEN Data(n, s, heap)[i]
                                   ELSE IF i = k THEN heap'[x].data ELSE Data(n, s, heap)[i - 1]
    BY <1>1
  <2> QED BY <1>5, <1>6, <2>1, <2>2
<1> QED BY <1>3, <1>5, <1>6, <1>7

\* A node that is taken out at place k takes its element with it.
LEMMA ListWithout ==
  ASSUME NEW n, NEW s, Chain(n, s, heap, first, last), DOMAIN heap \subseteq Node,
         NEW k \in 1..n, TakesOut(n, s, k)
  PROVE  /\ Chained'
         /\ Linked!Contents \in Seq(Elem) /\ Len(Linked!Contents) = n
         /\ Linked!Contents' \in Seq(Elem) /\ Len(Linked!Contents') = n - 1
         /\ \A i \in 1..(n - 1) :
              Linked!Contents'[i] = IF i <= k - 1 THEN Linked!Contents[i] ELSE Linked!Contents[i + 1]
<1> DEFINE w == Without(n, s, k)
<1>1. /\ Chain(n - 1, w, heap', w[1], w[n - 1])
      /\ w[1] = IF k = 1 THEN s[2] ELSE first
      /\ w[n - 1] = IF k = n THEN s[n - 1] ELSE last
      /\ \A i \in 1..(n - 1) :
           Data(n - 1, w, heap')[i] = IF i < k THEN Data(n, s, heap)[i] ELSE Data(n, s, heap)[i + 1]
  BY ChainWithout DEF TakesOut
<1> HIDE DEF w
<1>2. Chain(n - 1, w, heap', first', last')
  BY <1>1 DEF TakesOut
<1>3. Chained'
  BY <1>2 DEF Chained
<1>4. DOMAIN heap' \subseteq Node
  BY DEF TakesOut
<1>5. /\ Linked!Contents' = Data(n - 1, w, heap')
      /\ Linked!Contents' \in Seq(Elem) /\ Len(Linked!Contents') = n - 1
  BY <1>2, <1>4, ContentsNext
<1>6. /\ Linked!Contents = Data(n, s, heap) /\ n \in Nat
      /\ Linked!Contents \in Seq(Elem) /\ Len(Linked!Contents) = n
  BY ContentsNow
<1>7. ASSUME NEW i \in 1..(n - 1)
      PROVE  Linked!Contents'[i] = IF i <= k - 1 THEN Linked!Contents[i] ELSE Linked!Contents[i + 1]
  <2>1. i < k <=> i <= k - 1
    BY <1>6
  <2>2. Data(n - 1, w, heap')[i] = IF i < k THEN Data(n, s, heap)[i] ELSE Data(n, s, heap)[i + 1]
    BY <1>1
  <2> QED BY <1>5, <1>6, <2>1, <2>2
<1> QED BY <1>3, <1>5, <1>6, <1>7

\* linkedlist_add_front
LEMMA AddFrontIs ==
  ASSUME Linked!TypeOK, NEW n, NEW s, Chain(n, s, heap, first, last),
         NEW e \in Elem, Linked!AddFront(e)
  PROVE  /\ Chained' /\ Linked!List!AddPos(0, e)
         /\ Len(Linked!Contents') > Len(Linked!Contents) /\ Tail(Linked!Contents') = Linked!Contents
<1>0. /\ DOMAIN heap \subseteq Node /\ heap \in [DOMAIN heap -> Field] /\ first \in Pointer
      /\ NULL \in Pointer /\ NULL \notin DOMAIN heap
  BY NodeFacts DEF Linked!TypeOK, Linked!Live, Field, Pointer
<1>1. /\ n \in Nat /\ first = s[1] /\ s[0] = NULL
      /\ (first = NULL <=> n = 0) /\ (last = NULL <=> n = 0)
      /\ (n # 0 => first \in DOMAIN heap)
  BY ChainEnds DEF Chain
<1>2. PICK x \in Node \ DOMAIN heap :
        /\ heap' = Linked!Put(Linked!Created(x, e, first, NULL), first, "prev", x)
        /\ first' = x
        /\ last' = IF first = NULL /\ last = NULL THEN x ELSE last
  BY DEF Linked!AddFront, Linked!Live, Linked!Empty
<1> DEFINE D == DOMAIN heap \cup {x}
           h == Linked!Created(x, e, first, NULL)
<1>a. h \in [D -> Field]
  BY <1>0, CreatedTyped
<1>b. /\ h[x].next = first /\ h[x].prev = NULL /\ h[x].data = e
      /\ \A m \in DOMAIN heap : h[m] = heap[m]
  BY CreatedIs
<1> HIDE DEF h, D
<1>3. /\ h \in [D -> Field]
      /\ h[x].next = first /\ h[x].prev = NULL /\ h[x].data = e
      /\ \A m \in DOMAIN heap : h[m] = heap[m]
  BY <1>a, <1>b
<1>4. x \in Pointer /\ x \in D /\ DOMAIN heap \subseteq D /\ x # first
  BY <1>0, <1>1, NodeFacts DEF D
<1>5. /\ heap' \in [D -> Field]
      /\ \A m \in D : /\ heap'[m].prev = IF m = first THEN x ELSE h[m].prev
                      /\ heap'[m].next = h[m].next /\ heap'[m].data = h[m].data
  BY <1>2, <1>3, <1>4, PutPrev DEF h
<1>k. PICK k \in 1..(n + 1) : k = 1
  BY <1>1
<1>6. /\ k \in 1..(n + 1) /\ s[k] = first /\ s[k - 1] = NULL /\ k = 1
      /\ (k = n + 1 <=> first = NULL /\ last = NULL)
  BY <1>1, <1>k
<1>7. heap'[x].next = s[k] /\ heap'[x].prev = s[k - 1] /\ heap'[x].data = e
  BY <1>3, <1>4, <1>5, <1>6
<1>8. ASSUME NEW m \in DOMAIN heap
      PROVE  /\ heap'[m].next = IF m = s[k - 1] THEN x ELSE heap[m].next
             /\ heap'[m].prev = IF m = s[k] THEN x ELSE heap[m].prev
             /\ heap'[m].data = heap[m].data
  BY <1>0, <1>3, <1>4, <1>5, <1>6
<1>9. first' = (IF k = 1 THEN x ELSE first) /\ last' = (IF k = n + 1 THEN x ELSE last)
  BY <1>2, <1>6
<1>10. heap' \in [DOMAIN heap \cup {x} -> Field]
  BY <1>5 DEF D
<1>l. LinksIn(n, s, k, x)
  BY <1>7, <1>8, <1>9, <1>10 DEF LinksIn
<1>11. /\ Chained'
       /\ Linked!Contents \in Seq(Elem) /\ Len(Linked!Contents) = n
       /\ Linked!Contents' \in Seq(Elem) /\ Len(Linked!Contents') = n + 1
       /\ \A i \in 1..(n + 1) :
            Linked!Contents'[i] = IF i <= k - 1 THEN Linked!Contents[i]
                                  ELSE IF i = k - 1 + 1 THEN heap'[x].data
                                  ELSE Linked!Contents[i - 1]
  BY <1>0, <1>6, <1>l, ListWith
<1> DEFINE a == Linked!Contents
           b == Linked!Contents'
<1> HIDE DEF a, b
<1>12. /\ a \in Seq(Elem) /\ Len(a) = n /\ b \in Seq(Elem) /\ Len(b) = n + 1
       /\ \A i \in 1..(n + 1) : b[i] = IF i <= 0 THEN a[i] ELSE IF i = 0 + 1 THEN e ELSE a[i - 1]
  BY <1>6, <1>7, <1>11 DEF a, b
<1>13. b = SubSeq(a, 1, 0) \o <<e>> \o SubSeq(a, 0 + 1, Len(a))
  <2>1. 0 \in 0..Len(a)
    BY <1>1, <1>12
  <2> QED BY <1>12, <2>1, InsertedSeq
<1>14. Tail(b) = a
  <2>1. Tail(b) \in Seq(Elem) /\ Len(Tail(b)) = n /\ \A i \in 1..n : Tail(b)[i] = b[i + 1]
    BY <1>1, <1>12
  <2>2. ASSUME NEW i \in 1..n PROVE Tail(b)[i] = a[i]
    <3>1. i + 1 \in 1..(n + 1) /\ ~(i + 1 <= 0) /\ i + 1 # 0 + 1 /\ i + 1 - 1 = i
      BY <1>1
    <3> QED BY <1>12, <2>1, <3>1
  <2> QED BY <1>12, <2>1, <2>2, SeqEqual
<1>15. lerr' = "LIST_OKAY" /\ lret' = NULL
  BY DEF Linked!AddFront, Linked!Return
<1>16. Linked!List!AddPos(0, e)
  BY <1>1, <1>12, <1>13, <1>15 DEF a, b, Linked!List!AddPos, Linked!List!Before, Linked!List!After
<1> QED BY <1>1, <1>11, <1>12, <1>14, <1>16 DEF a, b

\* linkedlist_add
LEMMA AddBackIs ==
  ASSUME Linked!TypeOK, NEW n, NEW s, Chain(n, s, heap, first, last),
         NEW e \in Elem, Linked!AddBack(e)
  PROVE  Chained' /\ Linked!List!AddPos(n, e) /\ n \in Linked!Pos
<1>0. /\ DOMAIN heap \subseteq Node /\ heap \in [DOMAIN heap -> Field] /\ last \in Pointer
      /\ NULL \in Pointer /\ NULL \notin DOMAIN heap
  BY NodeFacts DEF Linked!TypeOK, Linked!Live, Field, Pointer
<1>1. /\ n \in Nat /\ last = s[n] /\ s[n + 1] = NULL
      /\ (first = NULL <=> n = 0) /\ (last = NULL <=> n = 0)
      /\ (n # 0 => last \in DOMAIN heap)
  BY ChainEnds DEF Chain
<1>2. PICK x \in Node \ DOMAIN heap :
        /\ heap' = Linked!Put(Linked!Created(x, e, NULL, last), last, "next", x)
        /\ first' = IF first = NULL /\ last = NULL THEN x ELSE first
        /\ last' = x
  BY DEF Linked!AddBack, Linked!Live, Linked!Empty
<1> DEFINE D == DOMAIN heap \cup {x}
           h == Linked!Created(x, e, NULL, last)
<1>a. h \in [D -> Field]
  BY <1>0, CreatedTyped
<1>b. /\ h[x].next = NULL /\ h[x].prev = last /\ h[x].data = e
      /\ \A m \in DOMAIN heap : h[m] = heap[m]
  BY CreatedIs
<1> HIDE DEF h, D
<1>3. /\ h \in [D -> Field]
      /\ h[x].next = NULL /\ h[x].prev = last /\ h[x].data = e
      /\ \A m \in DOMAIN heap : h[m] = heap[m]
  BY <1>a, <1>b
<1>4. x \in Pointer /\ x \in D /\ DOMAIN heap \subseteq D /\ x # last
  BY <1>0, <1>1, NodeFacts DEF D
<1>5. /\ heap' \in [D -> Field]
      /\ \A m \in D : /\ heap'[m].next = IF m = last THEN x ELSE h[m].next
                      /\ heap'[m].prev = h[m].prev /\ heap'[m].data = h[m].data
  BY <1>2, <1>3, <1>4, PutNext DEF h
<1> DEFINE k == n + 1
<1>6. /\ k \in 1..(n + 1) /\ s[k] = NULL /\ s[k - 1] = last /\ k = n + 1 /\ k - 1 = n
      /\ (k = 1 <=> first = NULL /\ last = NULL)
  BY <1>1
<1> HIDE DEF k
<1>7. heap'[x].next = s[k] /\ heap'[x].prev = s[k - 1] /\ heap'[x].data = e
  BY <1>3, <1>4, <1>5, <1>6
<1>8. ASSUME NEW m \in DOMAIN heap
      PROVE  /\ heap'[m].next = IF m = s[k - 1] THEN x ELSE heap[m].next
             /\ heap'[m].prev = IF m = s[k] THEN x ELSE heap[m].prev
             /\ heap'[m].data = heap[m].data
  BY <1>0, <1>3, <1>4, <1>5, <1>6
<1>9. first' = (IF k = 1 THEN x ELSE first) /\ last' = (IF k = n + 1 THEN x ELSE last)
  BY <1>2, <1>6
<1>10. heap' \in [DOMAIN heap \cup {x} -> Field]
  BY <1>5 DEF D
<1>l. LinksIn(n, s, k, x)
  BY <1>7, <1>8, <1>9, <1>10 DEF LinksIn
<1>11. /\ Chained'
       /\ Linked!Contents \in Seq(Elem) /\ Len(Linked!Contents) = n
       /\ Linked!Contents' \in Seq(Elem) /\ Len(Linked!Contents') = n + 1
       /\ \A i \in 1..(n + 1) :
            Linked!Contents'[i] = IF i <= k - 1 THEN Linked!Contents[i]
                                  ELSE IF i = k - 1 + 1 THEN heap'[x].data
                                  ELSE Linked!Contents[i - 1]
  BY <1>0, <1>6, <1>l, ListWith
<1> DEFINE a == Linked!Contents
           b == Linked!Contents'
<1> HIDE DEF a, b
<1>12. /\ a \in Seq(Elem) /\ Len(a) = n /\ b \in Seq(Elem) /\ Len(b) = n + 1
       /\ \A i \in 1..(n + 1) : b[i] = IF i <= n THEN a[i] ELSE IF i = n + 1 THEN e ELSE a[i - 1]
  BY <1>6, <1>7, <1>11 DEF a, b
<1>13. b = SubSeq(a, 1, n) \o <<e>> \o SubSeq(a, n + 1, Len(a))
  <2>1. n \in 0..Len(a)
    BY <1>1, <1>12
  <2> QED BY <1>12, <2>1, InsertedSeq
<1>15. lerr' = "LIST_OKAY" /\ lret' = NULL
  BY DEF Linked!AddBack, Linked!Return
<1>16. Linked!List!AddPos(n, e)
  BY <1>1, <1>12, <1>13, <1>15 DEF a, b, Linked!List!AddPos, Linked!List!Before, Linked!List!After
<1>17. n \in Linked!Pos
  BY <1>0, <1>1, ChainFits, NodeFacts DEF Linked!Pos
<1> QED BY <1>11, <1>16, <1>17

-----------------------------------------------------------------------------
(* The linked list's variables keep their types, broken or not *)

\* What the type invariant says of the pointers.
LEMMA LinkedTypes ==
  ASSUME Linked!TypeOK
  PROVE  /\ DOMAIN heap \subseteq Node /\ heap \in [DOMAIN heap -> Field]
         /\ first \in Pointer /\ last \in Pointer /\ NULL \in Pointer /\ Node \subseteq Pointer
         /\ NULL \notin DOMAIN heap
         /\ \A x \in DOMAIN heap : /\ heap[x].next \in Pointer /\ heap[x].prev \in Pointer
                                   /\ heap[x].data \in Elem
<1>1. /\ DOMAIN heap \subseteq Node /\ heap \in [DOMAIN heap -> Field]
      /\ first \in Pointer /\ last \in Pointer /\ NULL \in Pointer /\ Node \subseteq Pointer
      /\ NULL \notin DOMAIN heap
  BY NodeFacts DEF Linked!TypeOK, Linked!Live, Field, Pointer
<1>2. ASSUME NEW x \in DOMAIN heap
      PROVE  heap[x].next \in Pointer /\ heap[x].prev \in Pointer /\ heap[x].data \in Elem
  <2>1. heap[x] \in Field
    BY <1>1
  <2> QED BY <2>1 DEF Field, Linked!Field, Pointer
<1> QED BY <1>1, <1>2

\* A heap of nodes, in the terms of the type invariant.
Heap(h) == DOMAIN h \subseteq Node /\ h \in [DOMAIN h -> Field]

\* Values of each kind make a typed state.
LEMMA HeapTyped ==
  ASSUME Heap(heap'), first' \in Pointer, last' \in Pointer,
         lerr' \in {"LIST_OKAY", "LIST_BOUNDS", "LIST_MEMORY", "LIST_INVALID_STATE"},
         lret' \in Elem \cup {NULL} \cup Nat, end' \in Linked!Ends, between' \in BOOLEAN
  PROVE  Linked!TypeOK'
BY DEF Heap, Linked!TypeOK, Linked!Live, Field, Pointer

\* A node more, whose neighbours are any.
LEMMA CreatedHeap ==
  ASSUME Linked!TypeOK, NEW x \in (Node \ DOMAIN heap) \cup {NULL}, NEW e \in Elem,
         NEW nx \in Pointer, NEW pv \in Pointer
  PROVE  Heap(Linked!Created(x, e, nx, pv))
<1>1. Heap(heap)
  BY LinkedTypes DEF Heap
<1>2. CASE x = NULL
  <2>1. NULL \notin DOMAIN heap
    BY LinkedTypes
  <2>2. Linked!Created(x, e, nx, pv) = [m \in DOMAIN heap |-> heap[m]]
    BY <1>2, <2>1 DEF Linked!Created, Linked!Live
  <2>3. [m \in DOMAIN heap |-> heap[m]] = heap
    BY <1>1 DEF Heap
  <2> QED BY <1>1, <2>2, <2>3
<1>3. CASE x # NULL
  <2>1. x \in Node \ DOMAIN heap
    BY <1>3
  <2> DEFINE g == Linked!Created(x, e, nx, pv)
             D == DOMAIN heap \cup {x}
  <2>2. g \in [D -> Field]
    BY <1>1, <2>1, CreatedTyped DEF Heap
  <2>3. D \subseteq Node
    BY <1>1, <2>1 DEF Heap
  <2> HIDE DEF g, D
  <2>4. DOMAIN g = D
    BY <2>2
  <2>5. Heap(g)
    BY <2>2, <2>3, <2>4 DEF Heap
  <2> QED BY <2>5 DEF g
<1> QED BY <1>2, <1>3

\* An assignment to a pointer of any node.
LEMMA PutHeap ==
  ASSUME NEW h, Heap(h), NEW p, NEW field \in {"next", "prev"}, NEW v \in Pointer
  PROVE  Heap(Linked!Put(h, p, field, v)) /\ DOMAIN Linked!Put(h, p, field, v) = DOMAIN h
<1> DEFINE g == Linked!Put(h, p, field, v)
<1>1. g \in [DOMAIN h -> Field]
  BY PutNext, PutPrev DEF Heap
<1> HIDE DEF g
<1>2. DOMAIN g = DOMAIN h
  BY <1>1
<1> QED BY <1>1, <1>2 DEF Heap, g

\* A node less.
LEMMA FreedHeap ==
  ASSUME NEW h, Heap(h), NEW x \in DOMAIN h
  PROVE  Heap(Linked!Freed(h, x)) /\ DOMAIN Linked!Freed(h, x) = DOMAIN h \ {x}
<1> DEFINE g == Linked!Freed(h, x)
<1>1. g \in [DOMAIN h \ {x} -> Field]
  BY FreedTyped DEF Heap
<1> HIDE DEF g
<1>2. DOMAIN g = DOMAIN h \ {x}
  BY <1>1
<1> QED BY <1>1, <1>2 DEF Heap, g

\* Elements are counted by a number.
LEMMA CountNat == Linked!Count \in Nat
<1> DEFINE S == {i \in 0..(Linked!Most - 1) : Linked!Forward[i] \in Linked!Live}
<1>1. IsFiniteSet(0..(Linked!Most - 1))
  BY NodeFacts, FS_Interval
<1>2. IsFiniteSet(S)
  BY <1>1, FS_Subset
<1>3. Cardinality(S) \in Nat
  BY <1>2, FS_CardinalityType
<1> QED BY <1>3 DEF Linked!Count, Linked!Cardinality, Cardinality

\* The calls of a stack.
StackNext ==
  \/ \E e \in Elem : Linked!AddFront(e)
  \/ \E pos \in Linked!Pos : Linked!Get(pos) \/ Linked!PosBounds(pos)
  \/ Linked!AddMemory
  \/ Linked!RemoveFront \/ Linked!RemoveEmpty
  \/ Linked!Size \/ Linked!Free
  \/ Linked!Endless \/ Linked!Fault

\* The calls of a queue.
QueueNext ==
  \/ \E e \in Elem : Linked!AddFront(e)
  \/ \E pos \in Linked!Pos : Linked!Get(pos) \/ Linked!PosBounds(pos)
  \/ Linked!AddMemory
  \/ Linked!RemoveBack \/ Linked!RemoveEmpty
  \/ Linked!Size \/ Linked!Free
  \/ Linked!Endless \/ Linked!Fault

\* The calls of a linked list, which those of a stack and of a queue are too.
LinkedNext ==
  \/ StackNext
  \/ \E e \in Elem : Linked!AddBack(e) \/ \E pos \in Linked!Pos : Linked!InsertBetween(pos, e)
  \/ \E pos \in Linked!Pos : \/ Linked!InsertLocked(pos) \/ Linked!AddPosBounds(pos)
                             \/ Linked!RemoveBetween(pos) \/ Linked!RemoveRefused(pos)
  \/ Linked!RemoveBack

\* Each call keeps the types.
LEMMA LinkedTyped ==
  ASSUME Linked!TypeOK, LinkedNext
  PROVE  Linked!TypeOK'
<1> USE DEF Linked!Return, Linked!Ends
<1>0. /\ Heap(heap) /\ first \in Pointer /\ last \in Pointer /\ NULL \in Pointer /\ Node \subseteq Pointer
      /\ NULL \notin DOMAIN heap
      /\ \A x \in DOMAIN heap : /\ heap[x].next \in Pointer /\ heap[x].prev \in Pointer
                                /\ heap[x].data \in Elem
  BY LinkedTypes DEF Heap
<1>a. /\ lerr \in {"LIST_OKAY", "LIST_BOUNDS", "LIST_MEMORY", "LIST_INVALID_STATE"}
      /\ lret \in Elem \cup {NULL} \cup Nat /\ end \in Linked!Ends /\ between \in BOOLEAN
  BY Zenon DEF Linked!TypeOK
<1>1. ASSUME NEW e \in Elem, Linked!AddFront(e) PROVE Linked!TypeOK'
  <2>1. PICK x \in Node \ DOMAIN heap :
          /\ heap' = Linked!Put(Linked!Created(x, e, first, NULL), first, "prev", x)
          /\ first' = x /\ last' \in {x, last}
    BY <1>1 DEF Linked!AddFront, Linked!Live
  <2>2. Heap(Linked!Created(x, e, first, NULL))
    BY <1>0, CreatedHeap
  <2>3. Heap(heap')
    BY <1>0, <2>1, <2>2, PutHeap
  <2> QED BY <1>0, <1>1, <1>a, <2>1, <2>3, HeapTyped DEF Linked!AddFront
<1>2. ASSUME NEW e \in Elem, Linked!AddBack(e) PROVE Linked!TypeOK'
  <2>1. PICK x \in Node \ DOMAIN heap :
          /\ heap' = Linked!Put(Linked!Created(x, e, NULL, last), last, "next", x)
          /\ first' \in {x, first} /\ last' = x
    BY <1>2 DEF Linked!AddBack, Linked!Live
  <2>2. Heap(Linked!Created(x, e, NULL, last))
    BY <1>0, CreatedHeap
  <2>3. Heap(heap')
    BY <1>0, <2>1, <2>2, PutHeap
  <2> QED BY <1>0, <1>2, <1>a, <2>1, <2>3, HeapTyped DEF Linked!AddBack
<1>3. ASSUME NEW e \in Elem, NEW pos \in Linked!Pos, Linked!InsertBetween(pos, e)
      PROVE  Linked!TypeOK'
  <2> DEFINE right == Linked!NodeAt(pos)
             left  == heap[right].prev
  <2>1. right \in DOMAIN heap /\ left \in DOMAIN heap
    BY <1>3 DEF Linked!InsertBetween, Linked!Live
  <2>2. PICK x \in (Node \ DOMAIN heap) \cup {NULL} :
          heap' = Linked!Put(Linked!Put(Linked!Created(x, e, left, right), left, "next", x),
                             right, "next", x)
    BY <1>3 DEF Linked!InsertBetween, Linked!Live
  <2> HIDE DEF right
  <2>3. left \in Pointer /\ right \in Pointer /\ x \in Pointer
    BY <1>0, <2>1 DEF Heap
  <2> HIDE DEF left
  <2>4. Heap(Linked!Created(x, e, left, right))
    BY <2>3, CreatedHeap
  <2>5. Heap(Linked!Put(Linked!Created(x, e, left, right), left, "next", x))
    BY <2>3, <2>4, PutHeap
  <2>6. Heap(heap')
    BY <2>2, <2>3, <2>5, PutHeap
  <2> QED BY <1>0, <1>3, <1>a, <2>6, HeapTyped DEF Linked!InsertBetween
<1>4. CASE Linked!RemoveFront
  <2>1. Heap(heap') /\ first \in DOMAIN heap
    BY <1>0, <1>4, FreedHeap DEF Linked!RemoveFront, Linked!Live
  <2> QED BY <1>0, <1>4, <1>a, <2>1, HeapTyped DEF Linked!RemoveFront
<1>5. CASE Linked!RemoveBack
  <2>1. Heap(heap') /\ last \in DOMAIN heap
    BY <1>0, <1>5, FreedHeap DEF Linked!RemoveBack, Linked!Live
  <2> QED BY <1>0, <1>5, <1>a, <2>1, HeapTyped DEF Linked!RemoveBack
<1>6. ASSUME NEW pos \in Linked!Pos, Linked!RemoveBetween(pos) PROVE Linked!TypeOK'
  <2> DEFINE remove == Linked!NodeAt(pos)
             left   == heap[remove].prev
             right  == heap[remove].next
  <2>1. /\ remove \in DOMAIN heap
        /\ heap' = Linked!Put(Linked!Put(Linked!Freed(heap, remove), left, "next", right),
                              right, "prev", left)
        /\ lret' = heap[remove].data
    BY <1>6 DEF Linked!RemoveBetween, Linked!Live
  <2> HIDE DEF remove
  <2>2. left \in Pointer /\ right \in Pointer /\ heap[remove].data \in Elem
    BY <1>0, <2>1
  <2> HIDE DEF left, right
  <2>3. Heap(Linked!Freed(heap, remove))
    BY <1>0, <2>1, FreedHeap
  <2>4. Heap(Linked!Put(Linked!Freed(heap, remove), left, "next", right))
    BY <2>2, <2>3, PutHeap
  <2>5. Heap(heap')
    BY <2>1, <2>2, <2>4, PutHeap
  <2> QED BY <1>0, <1>6, <1>a, <2>1, <2>2, <2>5, HeapTyped DEF Linked!RemoveBetween
<1>7. CASE Linked!Free
  <2>1. Heap(Linked!FreeLoop.nodes)
    BY <1>0, FreeLoopTyped DEF Heap
  <2>2. Heap(heap')
    BY <1>0, <1>7, <2>1 DEF Linked!Free
  <2> QED BY <1>0, <1>7, <1>a, <2>2, HeapTyped DEF Linked!Free
<1>8. ASSUME NEW pos \in Linked!Pos, Linked!Get(pos) PROVE Linked!TypeOK'
  <2>1. heap[Linked!NodeAt(pos)].data \in Elem
    BY <1>0, <1>8 DEF Linked!Get, Linked!Live
  <2> QED BY <1>0, <1>8, <1>a, <2>1, HeapTyped DEF Linked!Get
<1>9. CASE Linked!Size
  BY <1>0, <1>9, <1>a, CountNat, HeapTyped DEF Linked!Size
<1>10. ASSUME NEW pos \in Linked!Pos, \/ Linked!PosBounds(pos) \/ Linked!AddPosBounds(pos)
                                      \/ Linked!RemoveRefused(pos) \/ Linked!RemoveEmpty
                                      \/ Linked!AddMemory
       PROVE  Linked!TypeOK'
  BY <1>0, <1>10, <1>a, HeapTyped
     DEF Linked!PosBounds, Linked!AddPosBounds, Linked!RemoveRefused, Linked!RemoveEmpty,
         Linked!AddMemory, Linked!Fail
<1>11. ASSUME NEW pos \in Linked!Pos, Linked!InsertLocked(pos) PROVE Linked!TypeOK'
  BY <1>0, <1>11, <1>a, HeapTyped DEF Linked!InsertLocked
<1>12. CASE Linked!Endless \/ Linked!Fault
  BY <1>0, <1>12, <1>a, HeapTyped DEF Linked!Endless, Linked!Fault
<1>13. 0 \in Linked!Pos
  BY NodeFacts DEF Linked!Pos
<1> QED BY <1>1, <1>2, <1>3, <1>4, <1>5, <1>6, <1>7, <1>8, <1>9, <1>10, <1>11, <1>12, <1>13
        DEF LinkedNext, StackNext

-----------------------------------------------------------------------------
(* Calls that take elements out of a chain *)

\* A sequence without its first element is its tail.
LEMMA WithoutFirst ==
  ASSUME NEW a \in Seq(Elem), NEW n \in Nat, Len(a) = n, n # 0,
         NEW b \in Seq(Elem), Len(b) = n - 1,
         \A i \in 1..(n - 1) : b[i] = a[i + 1]
  PROVE  a # <<>> /\ Head(a) = a[1] /\ b = Tail(a)
<1>1. a # <<>> /\ Head(a) = a[1]
  OBVIOUS
<1>2. Tail(a) \in Seq(Elem) /\ Len(Tail(a)) = n - 1 /\ \A i \in 1..(n - 1) : Tail(a)[i] = a[i + 1]
  BY <1>1
<1>3. b = Tail(a)
  BY <1>2, SeqEqual
<1> QED BY <1>1, <1>3

\* A node that is taken out at place k is removed at position k - 1.
LEMMA TakesOutRemoves ==
  ASSUME NEW n, NEW s, Chain(n, s, heap, first, last), DOMAIN heap \subseteq Node,
         NEW k \in 1..n, TakesOut(n, s, k),
         lerr' = "LIST_OKAY", lret' = heap[s[k]].data
  PROVE  Chained' /\ Linked!List!Remove(k - 1) /\ k - 1 \in Linked!Pos
<1> DEFINE a == Linked!Contents
           b == Linked!Contents'
<1>1. /\ Chained'
      /\ a \in Seq(Elem) /\ Len(a) = n
      /\ b \in Seq(Elem) /\ Len(b) = n - 1
      /\ \A i \in 1..(n - 1) : b[i] = IF i <= k - 1 THEN a[i] ELSE a[i + 1]
  BY ListWithout
<1>2. n \in Nat /\ a[k] = heap[s[k]].data
  BY ContentsNow
<1> HIDE DEF a, b
<1>3. b = SubSeq(a, 1, k - 1) \o SubSeq(a, k - 1 + 2, Len(a))
  <2> DEFINE pos == k - 1
  <2>1. pos \in 0..(Len(a) - 1)
    BY <1>1, <1>2
  <2> HIDE DEF pos
  <2>2. \A i \in 1..Len(b) : b[i] = IF i <= pos THEN a[i] ELSE a[i + 1]
    BY <1>1 DEF pos
  <2>3. b = SubSeq(a, 1, pos) \o SubSeq(a, pos + 2, Len(a))
    BY <1>1, <2>1, <2>2, RemovedSeq
  <2> QED BY <2>3 DEF pos
<1>4. k - 1 < Len(a) /\ k - 1 + 1 = k /\ k - 1 + 1 + 1 = k - 1 + 2
  BY <1>1, <1>2
<1>5. Linked!List!Remove(k - 1)
  BY <1>2, <1>3, <1>4 DEF a, b, Linked!List!Remove, Linked!List!Before, Linked!List!After
<1>6. k - 1 \in Linked!Pos
  BY <1>2, ChainFits, NodeFacts DEF Linked!Pos
<1> QED BY <1>1, <1>5, <1>6

\* linkedlist_remove_front
LEMMA RemoveFrontIs ==
  ASSUME Linked!TypeOK, NEW n, NEW s, Chain(n, s, heap, first, last), Linked!RemoveFront
  PROVE  /\ Chained' /\ Linked!List!Remove(0) /\ 0 \in Linked!Pos
         /\ Linked!Contents # <<>> /\ lret' = Head(Linked!Contents)
         /\ Linked!Contents' = Tail(Linked!Contents)
<1>0. /\ DOMAIN heap \subseteq Node /\ heap \in [DOMAIN heap -> Field]
  BY LinkedTypes
<1>1. /\ n \in Nat /\ first = s[1] /\ last = s[n] /\ n # 0
  BY ChainEnds DEF Chain, Linked!RemoveFront
<1>k. PICK k \in 1..n : k = 1
  BY <1>1
<1>2. /\ s[k] \in DOMAIN heap /\ heap[s[k]].next = s[k + 1] /\ first = s[k]
      /\ (IF k = n THEN s[k + 1] = NULL ELSE s[k + 1] \in DOMAIN heap)
      /\ NULL \notin DOMAIN heap
  BY <1>1, <1>k, ChainNode, LinkedTypes
<1>3. heap' \in [DOMAIN heap \ {s[k]} -> Field]
  BY <1>0, <1>2, FreedTyped DEF Linked!RemoveFront
<1>4. \A m \in DOMAIN heap \ {s[k]} :
        /\ heap'[m].next = IF m = s[k - 1] THEN s[k + 1] ELSE heap[m].next
        /\ heap'[m].prev = IF m = s[k + 1] THEN s[k - 1] ELSE heap[m].prev
        /\ heap'[m].data = heap[m].data
  <2>1. heap' = Linked!Freed(heap, s[k])
    BY <1>2 DEF Linked!RemoveFront
  <2> QED BY <1>k, <2>1, ChainFreed
<1>5. /\ first' = s[2] /\ last' = IF k = n THEN s[n - 1] ELSE last
  <2>1. first' = s[k + 1] /\ last' = IF s[k + 1] = NULL THEN NULL ELSE last
    BY <1>2 DEF Linked!RemoveFront
  <2>2. k + 1 = 2 /\ (k = n => n - 1 = 0)
    BY <1>k
  <2>3. s[0] = NULL
    BY DEF Chain
  <2> QED BY <1>2, <2>1, <2>2, <2>3
<1>6. TakesOut(n, s, k)
  BY <1>3, <1>4, <1>5, <1>k DEF TakesOut
<1>7. lerr' = "LIST_OKAY" /\ lret' = heap[s[k]].data
  BY <1>2 DEF Linked!RemoveFront, Linked!Return
<1>8. Chained' /\ Linked!List!Remove(k - 1) /\ k - 1 \in Linked!Pos
  BY <1>0, <1>6, <1>7, TakesOutRemoves
<1> DEFINE a == Linked!Contents
           b == Linked!Contents'
<1>9. /\ a \in Seq(Elem) /\ Len(a) = n
      /\ b \in Seq(Elem) /\ Len(b) = n - 1
      /\ \A i \in 1..(n - 1) : b[i] = IF i <= k - 1 THEN a[i] ELSE a[i + 1]
  BY <1>0, <1>6, ListWithout
<1>10. a[k] = heap[s[k]].data
  BY <1>0, ContentsNow
<1> HIDE DEF a, b
<1>11. \A i \in 1..(n - 1) : b[i] = a[i + 1]
  BY <1>9, <1>k
<1>12. a # <<>> /\ Head(a) = a[1] /\ b = Tail(a)
  BY <1>1, <1>9, <1>11, WithoutFirst
<1>13. k - 1 = 0
  BY <1>k
<1>14. Linked!List!Remove(0) /\ 0 \in Linked!Pos
  BY <1>8, <1>13
<1> QED BY <1>7, <1>8, <1>10, <1>12, <1>14, <1>k DEF a, b

\* linkedlist_remove_back
LEMMA RemoveBackIs ==
  ASSUME Linked!TypeOK, NEW n, NEW s, Chain(n, s, heap, first, last), Linked!RemoveBack
  PROVE  /\ Chained' /\ Linked!Contents # <<>>
         /\ Linked!List!Remove(Len(Linked!Contents) - 1) /\ Len(Linked!Contents) - 1 \in Linked!Pos
<1>0. /\ DOMAIN heap \subseteq Node /\ heap \in [DOMAIN heap -> Field]
  BY LinkedTypes
<1>1. /\ n \in Nat /\ first = s[1] /\ last = s[n] /\ n # 0 /\ n \in 1..n
  BY ChainEnds DEF Chain, Linked!RemoveBack
<1>2. /\ s[n] \in DOMAIN heap /\ heap[s[n]].prev = s[n - 1]
      /\ (IF n = 1 THEN s[n - 1] = NULL ELSE s[n - 1] \in DOMAIN heap)
      /\ NULL \notin DOMAIN heap
  BY <1>1, ChainNode, LinkedTypes
<1>3. heap' \in [DOMAIN heap \ {s[n]} -> Field]
  BY <1>0, <1>1, <1>2, FreedTyped DEF Linked!RemoveBack
<1>4. \A m \in DOMAIN heap \ {s[n]} :
        /\ heap'[m].next = IF m = s[n - 1] THEN s[n + 1] ELSE heap[m].next
        /\ heap'[m].prev = IF m = s[n + 1] THEN s[n - 1] ELSE heap[m].prev
        /\ heap'[m].data = heap[m].data
  <2>1. heap' = Linked!Freed(heap, s[n])
    BY <1>1 DEF Linked!RemoveBack
  <2> QED BY <1>1, <2>1, ChainFreed
<1>5. /\ first' = (IF n = 1 THEN s[2] ELSE first) /\ last' = s[n - 1]
  <2>1. last' = s[n - 1] /\ first' = IF s[n - 1] = NULL THEN NULL ELSE first
    BY <1>1, <1>2 DEF Linked!RemoveBack
  <2>2. n = 1 => s[2] = NULL
    BY DEF Chain
  <2> QED BY <1>2, <2>1, <2>2
<1>6. TakesOut(n, s, n)
  BY <1>3, <1>4, <1>5, <1>1 DEF TakesOut
<1>7. lerr' = "LIST_OKAY" /\ lret' = heap[s[n]].data
  BY <1>1 DEF Linked!RemoveBack, Linked!Return
<1>8. Chained' /\ Linked!List!Remove(n - 1) /\ n - 1 \in Linked!Pos
  BY <1>0, <1>1, <1>6, <1>7, TakesOutRemoves
<1>9. Len(Linked!Contents) = n /\ Linked!Contents # <<>>
  BY <1>0, <1>1, ContentsNow
<1> QED BY <1>8, <1>9

\* linkedlist_remove_pos, between two others.
LEMMA RemoveBetweenIs ==
  ASSUME Linked!TypeOK, NEW n, NEW s, Chain(n, s, heap, first, last),
         NEW pos \in Linked!Pos, Linked!RemoveBetween(pos)
  PROVE  Chained' /\ Linked!List!Remove(pos)
<1>0. DOMAIN heap \subseteq Node /\ heap \in [DOMAIN heap -> Field] /\ NULL \notin DOMAIN heap
  BY LinkedTypes
<1>1. n \in Nat /\ Linked!Count = n /\ pos \in Nat /\ pos < n
  BY <1>0, ContentsNow, NodeFacts DEF Linked!RemoveBetween, Linked!Positioned, Linked!Pos
<1>k. PICK k \in 1..n : k = pos + 1
  BY <1>1
<1>2. Linked!NodeAt(pos) = s[k]
  <2>1. pos \in 0..(n - 1)
    BY <1>1
  <2> QED BY <1>0, <1>k, <2>1, WalksNow
<1>3. /\ s[k] \in DOMAIN heap
      /\ heap[s[k]].next = s[k + 1] /\ heap[s[k]].prev = s[k - 1]
      /\ (IF k = n THEN s[k + 1] = NULL ELSE s[k + 1] \in DOMAIN heap)
      /\ (IF k = 1 THEN s[k - 1] = NULL ELSE s[k - 1] \in DOMAIN heap)
      /\ (s[k + 1] = s[k - 1] => s[k + 1] = NULL)
  BY ChainNode
<1>4. /\ heap' = Linked!Put(Linked!Put(Linked!Freed(heap, s[k]), s[k - 1], "next", s[k + 1]),
                            s[k + 1], "prev", s[k - 1])
      /\ s[k - 1] \in DOMAIN heap /\ s[k + 1] \in DOMAIN heap
      /\ lerr' = "LIST_OKAY" /\ lret' = heap[s[k]].data
      /\ first' = first /\ last' = last
  BY <1>2, <1>3 DEF Linked!RemoveBetween, Linked!Return, Linked!Live
<1>5. k # 1 /\ k # n
  BY <1>0, <1>3, <1>4
<1>6. heap' \in [DOMAIN heap \ {s[k]} -> Field]
  <2> DEFINE D == DOMAIN heap \ {s[k]}
             g == Linked!Freed(heap, s[k])
             h == Linked!Put(g, s[k - 1], "next", s[k + 1])
  <2>1. g \in [D -> Field]
    BY <1>0, <1>3, FreedTyped
  <2>2. s[k - 1] \in Pointer /\ s[k + 1] \in Pointer
    BY <1>0, <1>4, NodeFacts
  <2> HIDE DEF g, D
  <2>3. h \in [D -> Field]
    BY <2>1, <2>2, PutNext
  <2> HIDE DEF h
  <2>4. Linked!Put(h, s[k + 1], "prev", s[k - 1]) \in [D -> Field]
    BY <2>2, <2>3, PutPrev
  <2> QED BY <1>4, <2>4 DEF g, h, D
<1>7. \A m \in DOMAIN heap \ {s[k]} :
        /\ heap'[m].next = IF m = s[k - 1] THEN s[k + 1] ELSE heap[m].next
        /\ heap'[m].prev = IF m = s[k + 1] THEN s[k - 1] ELSE heap[m].prev
        /\ heap'[m].data = heap[m].data
  BY <1>4, ChainCut
<1>8. TakesOut(n, s, k)
  BY <1>4, <1>5, <1>6, <1>7 DEF TakesOut
<1>9. Chained' /\ Linked!List!Remove(k - 1)
  BY <1>0, <1>4, <1>8, TakesOutRemoves
<1>10. k - 1 = pos
  BY <1>1, <1>k
<1> QED BY <1>9, <1>10

-----------------------------------------------------------------------------
(* Calls that change no node *)

\* A chain that is left alone is the same list.
LEMMA Untouched ==
  ASSUME Chained, UNCHANGED <<heap, first, last>>
  PROVE  Chained' /\ Linked!Contents' = Linked!Contents
BY WalksIn DEF Chained

\* A call that reads returns what it should.
LEMMA ReadIs ==
  ASSUME Linked!TypeOK, NEW n, NEW s, Chain(n, s, heap, first, last), NEW pos \in Linked!Pos,
         Linked!Get(pos) \/ Linked!Size
  PROVE  /\ Linked!Get(pos) => Linked!List!Get(pos)
         /\ Linked!Size => Linked!List!Size
         /\ Linked!Contents' = Linked!Contents
         /\ lret' \in {Len(Linked!Contents)} \cup {Linked!Contents[i] : i \in DOMAIN Linked!Contents}
<1>0. DOMAIN heap \subseteq Node
  BY LinkedTypes
<1>1. /\ n \in Nat /\ Linked!Count = n /\ pos \in Nat
      /\ Len(Linked!Contents) = n /\ Linked!Contents \in Seq(Elem)
      /\ \A i \in 1..n : Linked!Contents[i] = heap[s[i]].data
  BY <1>0, ContentsNow, NodeFacts DEF Linked!Pos
<1>2. Linked!Contents' = Linked!Contents
  <2>1. UNCHANGED <<heap, first, last>>
    BY DEF Linked!Get, Linked!Size
  <2> QED BY <2>1, WalksIn
<1>3. ASSUME Linked!Get(pos)
      PROVE  /\ Linked!List!Get(pos)
             /\ lret' \in {Linked!Contents[i] : i \in DOMAIN Linked!Contents}
  <2>1. pos < n /\ lret' = heap[Linked!NodeAt(pos)].data /\ lerr' = "LIST_OKAY"
    BY <1>1, <1>3 DEF Linked!Get, Linked!Positioned, Linked!Return
  <2>2. pos \in 0..(n - 1) /\ pos + 1 \in 1..n
    BY <1>1, <2>1
  <2>3. Linked!NodeAt(pos) = s[pos + 1]
    BY <1>0, <2>2, WalksNow
  <2>4. lret' = Linked!Contents[pos + 1] /\ pos + 1 \in DOMAIN Linked!Contents
    BY <1>1, <2>1, <2>2, <2>3
  <2> QED BY <1>1, <1>2, <2>1, <2>4 DEF Linked!List!Get
<1>4. ASSUME Linked!Size PROVE Linked!List!Size /\ lret' = Len(Linked!Contents)
  BY <1>1, <1>2, <1>4 DEF Linked!Size, Linked!Return, Linked!List!Size
<1> QED BY <1>2, <1>3, <1>4

\* A call that fails says why,
LEMMA FailIs ==
  ASSUME Linked!TypeOK, NEW n, NEW s, Chain(n, s, heap, first, last), NEW pos \in Linked!Pos,
         \/ Linked!AddMemory \/ Linked!RemoveEmpty
         \/ Linked!AddPosBounds(pos) \/ Linked!PosBounds(pos)
  PROVE  /\ Linked!AddMemory => Linked!List!OutOfMemory
         /\ Linked!RemoveEmpty => Linked!Contents = <<>> /\ Linked!List!OutOfBounds(0)
         /\ Linked!AddPosBounds(pos) \/ Linked!PosBounds(pos) => Linked!List!OutOfBounds(pos)
         /\ Linked!Contents' = Linked!Contents /\ lret' = NULL
<1>0. DOMAIN heap \subseteq Node
  BY LinkedTypes
<1>1. /\ n \in Nat /\ Linked!Count = n /\ pos \in Nat
      /\ Linked!Contents \in Seq(Elem) /\ Len(Linked!Contents) = n
      /\ (first = NULL \/ last = NULL => n = 0)
  BY <1>0, ContentsNow, ChainEnds, NodeFacts DEF Linked!Pos
<1>2. UNCHANGED <<heap, first, last>> /\ lret' = NULL
  BY DEF Linked!AddMemory, Linked!RemoveEmpty, Linked!AddPosBounds, Linked!PosBounds,
         Linked!Fail, Linked!Return
<1>3. Linked!Contents' = Linked!Contents
  BY <1>2, WalksIn
<1>4. ASSUME Linked!AddMemory PROVE Linked!List!OutOfMemory
  BY <1>2, <1>3, <1>4 DEF Linked!AddMemory, Linked!Fail, Linked!Return, Linked!List!OutOfMemory
<1>5. ASSUME Linked!RemoveEmpty PROVE Linked!Contents = <<>> /\ Linked!List!OutOfBounds(0)
  <2>1. n = 0 /\ lerr' = "LIST_BOUNDS"
    BY <1>1, <1>5 DEF Linked!RemoveEmpty, Linked!Fail, Linked!Return
  <2>2. Linked!Contents = <<>>
    BY <1>1, <2>1
  <2> QED BY <1>1, <1>2, <1>3, <2>1, <2>2 DEF Linked!List!OutOfBounds
<1>6. ASSUME Linked!AddPosBounds(pos) \/ Linked!PosBounds(pos) PROVE Linked!List!OutOfBounds(pos)
  BY <1>1, <1>2, <1>3, <1>6
     DEF Linked!AddPosBounds, Linked!PosBounds, Linked!Fail, Linked!Return, Linked!List!OutOfBounds
<1> QED BY <1>2, <1>3, <1>4, <1>5, <1>6

\* except the one that should have removed the last of several elements.
LEMMA RefusedIs ==
  ASSUME Linked!TypeOK, NEW n, NEW s, Chain(n, s, heap, first, last), NEW pos \in Linked!Pos,
         Linked!RemoveRefused(pos)
  PROVE  /\ Len(Linked!Contents) > 1 /\ pos = Len(Linked!Contents) - 1
         /\ UNCHANGED <<heap, first, last>> /\ Linked!Contents' = Linked!Contents
<1>0. DOMAIN heap \subseteq Node /\ NULL \notin DOMAIN heap
  BY LinkedTypes
<1>1. /\ n \in Nat /\ Linked!Count = n /\ pos \in Nat /\ Len(Linked!Contents) = n
      /\ pos < n /\ pos # 0
  BY <1>0, ContentsNow, NodeFacts DEF Linked!Pos, Linked!RemoveRefused, Linked!Positioned
<1>k. PICK k \in 1..n : k = pos + 1
  BY <1>1
<1>2. Linked!NodeAt(pos) = s[k]
  <2>1. pos \in 0..(n - 1)
    BY <1>1
  <2> QED BY <1>0, <1>k, <2>1, WalksNow
<1>3. /\ heap[s[k]].next = s[k + 1] /\ heap[s[k]].prev = s[k - 1]
      /\ (IF k = n THEN s[k + 1] = NULL ELSE s[k + 1] \in DOMAIN heap)
      /\ (IF k = 1 THEN s[k - 1] = NULL ELSE s[k - 1] \in DOMAIN heap)
  BY ChainNode
<1>4. NULL \in {heap[s[k]].prev, heap[s[k]].next}
  BY <1>2 DEF Linked!RemoveRefused
<1>5. k # 1
  BY <1>1, <1>k
<1>6. k = n
  BY <1>0, <1>3, <1>4, <1>5
<1>7. UNCHANGED <<heap, first, last>>
  BY DEF Linked!RemoveRefused, Linked!Fail
<1>8. Linked!Contents' = Linked!Contents
  BY <1>7, WalksIn
<1> QED BY <1>1, <1>5, <1>6, <1>7, <1>8, <1>k

-----------------------------------------------------------------------------
(* What cannot happen on a chain *)

\* The neighbours of a node are nodes of the chain.
LEMMA NeighboursLive ==
  ASSUME NEW n, NEW s, NEW h, NEW f, NEW l, Chain(n, s, h, f, l), NEW x \in DOMAIN h
  PROVE  Linked!Neighbours(h, x) \subseteq DOMAIN h
<1>1. PICK k \in 1..n : x = s[k]
  BY DEF Chain
<1>2. /\ h[s[k]].next = s[k + 1] /\ h[s[k]].prev = s[k - 1]
      /\ (IF k = n THEN s[k + 1] = NULL ELSE s[k + 1] \in DOMAIN h)
      /\ (IF k = 1 THEN s[k - 1] = NULL ELSE s[k - 1] \in DOMAIN h)
  BY ChainNode
<1> QED BY <1>1, <1>2 DEF Linked!Neighbours

\* No call follows a pointer to nowhere,
LEMMA NoFault ==
  ASSUME Linked!TypeOK, Chained
  PROVE  ~Linked!Fault
<1>0. DOMAIN heap \subseteq Node
  BY LinkedTypes
<1>1. PICK n, s : Chain(n, s, heap, first, last)
  BY DEF Chained
<1>a. n \in Nat /\ s[n + 1] = NULL /\ \A k \in 1..n : s[k] \in DOMAIN heap
  BY <1>1 DEF Chain
<1>b. /\ (n # 0 => first \in DOMAIN heap /\ last \in DOMAIN heap)
      /\ (first = NULL <=> n = 0) /\ (last = NULL <=> n = 0)
  BY <1>1, ChainEnds
<1>2. /\ n \in Nat /\ s[n + 1] = NULL /\ (\A k \in 1..n : s[k] \in DOMAIN heap)
      /\ (n # 0 => first \in DOMAIN heap /\ last \in DOMAIN heap)
      /\ (first = NULL <=> n = 0) /\ (last = NULL <=> n = 0)
  BY <1>a, <1>b
<1>3. /\ n \in 0..Linked!Most /\ Linked!Count = n
      /\ \A i \in 0..Linked!Most : Linked!Forward[i] = IF i <= n THEN s[i + 1] ELSE NULL
      /\ \A pos \in 0..(n - 1) : Linked!NodeAt(pos) = s[pos + 1]
  BY <1>0, <1>1, WalksNow, ContentsNow
<1> DEFINE walked == {Linked!Forward[i] : i \in 0..Linked!Most} \ {NULL}
           ends   == IF Linked!Empty THEN {} ELSE {first, last}
           placed == IF Linked!WalkEnds THEN {Linked!NodeAt(pos) : pos \in 0..(Linked!Count - 1)} ELSE {}
           named  == ends \cup placed
<1>4. walked \subseteq DOMAIN heap
  <2>1. ASSUME NEW i \in 0..Linked!Most, Linked!Forward[i] # NULL
        PROVE  Linked!Forward[i] \in DOMAIN heap
    <3>1. i <= n /\ i # n
      BY <1>2, <1>3, <2>1
    <3>2. i + 1 \in 1..n
      BY <1>2, <3>1
    <3> QED BY <1>2, <1>3, <3>1, <3>2
  <2> QED BY <2>1
<1>5. ends \subseteq DOMAIN heap
  BY <1>2 DEF Linked!Empty
<1>6. placed \subseteq DOMAIN heap
  <2>1. ASSUME NEW pos \in 0..(n - 1) PROVE Linked!NodeAt(pos) \in DOMAIN heap
    <3>1. pos + 1 \in 1..n
      BY <1>2
    <3> QED BY <1>2, <1>3, <3>1
  <2> QED BY <1>3, <2>1
<1>7. named \subseteq DOMAIN heap
  BY <1>5, <1>6
<1>8. UNION {Linked!Neighbours(heap, m) : m \in named \cap DOMAIN heap} \subseteq DOMAIN heap
  <2> HIDE DEF named
  <2>1. \A m \in named \cap DOMAIN heap : Linked!Neighbours(heap, m) \subseteq DOMAIN heap
    BY <1>1, NeighboursLive
  <2> QED BY <2>1
<1>9. Linked!Followed = walked \cup named \cup UNION {Linked!Neighbours(heap, m) : m \in named \cap DOMAIN heap}
  BY DEF Linked!Followed, Linked!Live
<1> HIDE DEF walked, named
<1>10. Linked!Followed \subseteq DOMAIN heap
  BY <1>4, <1>7, <1>8, <1>9
<1>11. Linked!FreeLoop.cur = NULL
  BY <1>0, <1>1, FreeLoopEnds
<1> QED BY <1>10, <1>11 DEF Linked!Fault, Linked!Live

\* fails to end,
LEMMA NotEndless ==
  ASSUME Linked!TypeOK, Chained
  PROVE  ~Linked!Endless
<1>0. DOMAIN heap \subseteq Node
  BY LinkedTypes
<1> QED BY <1>0, WalksNow DEF Chained, Linked!Endless

\* or returns with the mutex locked,
LEMMA NotLocked ==
  ASSUME Linked!TypeOK, Chained, NEW pos \in Linked!Pos
  PROVE  ~Linked!InsertLocked(pos)
<1> SUFFICES ASSUME Linked!InsertLocked(pos) PROVE FALSE
  OBVIOUS
<1>0. DOMAIN heap \subseteq Node /\ NULL \notin DOMAIN heap
  BY LinkedTypes
<1>1. PICK n, s : Chain(n, s, heap, first, last)
  BY DEF Chained
<1>2. n \in Nat /\ Linked!Count = n /\ pos \in Nat /\ pos < n /\ pos # 0
  BY <1>0, <1>1, ContentsNow, NodeFacts DEF Linked!Pos, Linked!InsertLocked, Linked!Positioned
<1>k. PICK k \in 1..n : k = pos + 1
  BY <1>2
<1>3. Linked!NodeAt(pos) = s[k]
  <2>1. pos \in 0..(n - 1)
    BY <1>2
  <2> QED BY <1>0, <1>1, <1>k, <2>1, WalksNow
<1>4. /\ heap[s[k]].prev = s[k - 1]
      /\ (IF k = 1 THEN s[k - 1] = NULL ELSE s[k - 1] \in DOMAIN heap)
  BY <1>1, ChainNode
<1>5. k # 1
  BY <1>2, <1>k
<1> QED BY <1>0, <1>3, <1>4, <1>5 DEF Linked!InsertLocked

\* and linkedlist_free gives every node back.
LEMMA FreeIs ==
  ASSUME Linked!TypeOK, Chained, Linked!Free
  PROVE  end' = "freed" /\ Linked!Live' = {}
<1>0. DOMAIN heap \subseteq Node
  BY LinkedTypes
<1>1. PICK n, s : Chain(n, s, heap, first, last)
  BY DEF Chained
<1>2. CASE Linked!Nodeless
  <2>1. DOMAIN heap = {}
    BY <1>1, <1>2, ChainEnds DEF Linked!Nodeless
  <2> QED BY <1>2, <2>1 DEF Linked!Free, Linked!Live
<1>3. CASE ~Linked!Nodeless
  <2>1. DOMAIN Linked!FreeLoop.nodes = {}
    BY <1>0, <1>1, FreeLoopEnds
  <2> QED BY <1>3, <2>1 DEF Linked!Free, Linked!Live
<1> QED BY <1>2, <1>3

\* A chain has the shape that the property WellLinked asks for.
LEMMA ChainedWellLinked ==
  ASSUME Linked!TypeOK, Chained
  PROVE  /\ Linked!WalkEnds /\ Linked!Count = Linked!Cardinality(Linked!Live)
         /\ \A i \in 0..(Linked!Count - 1) : Linked!Forward[i] = Linked!Backward[Linked!Count - 1 - i]
         /\ Linked!Backward[Linked!Count] = NULL
<1>0. DOMAIN heap \subseteq Node
  BY LinkedTypes
<1>1. PICK n, s : Chain(n, s, heap, first, last)
  BY DEF Chained
<1>2. n \in Nat /\ Linked!Count = n /\ s[0] = NULL /\ Linked!Most \in Nat
  BY <1>0, <1>1, ContentsNow, NodeFacts DEF Chain
<1>3. /\ n \in 0..Linked!Most /\ Linked!WalkEnds
      /\ \A i \in 0..Linked!Most : Linked!Forward[i] = IF i <= n THEN s[i + 1] ELSE NULL
      /\ \A i \in 0..Linked!Most : Linked!Backward[i] = IF i <= n THEN s[n - i] ELSE NULL
  BY <1>0, <1>1, WalksNow
<1>4. Linked!Cardinality(Linked!Live) = n
  <2>1. Cardinality(DOMAIN heap) = n
    BY <1>0, <1>1, ChainFits
  <2> QED BY <2>1 DEF Linked!Cardinality, Cardinality, Linked!Live
<1>5. ASSUME NEW i \in 0..(n - 1) PROVE Linked!Forward[i] = Linked!Backward[n - 1 - i]
  <2>k. PICK j \in 0..Linked!Most : j = n - 1 - i
    BY <1>2, <1>3
  <2>1. j <= n /\ n - j = i + 1 /\ i \in 0..Linked!Most /\ i <= n
    BY <1>2, <1>3, <2>k
  <2>2. Linked!Backward[j] = s[i + 1] /\ Linked!Forward[i] = s[i + 1]
    BY <1>3, <2>1
  <2> QED BY <2>k, <2>2
<1>6. Linked!Backward[n] = NULL
  <2>1. n <= n /\ n - n = 0
    BY <1>2
  <2> QED BY <1>2, <1>3, <2>1
<1> QED BY <1>2, <1>3, <1>4, <1>5, <1>6

-----------------------------------------------------------------------------
(* The calls of a handle *)

\* What a call of list.h, stack.h or linkedlist.h is to the list behind it.
LEMMA CallIs ==
  ASSUME DispatchNext
  PROVE  \/ impl = "LIST_ARRAY" /\ UNCHANGED <<impl, linked>> /\ Next
         \/ arraylist_free
         \/ impl = "LIST_LINKED" /\ UNCHANGED <<impl, vars>> /\ LinkedNext
         \/ impl = "STACK" /\ UNCHANGED <<impl, vars>> /\ StackNext
         \/ impl = "QUEUE" /\ UNCHANGED <<impl, vars>> /\ QueueNext
<1> DEFINE ArrayCall == impl = "LIST_ARRAY" /\ UNCHANGED <<impl, linked>> /\ Next
           ListCall  == impl = "LIST_LINKED" /\ UNCHANGED <<impl, vars>> /\ LinkedNext
           StackCall == impl = "STACK" /\ UNCHANGED <<impl, vars>> /\ StackNext
           QueueCall == impl = "QUEUE" /\ UNCHANGED <<impl, vars>> /\ QueueNext
           Goal      == ArrayCall \/ arraylist_free \/ ListCall \/ StackCall \/ QueueCall
<1> SUFFICES Goal
  OBVIOUS
<1>1. ASSUME NEW e \in Elem, list_add(e) PROVE Goal
  BY <1>1 DEF list_add, OfArray, OfLinked, Next, LinkedNext, StackNext
<1>2. ASSUME NEW e \in Elem, stack_push(e) PROVE Goal
  BY <1>2 DEF stack_push, OfStack, StackNext
<1>3. ASSUME NEW e \in Elem, NEW pos \in Positions, list_add_pos(pos, e) PROVE Goal
  <2>1. CASE OfArrayAt(pos) /\ (AddPos(pos, e) \/ AddPosMemory \/ AddPosBounds(pos))
    BY <2>1 DEF OfArrayAt, OfArray, Next
  <2>2. CASE OfLinkedAt(pos) /\ (Linked!AddPos(pos, e) \/ Linked!AddMemory)
    BY <2>2 DEF OfLinkedAt, OfLinked, LinkedNext, StackNext, Linked!AddPos
  <2>3. CASE OfLinkedAt(pos) /\ (Linked!InsertLocked(pos) \/ Linked!AddPosBounds(pos))
    BY <2>3 DEF OfLinkedAt, OfLinked, LinkedNext
  <2> QED BY <1>3, <2>1, <2>2, <2>3 DEF list_add_pos
<1>4. ASSUME NEW pos \in Positions, list_get(pos) PROVE Goal
  BY <1>4 DEF list_get, OfArrayAt, OfArray, OfLinkedAt, OfLinked, Next, LinkedNext, StackNext
<1>5. ASSUME NEW pos \in Positions, list_remove(pos) PROVE Goal
  BY <1>5 DEF list_remove, OfArrayAt, OfArray, OfLinkedAt, OfLinked, Next, LinkedNext, StackNext,
              Linked!RemovePos
<1>6. ASSUME NEW pos \in Positions, stack_peek_pos(pos) PROVE Goal
  BY <1>6 DEF stack_peek_pos, OfStack, StackNext
<1>7. CASE list_size
  BY <1>7 DEF list_size, OfArray, OfLinked, Next, LinkedNext, StackNext
<1>8. CASE list_free
  BY <1>8 DEF list_free, OfLinked, LinkedNext, StackNext
<1>9. CASE stack_pop \/ stack_size \/ stack_free
  BY <1>9 DEF stack_pop, stack_size, stack_free, OfStack, StackNext
<1>10. CASE stack_peek
  BY <1>10 DEF stack_peek, stack_peek_pos, OfStack, StackNext
<1>11. ASSUME NEW e \in Elem, linkedlist_add_front(e) PROVE Goal
  BY <1>11 DEF linkedlist_add_front, OfLinked, LinkedNext, StackNext
<1>12. CASE linkedlist_remove_front \/ linkedlist_remove_back
  BY <1>12 DEF linkedlist_remove_front, linkedlist_remove_back, OfLinked, LinkedNext, StackNext
<1>13. CASE Stuck
  BY <1>13 DEF Stuck, NodeLists, LinkedNext, StackNext, QueueNext
<1>16. ASSUME NEW e \in Elem, queue_enqueue(e) PROVE Goal
  BY <1>16 DEF queue_enqueue, OfQueue, QueueNext
<1>17. ASSUME NEW pos \in Positions, queue_peek_pos(pos) PROVE Goal
  BY <1>17 DEF queue_peek_pos, OfQueue, QueueNext
<1>18. CASE queue_dequeue \/ queue_size \/ queue_free
  BY <1>18 DEF queue_dequeue, queue_size, queue_free, OfQueue, QueueNext
<1>19. CASE queue_peek
  BY <1>19 DEF queue_peek, queue_peek_pos, OfQueue, QueueNext
<1> HIDE DEF Goal
<1>14. CASE \E e \in Elem : \/ list_add(e) \/ stack_push(e) \/ queue_enqueue(e)
                           \/ linkedlist_add_front(e)
                           \/ \E pos \in Positions : list_add_pos(pos, e)
  BY <1>1, <1>2, <1>3, <1>11, <1>14, <1>16
<1>15. CASE \E pos \in Positions : \/ list_get(pos) \/ list_remove(pos)
                                   \/ stack_peek_pos(pos) \/ queue_peek_pos(pos)
  BY <1>4, <1>5, <1>6, <1>15, <1>17
<1> QED
  BY <1>7, <1>8, <1>9, <1>10, <1>12, <1>13, <1>14, <1>15, <1>18, <1>19 DEF DispatchNext

-----------------------------------------------------------------------------
(* A step of a linked list that is a chain *)

\* Free may leave the chain behind, an insertion between two nodes breaks it,
\* and any other call is a step of AbstractList, or the refused removal.
LEMMA ChainStep ==
  ASSUME Linked!TypeOK, Chained, ~between, LinkedNext
  PROVE  \/ between' /\ end' = "none"
         \/ end' = "freed" /\ Linked!Live' = {} /\ ~between'
         \/ /\ end' = "none" /\ ~between' /\ Chained'
            /\ \/ Linked!List!Next
               \/ /\ Len(Linked!Contents) > 1 /\ Linked!RemoveRefused(Len(Linked!Contents) - 1)
                  /\ UNCHANGED Linked!Contents
<1> DEFINE Refused == /\ Len(Linked!Contents) > 1 /\ Linked!RemoveRefused(Len(Linked!Contents) - 1)
                      /\ UNCHANGED Linked!Contents
           Kept == end' = "none" /\ ~between' /\ Chained' /\ (Linked!List!Next \/ Refused)
           Goal == \/ between' /\ end' = "none"
                   \/ end' = "freed" /\ Linked!Live' = {} /\ ~between'
                   \/ Kept
<1> SUFFICES Goal
  OBVIOUS
<1>0. PICK n, s : Chain(n, s, heap, first, last)
  BY DEF Chained
<1>a. 0 \in Linked!Pos
  BY NodeFacts DEF Linked!Pos
<1>1. ASSUME NEW e \in Elem, Linked!AddFront(e) PROVE Goal
  <2>1. Chained' /\ Linked!List!AddPos(0, e)
    BY <1>0, <1>1, AddFrontIs
  <2>2. end' = "none" /\ ~between'
    BY <1>1 DEF Linked!AddFront, Linked!Running
  <2> QED BY <1>a, <2>1, <2>2 DEF Linked!List!Next
<1>2. ASSUME NEW e \in Elem, Linked!AddBack(e) PROVE Goal
  <2>1. Chained' /\ Linked!List!AddPos(n, e) /\ n \in Linked!Pos
    BY <1>0, <1>2, AddBackIs
  <2>2. end' = "none" /\ ~between'
    BY <1>2 DEF Linked!AddBack, Linked!Running
  <2> QED BY <2>1, <2>2 DEF Linked!List!Next
<1>3. ASSUME NEW e \in Elem, NEW pos \in Linked!Pos, Linked!InsertBetween(pos, e) PROVE Goal
  BY <1>3 DEF Linked!InsertBetween, Linked!Positioned, Linked!Running
<1>4. CASE Linked!RemoveFront
  <2>1. Chained' /\ Linked!List!Remove(0)
    BY <1>0, <1>4, RemoveFrontIs
  <2>2. end' = "none" /\ ~between'
    BY <1>4 DEF Linked!RemoveFront, Linked!Running
  <2> QED BY <1>a, <2>1, <2>2 DEF Linked!List!Next
<1>5. CASE Linked!RemoveBack
  <2>1. /\ Chained' /\ Linked!List!Remove(Len(Linked!Contents) - 1)
        /\ Len(Linked!Contents) - 1 \in Linked!Pos
    BY <1>0, <1>5, RemoveBackIs
  <2>2. end' = "none" /\ ~between'
    BY <1>5 DEF Linked!RemoveBack, Linked!Running
  <2> QED BY <2>1, <2>2 DEF Linked!List!Next
<1>6. ASSUME NEW pos \in Linked!Pos, Linked!RemoveBetween(pos) PROVE Goal
  <2>1. Chained' /\ Linked!List!Remove(pos)
    BY <1>0, <1>6, RemoveBetweenIs
  <2>2. end' = "none" /\ ~between'
    BY <1>6 DEF Linked!RemoveBetween, Linked!Positioned, Linked!Running
  <2> QED BY <2>1, <2>2 DEF Linked!List!Next
<1>7. CASE Linked!Free
  BY <1>7, FreeIs DEF Linked!Free
<1>8. ASSUME NEW pos \in Linked!Pos, Linked!Get(pos) \/ Linked!Size PROVE Goal
  <2>1. Linked!List!Get(pos) \/ Linked!List!Size
    BY <1>0, <1>8, ReadIs
  <2>2. end' = "none" /\ ~between' /\ UNCHANGED <<heap, first, last>>
    BY <1>8 DEF Linked!Get, Linked!Size, Linked!Positioned, Linked!Running
  <2>3. Chained'
    BY <2>2, Untouched
  <2> QED BY <2>1, <2>2, <2>3 DEF Linked!List!Next
<1>9. ASSUME NEW pos \in Linked!Pos,
             \/ Linked!AddMemory \/ Linked!RemoveEmpty
             \/ Linked!AddPosBounds(pos) \/ Linked!PosBounds(pos)
      PROVE  Goal
  <2>1. Linked!List!OutOfMemory \/ \E p \in Linked!Pos : Linked!List!OutOfBounds(p)
    BY <1>0, <1>9, <1>a, FailIs
  <2>2. end' = "none" /\ ~between' /\ UNCHANGED <<heap, first, last>>
    BY <1>9 DEF Linked!AddMemory, Linked!RemoveEmpty, Linked!AddPosBounds, Linked!PosBounds,
                Linked!Fail, Linked!Running
  <2>3. Chained'
    BY <2>2, Untouched
  <2> QED BY <2>1, <2>2, <2>3 DEF Linked!List!Next
<1>10. ASSUME NEW pos \in Linked!Pos, Linked!RemoveRefused(pos) PROVE Goal
  <2>1. /\ Len(Linked!Contents) > 1 /\ pos = Len(Linked!Contents) - 1
        /\ UNCHANGED <<heap, first, last>> /\ Linked!Contents' = Linked!Contents
    BY <1>0, <1>10, RefusedIs
  <2>2. end' = "none" /\ ~between'
    BY <1>10 DEF Linked!RemoveRefused, Linked!Positioned, Linked!Fail, Linked!Running
  <2>3. Chained'
    BY <2>1, Untouched
  <2>4. Refused
    BY <1>10, <2>1
  <2> QED BY <2>2, <2>3, <2>4
<1>11. ASSUME NEW pos \in Linked!Pos PROVE ~Linked!InsertLocked(pos)
  BY NotLocked
<1>12. ~Linked!Endless /\ ~Linked!Fault
  BY NotEndless, NoFault
<1> HIDE DEF Goal
<1> QED
  BY <1>1, <1>2, <1>3, <1>4, <1>5, <1>6, <1>7, <1>8, <1>9, <1>10, <1>11, <1>12, <1>a
     DEF LinkedNext, StackNext

\* The calls of a stack or a queue never break the chain, and end well.
LEMMA EndsStep ==
  ASSUME Linked!TypeOK, Chained, ~between, end = "none", StackNext \/ QueueNext
  PROVE  ~between' /\ end' \in {"none", "freed"}
<1> DEFINE Goal == ~between' /\ end' \in {"none", "freed"}
<1> SUFFICES Goal
  OBVIOUS
<1>1. ASSUME NEW e \in Elem, Linked!AddFront(e) PROVE Goal
  BY <1>1 DEF Linked!AddFront
<1>2. CASE Linked!RemoveFront \/ Linked!RemoveBack \/ Linked!Size \/ Linked!Free
  BY <1>2 DEF Linked!RemoveFront, Linked!RemoveBack, Linked!Size, Linked!Free
<1>3. ASSUME NEW pos \in Linked!Pos, Linked!Get(pos) \/ Linked!PosBounds(pos) PROVE Goal
  BY <1>3 DEF Linked!Get, Linked!PosBounds, Linked!Fail
<1>4. CASE Linked!AddMemory \/ Linked!RemoveEmpty
  BY <1>4 DEF Linked!AddMemory, Linked!RemoveEmpty, Linked!Fail
<1>5. ~Linked!Endless /\ ~Linked!Fault
  BY NotEndless, NoFault
<1> HIDE DEF Goal
<1> QED BY <1>1, <1>2, <1>3, <1>4, <1>5 DEF StackNext, QueueNext

\* A call finds the list running, and does not mend a broken one.
LEMMA StepRuns ==
  ASSUME LinkedNext
  PROVE  end = "none" /\ (between => between')
<1> DEFINE Runs == end = "none" /\ (between => between')
<1> SUFFICES Runs
  OBVIOUS
<1>1. ASSUME NEW e \in Elem, NEW pos \in Linked!Pos,
             Linked!AddFront(e) \/ Linked!AddBack(e) \/ Linked!InsertBetween(pos, e)
      PROVE  Runs
  BY <1>1 DEF Linked!AddFront, Linked!AddBack, Linked!InsertBetween,
              Linked!Positioned, Linked!Running
<1>2. ASSUME NEW pos \in Linked!Pos,
             \/ Linked!InsertLocked(pos) \/ Linked!RemoveBetween(pos) \/ Linked!Get(pos)
             \/ Linked!AddMemory \/ Linked!RemoveEmpty
             \/ Linked!AddPosBounds(pos) \/ Linked!PosBounds(pos) \/ Linked!RemoveRefused(pos)
      PROVE  Runs
  BY <1>2 DEF Linked!InsertLocked, Linked!RemoveBetween, Linked!Get, Linked!AddMemory,
              Linked!RemoveEmpty, Linked!AddPosBounds, Linked!PosBounds, Linked!RemoveRefused,
              Linked!Fail, Linked!Positioned, Linked!Running
<1>3. CASE \/ Linked!RemoveFront \/ Linked!RemoveBack \/ Linked!Size \/ Linked!Free
           \/ Linked!Endless \/ Linked!Fault
  BY <1>3 DEF Linked!RemoveFront, Linked!RemoveBack, Linked!Size, Linked!Free,
              Linked!Endless, Linked!Fault, Linked!Running
<1>4. 0 \in Linked!Pos
  BY NodeFacts DEF Linked!Pos
<1> HIDE DEF Runs
<1> QED BY <1>1, <1>2, <1>3, <1>4 DEF LinkedNext, StackNext

-----------------------------------------------------------------------------
(* The invariant of a handle *)

\* Until an element is inserted between two others, the nodes of a list that
\* is in use are a chain, and of a stack or a queue they always are.
DInv ==
  /\ HandleOK /\ ElementsAreStored /\ EndsWell
  /\ ~between /\ end = "none" => Chained
  /\ impl \in {"STACK", "QUEUE"} => ~between

\* A handle from list_init.
LEMMA InitDInv == list_init => DInv
<1> SUFFICES ASSUME list_init PROVE DInv
  OBVIOUS
<1>1. /\ heap = [n \in {} |-> NULL] /\ first = NULL /\ last = NULL
      /\ lerr = "LIST_OKAY" /\ lret = NULL /\ end = "none" /\ between = FALSE
  BY DEF list_init, Linked!Init
<1>2. Chained
  BY <1>1, NoNodes DEF Chained
<1>3. Linked!TypeOK
  BY <1>1, NodeFacts DEF Linked!TypeOK, Linked!Live, Linked!Pointer, Linked!Ends
<1>4. CASE impl = "LIST_ARRAY" /\ Init
  <2>1. IInv
    BY <1>4, InitIInv
  <2> QED BY <1>1, <1>2, <1>3, <1>4, <2>1
          DEF DInv, HandleOK, IInv, EndsWell, Linked!EndsWell, NodeLists
<1>5. CASE /\ impl \in NodeLists
           /\ array = <<>> /\ len = 0 /\ allocated = 0
           /\ err = "LIST_OKAY" /\ ret = NULL
  <2>1. array \in [1..allocated -> Slot]
    BY <1>5
  <2>2. TypeOK /\ ElementsAreStored
    BY <1>5, <2>1 DEF TypeOK, ElementsAreStored, Error
  <2> QED BY <1>1, <1>2, <1>3, <1>5, <2>2
          DEF DInv, HandleOK, EndsWell, Linked!EndsWell, NodeLists
<1> QED BY <1>4, <1>5 DEF list_init

\* A call of an array list.
LEMMA ArrayDInv ==
  ASSUME DInv, impl = "LIST_ARRAY", UNCHANGED <<impl, linked>>, [Next]_vars
  PROVE  DInv'
<1>1. IInv'
  BY NextIInv DEF DInv, HandleOK, IInv
<1>2. Linked!TypeOK'
  BY DEF DInv, HandleOK, linked, Linked!TypeOK, Linked!Live
<1>3. HandleOK' /\ ElementsAreStored'
  BY <1>1, <1>2 DEF DInv, HandleOK, IInv, NodeLists, linked
<1>4. EndsWell'
  BY DEF DInv, EndsWell, Linked!EndsWell, Linked!Live, linked
<1>5. Chained' <=> Chained
  BY DEF Chained, linked
<1> QED BY <1>3, <1>4, <1>5 DEF DInv, linked

\* A call of a linked list, a stack or a queue.
LEMMA LinkedDInv ==
  ASSUME DInv, impl \in NodeLists, UNCHANGED <<impl, vars>>, LinkedNext,
         impl = "STACK" => StackNext, impl = "QUEUE" => QueueNext
  PROVE  DInv'
<1>1. Linked!TypeOK'
  BY LinkedTyped DEF DInv, HandleOK
<1>2. TypeOK' /\ ElementsAreStored'
  BY DEF DInv, HandleOK, TypeOK, ElementsAreStored, vars
<1>3. HandleOK'
  BY <1>1, <1>2 DEF DInv, HandleOK, NodeLists, vars
<1>4. end = "none" /\ (between => between') /\ (Linked!TypeOK' => between' \in BOOLEAN)
  BY StepRuns DEF Linked!TypeOK
<1>5. CASE between
  <2>1. between' /\ impl' \notin {"STACK", "QUEUE"}
    BY <1>4, <1>5 DEF DInv
  <2> QED BY <1>2, <1>3, <2>1 DEF DInv, EndsWell, Linked!EndsWell
<1>6. CASE ~between
  <2>1. Chained /\ Linked!TypeOK
    BY <1>4, <1>6 DEF DInv, HandleOK
  <2>2. \/ between' /\ end' = "none"
        \/ end' = "freed" /\ Linked!Live' = {} /\ ~between'
        \/ end' = "none" /\ ~between' /\ Chained'
    BY <1>6, <2>1, ChainStep
  <2>3. impl' \in {"STACK", "QUEUE"} => ~between'
    BY <1>4, <1>6, <2>1, EndsStep
  <2> QED BY <1>2, <1>3, <2>2, <2>3 DEF DInv, EndsWell, Linked!EndsWell
<1> QED BY <1>5, <1>6

\* An array list that is freed.
LEMMA FreeDInv ==
  ASSUME DInv, arraylist_free
  PROVE  DInv'
<1>1. TypeOK' /\ ElementsAreStored'
  BY DEF DInv, HandleOK, TypeOK, ElementsAreStored, vars, arraylist_free
<1>2. Linked!TypeOK'
  BY DEF DInv, HandleOK, linked, Linked!TypeOK, Linked!Live, arraylist_free
<1>3. HandleOK'
  BY <1>1, <1>2 DEF DInv, HandleOK, NodeLists, vars, linked, arraylist_free
<1>4. EndsWell'
  BY DEF DInv, EndsWell, Linked!EndsWell, Linked!Live, linked, arraylist_free
<1>5. Chained' <=> Chained
  BY DEF Chained, linked, arraylist_free
<1> QED BY <1>1, <1>3, <1>4, <1>5 DEF DInv, linked, arraylist_free

\* The invariant is inductive.
LEMMA NextDInv == DInv /\ [DispatchNext]_<<impl, vars, linked>> => DInv'
<1> SUFFICES ASSUME DInv, [DispatchNext]_<<impl, vars, linked>> PROVE DInv'
  OBVIOUS
<1>1. CASE impl = "LIST_ARRAY" /\ UNCHANGED <<impl, linked>> /\ Next
  BY <1>1, ArrayDInv
<1>2. CASE arraylist_free
  BY <1>2, FreeDInv
<1>3. CASE impl = "LIST_LINKED" /\ UNCHANGED <<impl, vars>> /\ LinkedNext
  BY <1>3, LinkedDInv DEF NodeLists
<1>4. CASE impl = "STACK" /\ UNCHANGED <<impl, vars>> /\ StackNext
  BY <1>4, LinkedDInv DEF LinkedNext, NodeLists
<1>6. CASE impl = "QUEUE" /\ UNCHANGED <<impl, vars>> /\ QueueNext
  BY <1>6, LinkedDInv DEF LinkedNext, StackNext, QueueNext, NodeLists
<1>5. CASE UNCHANGED <<impl, vars, linked>>
  <2>1. TypeOK' /\ ElementsAreStored'
    BY <1>5 DEF DInv, HandleOK, TypeOK, ElementsAreStored, vars
  <2>2. Linked!TypeOK'
    BY <1>5 DEF DInv, HandleOK, linked, Linked!TypeOK, Linked!Live
  <2>3. HandleOK'
    BY <1>5, <2>1, <2>2 DEF DInv, HandleOK, vars, linked
  <2>4. EndsWell'
    BY <1>5 DEF DInv, EndsWell, Linked!EndsWell, Linked!Live, linked
  <2>5. Chained' <=> Chained
    BY <1>5 DEF Chained, linked
  <2> QED BY <1>5, <2>1, <2>3, <2>4, <2>5 DEF DInv, linked
<1> QED BY <1>1, <1>2, <1>3, <1>4, <1>5, <1>6, CallIs

\* The invariant, for every sequence of calls.
LEMMA DInvAlways == DispatchSpec => []DInv
BY InitDInv, NextDInv, PTL DEF DispatchSpec

\* Every variable of the handle and of both lists keeps its type, and the list
\* that the handle is not stays as list_init leaves it.
THEOREM HandleAlways == DispatchSpec => []HandleOK
<1>1. DInv => HandleOK
  BY DEF DInv
<1> QED BY <1>1, DInvAlways, PTL

\* The elements of an array list stay in slots the array has.
THEOREM StoredAlways == DispatchSpec => []ElementsAreStored
<1>1. DInv => ElementsAreStored
  BY DEF DInv
<1> QED BY <1>1, DInvAlways, PTL

\* The nodes of a linked list are linked in both directions, with none that a
\* walk does not reach, until an element is inserted between two others.
THEOREM WellLinkedAlways == DispatchSpec => []WellLinked
<1>1. DInv => WellLinked
  BY ChainedWellLinked DEF DInv, HandleOK, WellLinked, Linked!WellLinked
<1> QED BY <1>1, DInvAlways, PTL

\* Until then no call follows a pointer to nowhere, fails to end or leaves the
\* mutex locked, and linkedlist_free gives every node back.
THEOREM EndsWellAlways == DispatchSpec => []EndsWell
<1>1. DInv => EndsWell
  BY DEF DInv
<1> QED BY <1>1, DInvAlways, PTL

-----------------------------------------------------------------------------
(* What the calls do *)

\* Until then every call of a linked list does to its elements what the header
\* says, but for the refused removal of the last of several.
THEOREM StepsLikeListAlways == DispatchSpec => StepsLikeList
<1> DEFINE LikeList ==
             ~between' /\ end' = "none" =>
               \/ Linked!List!Next
               \/ /\ Len(Linked!Contents) > 1 /\ Linked!RemoveRefused(Len(Linked!Contents) - 1)
                  /\ UNCHANGED Linked!Contents
<1>1. DInv /\ [DispatchNext]_<<impl, vars, linked>> => [LikeList]_linked
  <2> SUFFICES ASSUME DInv, [DispatchNext]_<<impl, vars, linked>> PROVE [LikeList]_linked
    OBVIOUS
  <2>1. ASSUME LinkedNext PROVE LikeList
    <3>1. end = "none" /\ (between => between')
      BY <2>1, StepRuns
    <3>2. SUFFICES ASSUME ~between', end' = "none" PROVE LikeList
      OBVIOUS
    <3>3. Chained /\ Linked!TypeOK /\ ~between
      BY <3>1, <3>2 DEF DInv, HandleOK
    <3> QED BY <2>1, <3>2, <3>3, ChainStep
  <2>2. CASE UNCHANGED linked
    BY <2>2
  <2>3. StackNext \/ QueueNext => LinkedNext
    BY DEF LinkedNext, StackNext, QueueNext
  <2> HIDE DEF LikeList
  <2> QED BY <2>1, <2>2, <2>3, CallIs DEF arraylist_free
<1>2. DispatchSpec => [][LikeList]_linked
  BY <1>1, DInvAlways, PTL DEF DispatchSpec
<1> QED BY <1>2 DEF StepsLikeList, Linked!StepsLikeList, LikeList, linked, Linked!vars

\* The calls of a stack and of a queue do to their linked list what list.h
\* promises, and none of their sequences breaks it: last in, first out for a
\* stack, and for a queue what module Queue takes them to do.
THEOREM KeepsOrderAlways == DispatchSpec => KeepsOrder
<1> DEFINE InOrder ==
             impl \in {"STACK", "QUEUE"} =>
               /\ end' \in {"none", "freed"} /\ ~between'
               /\ \A e \in Elem : stack_push(e) \/ queue_enqueue(e) => Enters(e)
               /\ stack_pop => Leaves(0)
               /\ queue_dequeue => Leaves(Len(Linked!Contents) - 1)
               /\ \A pos \in Linked!Pos : stack_peek_pos(pos) \/ queue_peek_pos(pos) => Shows(pos)
               /\ stack_size \/ queue_size => Linked!List!Size
<1>1. DInv /\ [DispatchNext]_<<impl, vars, linked>> => [InOrder]_linked
  <2> SUFFICES ASSUME DInv, [DispatchNext]_<<impl, vars, linked>> PROVE [InOrder]_linked
    OBVIOUS
  <2>1. ASSUME impl \in {"STACK", "QUEUE"}, StackNext \/ QueueNext PROVE InOrder
    <3>1. end = "none" /\ ~between
      BY <2>1, StepRuns DEF DInv, LinkedNext, StackNext, QueueNext
    <3>2. Chained /\ Linked!TypeOK
      BY <3>1 DEF DInv, HandleOK
    <3>3. PICK n, s : Chain(n, s, heap, first, last)
      BY <3>2 DEF Chained
    <3>4. 0 \in Linked!Pos
      BY NodeFacts DEF Linked!Pos
    <3>5. end' \in {"none", "freed"} /\ ~between'
      BY <2>1, <3>1, <3>2, EndsStep
    <3>6. ASSUME NEW e \in Elem, stack_push(e) \/ queue_enqueue(e) PROVE Enters(e)
      BY <3>2, <3>3, <3>4, <3>6, AddFrontIs, FailIs DEF stack_push, queue_enqueue, Enters
    <3>7. ASSUME stack_pop PROVE Leaves(0)
      BY <3>2, <3>3, <3>4, <3>7, RemoveFrontIs, FailIs DEF stack_pop, Leaves
    <3>8. ASSUME queue_dequeue PROVE Leaves(Len(Linked!Contents) - 1)
      BY <3>2, <3>3, <3>4, <3>8, RemoveBackIs, FailIs DEF queue_dequeue, Leaves
    <3>9. ASSUME NEW pos \in Linked!Pos, stack_peek_pos(pos) \/ queue_peek_pos(pos)
          PROVE  Shows(pos)
      BY <3>2, <3>3, <3>9, ReadIs, FailIs DEF stack_peek_pos, queue_peek_pos, Shows
    <3>10. ASSUME stack_size \/ queue_size PROVE Linked!List!Size
      BY <3>2, <3>3, <3>4, <3>10, ReadIs DEF stack_size, queue_size
    <3> QED BY <3>5, <3>6, <3>7, <3>8, <3>9, <3>10
  <2>2. CASE UNCHANGED linked
    BY <2>2
  <2>3. ASSUME impl \notin {"STACK", "QUEUE"} PROVE InOrder
    BY <2>3
  <2> HIDE DEF InOrder
  <2> QED BY <2>1, <2>2, <2>3, CallIs DEF arraylist_free
<1>2. DispatchSpec => [][InOrder]_linked
  BY <1>1, DInvAlways, PTL DEF DispatchSpec
<1>3. KeepsOrder <=> [][InOrder]_linked
  BY DEF KeepsOrder
<1> HIDE DEF InOrder
<1> QED BY <1>2, <1>3, PTL

\* An array list behaves as the sequence that list.h describes, whatever calls
\* are made, in whatever order, and whether or not memory runs out.
THEOREM ImplementsListAlways == DispatchSpec => ImplementsList
<1>1. list_init => List!Init
  <2> SUFFICES ASSUME list_init PROVE List!Init
    OBVIOUS
  <2>1. CASE Init
    BY <2>1, InitRefines
  <2>2. CASE len = 0 /\ err = "LIST_OKAY" /\ ret = NULL
    <3>1. Contents = <<>>
      BY <2>2 DEF Contents
    <3> QED BY <2>2, <3>1 DEF List!Init
  <2> QED BY <2>1, <2>2 DEF list_init
<1>2. DInv /\ [DispatchNext]_<<impl, vars, linked>> => [List!Next]_<<Contents, err, ret>>
  <2> SUFFICES ASSUME DInv, [DispatchNext]_<<impl, vars, linked>>
               PROVE  [List!Next]_<<Contents, err, ret>>
    OBVIOUS
  <2>1. IInv
    BY DEF DInv, HandleOK, IInv
  <2>2. [Next]_vars
    BY CallIs DEF arraylist_free
  <2> QED BY <2>1, <2>2, NextRefines
<1>3. DispatchSpec => List!Init /\ [][List!Next]_<<Contents, err, ret>>
  BY <1>1, <1>2, DInvAlways, PTL DEF DispatchSpec
<1> QED BY <1>3 DEF ImplementsList, List!Spec

=============================================================================
