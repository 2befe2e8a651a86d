---------------------------- MODULE PacketProofs ----------------------------
(***************************************************************************)
(* Theorems about PacketReceiver, for all packets, slots and steps of the  *)
(* list: what the handlers of network/packethandlers.c own and free, which *)
(* bytes they read, and what they return.                                  *)
(***************************************************************************)
EXTENDS PacketReceiver, TLAPS

-----------------------------------------------------------------------------
(* The inductive invariant *)

\* What a handler of the type may have still to do.
Rests(type) ==
    {<<"release">>} \cup
    CASE type = "STATE_REQUEST" -> {<<"base", "release">>}
      [] type \in {"INIT", "USER_DATA"} ->
            {<<"base", "data", "release">>, <<"data", "release">>}
      [] type \in {"STATE_RESPONSE", "STATE_UPDATE", "DEBUG"} ->
            {<<"base", "data", "arbitrary", "release">>,
             <<"data", "arbitrary", "release">>, <<"arbitrary", "release">>}
      [] type = "CONFIG_REQUEST" ->
            {<<"base", "data", "list", "keys", "release">>,
             <<"data", "list", "keys", "release">>,
             <<"list", "keys", "release">>, <<"keys", "release">>}
      [] OTHER ->
            {<<"base", "data", "list", "pairs", "release">>,
             <<"data", "list", "pairs", "release">>,
             <<"list", "pairs", "release">>, <<"pairs", "release">>}

\* The objects of the packet being received, of the one being unpacked and of
\* those that have been returned.
TlvPart     == IF tlv = NULL THEN {} ELSE {Obj(tlv, "tlv")}
HandlerPart ==
    IF todo = <<>> THEN {} ELSE (IF raw.live THEN RawParts(slot) ELSE {}) \cup Owned(slot, made)
KeptPart    == UNION {Owned(s, kept[s]) : s \in DOMAIN kept}

HeapFits ==
    /\ heap = TlvPart \cup HandlerPart \cup KeptPart \cup lost
    /\ lost \subseteq {Obj(s, "lost") : s \in Slot}

\* Nothing is in a packet that its destroy function would not free.
Built(k) ==
    /\ k.has \subseteq Destroys[k.from.type]
    /\ k.list # NULL => k.from.type \in ListTypes

\* The list is what the payload says, or an allocation has failed.
Complete(k) ==
    k.from.type \in ListTypes => k.starved \/ k.list = [n \in DOMAIN k.from.entries |-> n]

\* A parser at byte at of p has passed the first n entries, and k has them in
\* its list.
Passed(p, at, k, n) ==
    /\ IF n < Len(p.entries) THEN at = p.entries[n + 1].at ELSE at >= EndOf(p.entries)
    /\ k.starved \/ k.list = [m \in 1..n |-> m]

\* The length of entry b is misread as a negative one, and the parser has not
\* passed it: it never will.
Doomed(p, at) ==
    \E b \in DOMAIN p.entries :
        /\ ValueLength(p.entries[b]) # p.entries[b].value
        /\ at < After(p.entries[b])

OnCourse(p, at, k) == \E n \in 0..Len(p.entries) : Passed(p, at, k, n)

\* What the handler has made when it comes to a step.
StageFits ==
    /\ Head(todo) # "base" => "packet" \in made.has
    /\ Head(todo) \in {"base", "data", "arbitrary", "list"} => made.list = NULL /\ pos = 0
    /\ Head(todo) = "pairs" =>
         /\ made.list # NULL
         /\ pos < raw.len \/ raw.len = 0
         /\ Doomed(raw, pos) \/ OnCourse(raw, pos, made)
    /\ Head(todo) = "keys" =>
         /\ made.list = NULL => made.starved
         /\ OnCourse(raw, pos, made)
    /\ Head(todo) = "release" => Complete(made)

HandlerFits ==
    todo # <<>> =>
      /\ tlv = NULL /\ slot \notin DOMAIN kept
      /\ todo \in Rests(raw.type) /\ Built(made)
      /\ StageFits

KeptFits ==
    /\ tlv \notin DOMAIN kept
    /\ \A s \in DOMAIN kept : "packet" \in kept[s].has /\ Built(kept[s]) /\ Complete(kept[s])

PInv == TypeOK /\ HeapFits /\ HandlerFits /\ KeptFits /\ SafeMemory /\ StaysInside

-----------------------------------------------------------------------------
(* Operators *)

\* Each rest of a course has a first step; the others are a rest again.
LEMMA RestStep ==
    ASSUME NEW type \in Type, NEW t \in Rests(type)
    PROVE  /\ t # <<>>
           /\ Head(t) \in {"base", "data", "arbitrary", "list", "keys", "pairs", "release"}
           /\ Head(t) # "release" => Tail(t) \in Rests(type)
           /\ Head(t) = "base" => Head(Tail(t)) \in {"data", "release"}
           /\ Head(t) = "base" /\ Head(Tail(t)) = "release" => type \notin ListTypes
           /\ Head(t) = "data" => Head(Tail(t)) \in {"arbitrary", "list", "release"}
           /\ Head(t) = "data" /\ Head(Tail(t)) = "release" => type \notin ListTypes
           /\ Head(t) = "arbitrary" =>
                Head(Tail(t)) = "release" /\ type \notin ListTypes /\ "arbitrary" \in Destroys[type]
           /\ Head(t) = "list" =>
                /\ type \in ListTypes
                /\ Head(Tail(t)) = IF type \in PairTypes THEN "pairs" ELSE "keys"
           /\ Head(t) = "pairs" => Head(Tail(t)) = "release" /\ type \in PairTypes
           /\ Head(t) = "keys" =>
                Head(Tail(t)) = "release" /\ type \in ListTypes /\ type \notin PairTypes
  <1>1. CASE type = "STATE_REQUEST"
    <2>1. type \notin ListTypes
      BY <1>1 DEF ListTypes, PairTypes
    <2>2. Rests(type) = {<<"release">>,
                         <<"base", "release">>}
      BY <1>1 DEF Rests, PairTypes
    <2>3. CASE t = <<"release">>
      BY <2>3
    <2>4. CASE t = <<"base", "release">>
      <3>1. Head(t) = "base" /\ Tail(t) = <<"release">> /\ t # <<>>
        BY <2>4
      <3>2. Tail(t) \in Rests(type) /\ Head(Tail(t)) = "release"
        BY <3>1, <2>2
      <3> QED
        BY <3>1, <3>2, <2>1
    <2> QED
      BY <2>2, <2>3, <2>4
  <1>2. CASE type \in {"INIT", "USER_DATA"}
    <2>1. type \notin ListTypes
      BY <1>2 DEF ListTypes, PairTypes
    <2>2. Rests(type) = {<<"release">>,
                         <<"data", "release">>,
                         <<"base", "data", "release">>}
      BY <1>2 DEF Rests, PairTypes
    <2>3. CASE t = <<"release">>
      BY <2>3
    <2>4. CASE t = <<"data", "release">>
      <3>1. Head(t) = "data" /\ Tail(t) = <<"release">> /\ t # <<>>
        BY <2>4
      <3>2. Tail(t) \in Rests(type) /\ Head(Tail(t)) = "release"
        BY <3>1, <2>2
      <3> QED
        BY <3>1, <3>2, <2>1
    <2>5. CASE t = <<"base", "data", "release">>
      <3>1. Head(t) = "base" /\ Tail(t) = <<"data", "release">> /\ t # <<>>
        BY <2>5
      <3>2. Tail(t) \in Rests(type) /\ Head(Tail(t)) = "data"
        BY <3>1, <2>2
      <3> QED
        BY <3>1, <3>2, <2>1
    <2> QED
      BY <2>2, <2>3, <2>4, <2>5
  <1>3. CASE type \in {"STATE_RESPONSE", "STATE_UPDATE", "DEBUG"}
    <2>1. type \notin ListTypes /\ "arbitrary" \in Destroys[type]
      BY <1>3 DEF ListTypes, PairTypes, Destroys, destroyStateResponse,
                  destroyStateUpdate, destroyDebug
    <2>2. Rests(type) = {<<"release">>,
                         <<"arbitrary", "release">>,
                         <<"data", "arbitrary", "release">>,
                         <<"base", "data", "arbitrary", "release">>}
      BY <1>3 DEF Rests, PairTypes
    <2>3. CASE t = <<"release">>
      BY <2>3
    <2>4. CASE t = <<"arbitrary", "release">>
      <3>1. Head(t) = "arbitrary" /\ Tail(t) = <<"release">> /\ t # <<>>
        BY <2>4
      <3>2. Tail(t) \in Rests(type) /\ Head(Tail(t)) = "release"
        BY <3>1, <2>2
      <3> QED
        BY <3>1, <3>2, <2>1
    <2>5. CASE t = <<"data", "arbitrary", "release">>
      <3>1. Head(t) = "data" /\ Tail(t) = <<"arbitrary", "release">> /\ t # <<>>
        BY <2>5
      <3>2. Tail(t) \in Rests(type) /\ Head(Tail(t)) = "arbitrary"
        BY <3>1, <2>2
      <3> QED
        BY <3>1, <3>2, <2>1
    <2>6. CASE t = <<"base", "data", "arbitrary", "release">>
      <3>1. Head(t) = "base" /\ Tail(t) = <<"data", "arbitrary", "release">> /\ t # <<>>
        BY <2>6
      <3>2. Tail(t) \in Rests(type) /\ Head(Tail(t)) = "data"
        BY <3>1, <2>2
      <3> QED
        BY <3>1, <3>2, <2>1
    <2> QED
      BY <2>2, <2>3, <2>4, <2>5, <2>6
  <1>4. CASE type = "CONFIG_REQUEST"
    <2>1. type \in ListTypes /\ type \notin PairTypes
      BY <1>4 DEF ListTypes, PairTypes
    <2>2. Rests(type) = {<<"release">>,
                         <<"keys", "release">>,
                         <<"list", "keys", "release">>,
                         <<"data", "list", "keys", "release">>,
                         <<"base", "data", "list", "keys", "release">>}
      BY <1>4 DEF Rests, PairTypes
    <2>3. CASE t = <<"release">>
      BY <2>3
    <2>4. CASE t = <<"keys", "release">>
      <3>1. Head(t) = "keys" /\ Tail(t) = <<"release">> /\ t # <<>>
        BY <2>4
      <3>2. Tail(t) \in Rests(type) /\ Head(Tail(t)) = "release"
        BY <3>1, <2>2
      <3> QED
        BY <3>1, <3>2, <2>1
    <2>5. CASE t = <<"list", "keys", "release">>
      <3>1. Head(t) = "list" /\ Tail(t) = <<"keys", "release">> /\ t # <<>>
        BY <2>5
      <3>2. Tail(t) \in Rests(type) /\ Head(Tail(t)) = "keys"
        BY <3>1, <2>2
      <3> QED
        BY <3>1, <3>2, <2>1
    <2>6. CASE t = <<"data", "list", "keys", "release">>
      <3>1. Head(t) = "data" /\ Tail(t) = <<"list", "keys", "release">> /\ t # <<>>
        BY <2>6
      <3>2. Tail(t) \in Rests(type) /\ Head(Tail(t)) = "list"
        BY <3>1, <2>2
      <3> QED
        BY <3>1, <3>2, <2>1
    <2>7. CASE t = <<"base", "data", "list", "keys", "release">>
      <3>1. Head(t) = "base" /\ Tail(t) = <<"data", "list", "keys", "release">> /\ t # <<>>
        BY <2>7
      <3>2. Tail(t) \in Rests(type) /\ Head(Tail(t)) = "data"
        BY <3>1, <2>2
      <3> QED
        BY <3>1, <3>2, <2>1
    <2> QED
      BY <2>2, <2>3, <2>4, <2>5, <2>6, <2>7
  <1>5. CASE type \in PairTypes
    <2>1. type \in ListTypes /\ type \in PairTypes
      BY <1>5 DEF ListTypes, PairTypes
    <2>2. Rests(type) = {<<"release">>,
                         <<"pairs", "release">>,
                         <<"list", "pairs", "release">>,
                         <<"data", "list", "pairs", "release">>,
                         <<"base", "data", "list", "pairs", "release">>}
      BY <1>5 DEF Rests, PairTypes
    <2>3. CASE t = <<"release">>
      BY <2>3
    <2>4. CASE t = <<"pairs", "release">>
      <3>1. Head(t) = "pairs" /\ Tail(t) = <<"release">> /\ t # <<>>
        BY <2>4
      <3>2. Tail(t) \in Rests(type) /\ Head(Tail(t)) = "release"
        BY <3>1, <2>2
      <3> QED
        BY <3>1, <3>2, <2>1
    <2>5. CASE t = <<"list", "pairs", "release">>
      <3>1. Head(t) = "list" /\ Tail(t) = <<"pairs", "release">> /\ t # <<>>
        BY <2>5
      <3>2. Tail(t) \in Rests(type) /\ Head(Tail(t)) = "pairs"
        BY <3>1, <2>2
      <3> QED
        BY <3>1, <3>2, <2>1
    <2>6. CASE t = <<"data", "list", "pairs", "release">>
      <3>1. Head(t) = "data" /\ Tail(t) = <<"list", "pairs", "release">> /\ t # <<>>
        BY <2>6
      <3>2. Tail(t) \in Rests(type) /\ Head(Tail(t)) = "list"
        BY <3>1, <2>2
      <3> QED
        BY <3>1, <3>2, <2>1
    <2>7. CASE t = <<"base", "data", "list", "pairs", "release">>
      <3>1. Head(t) = "base" /\ Tail(t) = <<"data", "list", "pairs", "release">> /\ t # <<>>
        BY <2>7
      <3>2. Tail(t) \in Rests(type) /\ Head(Tail(t)) = "data"
        BY <3>1, <2>2
      <3> QED
        BY <3>1, <3>2, <2>1
    <2> QED
      BY <2>2, <2>3, <2>4, <2>5, <2>6, <2>7
  <1> QED
    BY <1>1, <1>2, <1>3, <1>4, <1>5 DEF Type, Unpack, PairTypes

\* The course of a type is a rest.
LEMMA RestFirst ==
    ASSUME NEW type \in Type
    PROVE  Unpack[type] \in Rests(type) /\ Head(Unpack[type]) = "base" /\ Unpack[type] # <<>>
  BY DEF Type, Unpack, Rests, unpackInit, unpackStateRequest, unpackStateResponse,
         unpackStateUpdate, unpackConfigRequest, unpackConfigResponse, unpackConfigUpdate,
         unpackUserData, unpackDebug

\* Every packet and its structure are destroyed; a list, where the type has one.
LEMMA DestroysFacts ==
    ASSUME NEW type \in Type
    PROVE  /\ {"packet", "data"} \subseteq Destroys[type]
           /\ Destroys[type] \subseteq {"packet", "data", "arbitrary", "list"}
           /\ "list" \in Destroys[type] <=> type \in ListTypes
           /\ ListTypes \subseteq Type /\ PairTypes \subseteq ListTypes
  BY DEF Type, Unpack, Destroys, destroyInit, destroyStateRequest, destroyStateResponse,
         destroyStateUpdate, destroyConfigRequest, destroyConfigResponse, destroyConfigUpdate,
         destroyUserData, destroyDebug, ListTypes, PairTypes

\* What a packet owns is in its slot; no raw packet, and nothing lost.
LEMMA OwnedKinds ==
    ASSUME NEW s, NEW k \in Unpacked
    PROVE  \A o \in Owned(s, k) : o[1] = s /\ o[2] \notin {"tlv", "bytes", "lost"}
  BY DEF Owned, Unpacked, EntryParts, Obj

\* What the list and its elements are, and what the rest of the packet is.
ListParts(s, k) == Owned(s, [k EXCEPT !.has = {}])

LEMMA OwnedParts ==
    ASSUME NEW s, NEW k \in Unpacked
    PROVE  /\ Owned(s, k) = {Obj(s, what) : what \in k.has} \cup ListParts(s, k)
           /\ \A o \in ListParts(s, k) : o[2] \notin {"packet", "data", "arbitrary"}
           /\ k.list = NULL => ListParts(s, k) = {}
  BY DEF Owned, Unpacked, ListParts, EntryParts, Obj

\* What is owned depends on the structures and the list alone.
LEMMA OwnedHas ==
    ASSUME NEW s, NEW k \in Unpacked, NEW j \in Unpacked,
           j.from = k.from, j.list = k.list, NEW what, j.has = k.has \cup {what}
    PROVE  Owned(s, j) = Owned(s, k) \cup {Obj(s, what)}
  BY DEF Owned

LEMMA OwnedSame ==
    ASSUME NEW s, NEW k \in Unpacked, NEW j \in Unpacked,
           j.from = k.from, j.list = k.list, j.has = k.has
    PROVE  Owned(s, j) = Owned(s, k)
  BY DEF Owned

\* A list that has just been made, and one with an element more.
LEMMA OwnedList ==
    ASSUME NEW s, NEW k \in Unpacked, NEW j \in Unpacked,
           j.from = k.from, k.list = NULL, j.list = <<>>, j.has = k.has
    PROVE  Owned(s, j) = Owned(s, k) \cup {Obj(s, "list")}
  <1>1. j.list # NULL /\ DOMAIN j.list = {}
    <2>1. j.list \in Seq(Nat) /\ Len(j.list) = 0
      OBVIOUS
    <2>2. j.list # NULL
      BY <2>1, ListAssumption
    <2>3. DOMAIN j.list = 1..0
      BY <2>1
    <2> QED
      BY <2>2, <2>3
  <1>2. UNION {EntryParts(s, j.from, j.list[n], n) : n \in DOMAIN j.list} = {}
    BY <1>1
  <1> QED
    BY <1>1, <1>2 DEF Owned

Grown(s, k, j, new) == Owned(s, j) = Owned(s, k) \cup new

LEMMA OwnedAppend ==
    ASSUME NEW s, NEW k \in Unpacked, NEW j \in Unpacked, NEW i \in Nat,
           j.from = k.from, k.list # NULL, j.list = Append(k.list, i), j.has = k.has
    PROVE  Grown(s, k, j, EntryParts(s, k.from, i, Len(k.list) + 1))
  <1>1. k.list \in Seq(Nat) /\ j.list \in Seq(Nat) /\ j.list # NULL
    BY ListAssumption, SMTT(40) DEF Unpacked
  <1>2. DOMAIN j.list = DOMAIN k.list \cup {Len(k.list) + 1}
    BY <1>1
  <1>3. \A n \in DOMAIN k.list : j.list[n] = k.list[n]
    BY <1>1
  <1>4. j.list[Len(k.list) + 1] = i
    BY <1>1
  <1> DEFINE Part(n)  == EntryParts(s, k.from, k.list[n], n)
             PartJ(n) == EntryParts(s, j.from, j.list[n], n)
             All      == UNION {Part(n) : n \in DOMAIN k.list}
             AllJ     == UNION {PartJ(n) : n \in DOMAIN j.list}
             Has      == {Obj(s, what) : what \in k.has}
  <1>5. /\ Owned(s, j) = Has \cup ({Obj(s, "list")} \cup AllJ)
        /\ Owned(s, k) = Has \cup ({Obj(s, "list")} \cup All)
    BY <1>1, Zenon DEF Owned
  <1>6. \A n \in DOMAIN k.list : PartJ(n) = Part(n)
    BY <1>3
  <1>7. PartJ(Len(k.list) + 1) = EntryParts(s, k.from, i, Len(k.list) + 1)
    BY <1>4
  <1> HIDE DEF Part, PartJ
  <1>8. \A x : /\ x \in AllJ <=> \E n \in DOMAIN j.list : x \in PartJ(n)
               /\ x \in All <=> \E n \in DOMAIN k.list : x \in Part(n)
    OBVIOUS
  <1> HIDE DEF All, AllJ, Has
  <1>9. \A x : x \in AllJ <=> x \in All \/ x \in PartJ(Len(k.list) + 1)
    BY <1>2, <1>6, <1>8
  <1> QED
    BY <1>5, <1>7, <1>9 DEF Grown

-----------------------------------------------------------------------------
(* Numbers *)

\* The size of a value is read as it is, or as a negative number.
LEMMA LengthReading ==
    ASSUME NEW e \in Entry, e.value + 4 < 256 * 65536, signed \in BOOLEAN
    PROVE  /\ ValueLength(e) \in Int
           /\ \/ ValueLength(e) = e.value
              \/ signed /\ e.value >= 124 /\ ValueLength(e) <= -5
  <1> DEFINE n  == e.value + 4
             hi  == n \div 65536
             mid == (n \div 256) % 256
             lo  == n % 256
  <1>1. /\ n \in Nat /\ hi \in 0..255 /\ mid \in 0..255 /\ lo \in 0..255
        /\ n = hi * 65536 + mid * 256 + lo
    BY DEF Entry
  <1>2. ValueLength(e) = LengthFrom(hi, mid, lo) - 4
    BY DEF ValueLength
  <1>3. e.value = n - 4 /\ e.value \in Nat
    BY DEF Entry
  <1> HIDE DEF n, hi, mid, lo
  <1>4. CASE ~signed
    BY <1>1, <1>2, <1>3, <1>4 DEF LengthFrom, SignExtended
  <1>5. CASE signed
    BY <1>1, <1>2, <1>3, <1>5 DEF LengthFrom, SignExtended
  <1> QED
    BY <1>4, <1>5

\* What is left after the fixed bytes, or so much that nobody has it.
LEMMA ArbitraryFits ==
    ASSUME NEW len \in Nat, len < SizeMax, NEW fixed \in {0, 4, 8, 12}
    PROVE  LET size == (len - fixed) % SizeMax
           IN  Allocatable(size) => ~(fixed + size > len)
  <1>1. SizeMax \in Nat /\ SizeMax >= 24
    BY SizeAssumption
  <1>2. CASE len >= fixed
    <2>1. (len - fixed) % SizeMax = len - fixed
      BY <1>1, <1>2
    <2> QED
      BY <2>1, <1>2
  <1>3. CASE len < fixed
    <2>1. (len - fixed) % SizeMax = SizeMax + len - fixed
      BY <1>1, <1>3
    <2>2. SizeMax \div 2 <= SizeMax + len - fixed
      BY <1>1, <1>3
    <2> QED
      BY <2>1, <2>2, <1>1 DEF Allocatable
  <1> QED
    BY <1>2, <1>3

LEMMA FixedBytesType ==
    ASSUME NEW type \in Type
    PROVE  FixedBytes(type) \in {0, 4, 8, 12}
  BY DEF FixedBytes, Type, Unpack

-----------------------------------------------------------------------------
(* Where the entries of a payload are *)

LEMMA Layout ==
    ASSUME NEW p, Encoded(p)
    PROVE  /\ p.len \in Nat /\ EndOf(p.entries) \in Nat /\ EndOf(p.entries) <= p.len
           /\ \A i \in DOMAIN p.entries :
                /\ p.entries[i] \in Entry /\ After(p.entries[i]) \in Nat
                /\ p.entries[i].at < After(p.entries[i])
                /\ After(p.entries[i]) <= EndOf(p.entries)
           /\ \A i, j \in DOMAIN p.entries :
                i < j => After(p.entries[i]) + Gap(p.type) <= p.entries[j].at
           /\ Gap(p.type) \in {0, 1}
  <1>1. p.entries \in Seq(Entry) /\ p.len \in Nat /\ LaidOut(p.type, p.entries)
    BY DEF Encoded
  <1>2. \A i \in DOMAIN p.entries : p.entries[i] \in Entry /\ i \in 1..Len(p.entries)
    BY <1>1
  <1>3. \A i \in DOMAIN p.entries : After(p.entries[i]) \in Nat
                                   /\ p.entries[i].at < After(p.entries[i])
    <2> TAKE i \in DOMAIN p.entries
    <2>1. p.entries[i].head + p.entries[i].value >= 1
      BY <1>1 DEF LaidOut
    <2>2. p.entries[i].at \in Nat /\ p.entries[i].head \in Nat /\ p.entries[i].value \in Nat
      BY <1>2 DEF Entry
    <2> QED
      BY <2>1, <2>2 DEF After
  <1>4. Gap(p.type) \in {0, 1}
    BY DEF Gap
  <1>5. \A i, j \in DOMAIN p.entries :
          i < j => After(p.entries[i]) + Gap(p.type) <= p.entries[j].at
    BY <1>1, <1>2, <1>3, <1>4 DEF LaidOut, Entry
  <1>6. p.entries # <<>> => Len(p.entries) \in DOMAIN p.entries
    BY <1>1
  <1>7. EndOf(p.entries) \in Nat
    BY <1>3, <1>6 DEF EndOf
  <1>8. ASSUME NEW i \in DOMAIN p.entries
        PROVE  After(p.entries[i]) <= EndOf(p.entries)
    <2>1. p.entries # <<>> /\ Len(p.entries) \in DOMAIN p.entries /\ i <= Len(p.entries)
      BY <1>1, <1>2, <1>6
    <2>2. EndOf(p.entries) = After(p.entries[Len(p.entries)])
      BY <2>1 DEF EndOf
    <2>3. CASE i = Len(p.entries)
      BY <2>2, <2>3, <1>3
    <2>4. CASE i < Len(p.entries)
      <3>1. After(p.entries[i]) + Gap(p.type) <= p.entries[Len(p.entries)].at
        BY <1>5, <2>1, <2>4
      <3>2. p.entries[Len(p.entries)].at \in Nat
        BY <1>2, <2>1 DEF Entry
      <3> QED
        BY <3>1, <3>2, <1>3, <1>4, <2>1, <2>2
    <2> QED
      BY <2>1, <2>3, <2>4, <1>2, <1>1
  <1> QED
    BY <1>1, <1>2, <1>3, <1>4, <1>5, <1>7, <1>8 DEF Encoded

\* An entry begins behind the others before it, and none in the padding.
LEMMA NextEntry ==
    ASSUME NEW p, Encoded(p), NEW i \in DOMAIN p.entries
    PROVE  /\ i < Len(p.entries) =>
                i + 1 \in DOMAIN p.entries
                /\ p.entries[i + 1].at = After(p.entries[i]) + Gap(p.type)
           /\ i = Len(p.entries) => EndOf(p.entries) = After(p.entries[i])
           /\ \A j \in DOMAIN p.entries : p.entries[j].at = p.entries[i].at => j = i
  <1>1. p.entries \in Seq(Entry) /\ LaidOut(p.type, p.entries)
    BY DEF Encoded
  <1>2. DOMAIN p.entries = 1..Len(p.entries) /\ Len(p.entries) \in Nat
    BY <1>1
  <1>3. i < Len(p.entries) => i + 1 \in DOMAIN p.entries
    BY <1>2
  <1>4. i < Len(p.entries) => p.entries[i + 1].at = After(p.entries[i]) + Gap(p.type)
    BY <1>1, <1>3 DEF LaidOut
  <1>5. i = Len(p.entries) => EndOf(p.entries) = After(p.entries[i])
    BY <1>1, <1>2 DEF EndOf
  <1>6. ASSUME NEW j \in DOMAIN p.entries, p.entries[j].at = p.entries[i].at
        PROVE  j = i
    <2>1. /\ i < j => After(p.entries[i]) + Gap(p.type) <= p.entries[j].at
          /\ j < i => After(p.entries[j]) + Gap(p.type) <= p.entries[i].at
          /\ p.entries[i].at < After(p.entries[i]) /\ p.entries[j].at < After(p.entries[j])
          /\ Gap(p.type) \in {0, 1}
          /\ After(p.entries[i]) \in Nat /\ After(p.entries[j]) \in Nat
          /\ p.entries[i].at \in Nat /\ p.entries[j].at \in Nat
      BY Layout DEF Entry
    <2> QED
      BY <1>2, <1>6, <2>1
  <1> QED
    BY <1>3, <1>4, <1>5, <1>6

-----------------------------------------------------------------------------
(* What the invariant says while a handler runs, and what keeps it *)

LEMMA HandlerFacts ==
    ASSUME PInv, todo # <<>>
    PROVE  /\ slot \in Slot /\ slot # NULL /\ slot \notin DOMAIN kept /\ tlv = NULL
           /\ made \in Unpacked /\ PacketOK(made) /\ made.from = raw /\ Built(made)
           /\ raw \in RawForm /\ Encoded(raw) /\ raw.type \in Type
           /\ todo \in Rests(raw.type) /\ StageFits
           /\ raw.live => heap = RawParts(slot) \cup Owned(slot, made) \cup KeptPart \cup lost
           /\ lost \subseteq heap /\ pos \in Int
  <1>1. slot \in Slot /\ PacketOK(made) /\ made.from = raw /\ pos \in Int /\ lost \subseteq heap
    BY DEF PInv, TypeOK
  <1>2. made \in Unpacked /\ Encoded(raw) /\ raw \in RawForm /\ raw.type \in Type
    BY <1>1 DEF PacketOK, Unpacked, RawForm
  <1>3. /\ tlv = NULL /\ slot \notin DOMAIN kept /\ Built(made)
        /\ todo \in Rests(raw.type) /\ StageFits
    BY DEF PInv, HandlerFits
  <1>4. raw.live => heap = RawParts(slot) \cup Owned(slot, made) \cup KeptPart \cup lost
    BY <1>3 DEF PInv, HeapFits, TlvPart, HandlerPart
  <1> QED
    BY <1>1, <1>2, <1>3, <1>4, SlotAssumption

\* A handler that goes on.
LEMMA Continues ==
    ASSUME PInv, todo # <<>>, raw.live,
           UNCHANGED <<signed, slot, raw, kept, listener, udp>>,
           todo' \in Rests(raw.type), todo' # <<>>, pos' \in Int, fault' = "none",
           PacketOK(made'), made'.from = raw, Built(made'), StageFits',
           lost' \subseteq heap', lost' \subseteq {Obj(s, "lost") : s \in Slot},
           heap' = RawParts(slot) \cup Owned(slot, made') \cup KeptPart \cup lost'
    PROVE  PInv'
  <1>1. TypeOK'
    BY HandlerFacts DEF PInv, TypeOK, listener, udp
  <1>2. KeptPart' = KeptPart
    BY DEF KeptPart
  <1>3. HeapFits'
    BY <1>2, HandlerFacts DEF HeapFits, TlvPart, HandlerPart, listener
  <1>4. HandlerFits' /\ KeptFits'
    BY HandlerFacts DEF PInv, HandlerFits, KeptFits, listener
  <1>5. SafeMemory' /\ StaysInside'
    BY DEF SafeMemory, StaysInside
  <1> QED
    BY <1>1, <1>3, <1>4, <1>5 DEF PInv

\* One object more.
LEMMA Allocates ==
    ASSUME PInv, todo # <<>>, raw.live,
           UNCHANGED <<signed, slot, raw, kept, listener, udp>>, Running,
           todo' \in Rests(raw.type), todo' # <<>>, pos' \in Int,
           PacketOK(made'), made'.from = raw, Built(made'), StageFits',
           NEW new, Owned(slot, made') = Owned(slot, made) \cup new, Malloc(new)
    PROVE  PInv'
  <1>1. heap' = RawParts(slot) \cup Owned(slot, made') \cup KeptPart \cup lost'
    BY HandlerFacts DEF Malloc
  <1>2. lost' \subseteq heap' /\ fault' = "none" /\ lost' \subseteq {Obj(s, "lost") : s \in Slot}
    BY HandlerFacts DEF Malloc, PInv, HeapFits, Running
  <1> QED
    BY <1>1, <1>2, Continues

\* The handler returns NULL, and has freed everything that it had.
LEMMA GivesUp ==
    ASSUME PInv, todo # <<>>, raw.live, Running, GiveUp, UNCHANGED <<signed, listener, udp>>
    PROVE  PInv'
  <1>1. /\ todo' = <<>> /\ slot' = NULL /\ raw' = NULL /\ made' = NULL /\ pos' = 0
        /\ UNCHANGED <<kept, lost, tlv>>
    BY DEF GiveUp, Return, Free, listener
  <1>2. Owned(slot, made) \cup RawParts(slot) \subseteq heap
    BY HandlerFacts
  <1>3. fault' = "none" /\ heap' = heap \ (Owned(slot, made) \cup RawParts(slot))
    BY <1>2 DEF GiveUp, Free, Running
  <1>4. \A o \in Owned(slot, made) \cup RawParts(slot) : o[1] = slot /\ o[2] # "lost"
    BY HandlerFacts, OwnedKinds DEF RawParts, Obj
  <1>5. \A o \in KeptPart : o[1] \in DOMAIN kept
    <2>1. \A s \in DOMAIN kept : kept[s] \in Unpacked
      BY DEF PInv, TypeOK, PacketOK
    <2> QED
      BY <2>1, OwnedKinds DEF KeptPart
  <1>6. \A o \in lost : o[2] = "lost"
    BY DEF PInv, HeapFits, Obj
  <1>7. heap' = KeptPart \cup lost
    BY <1>3, <1>4, <1>5, <1>6, HandlerFacts
  <1>8. HeapFits'
    <2>1. KeptPart' = KeptPart
      BY <1>1 DEF KeptPart
    <2> QED
      BY <2>1, <1>1, <1>7, HandlerFacts DEF PInv, HeapFits, TlvPart, HandlerPart
  <1>9. TypeOK'
    BY <1>1, <1>3, <1>7 DEF PInv, TypeOK, listener, udp
  <1>10. HandlerFits' /\ KeptFits' /\ SafeMemory' /\ StaysInside'
    BY <1>1, <1>3 DEF PInv, HandlerFits, KeptFits, SafeMemory, StaysInside
  <1> QED
    BY <1>8, <1>9, <1>10 DEF PInv

\* A handler that comes upon a fault.
LEMMA Faults ==
    ASSUME PInv, \E why : Crash(why), UNCHANGED <<signed, listener>>,
           TypeOK', SafeMemory', StaysInside'
    PROVE  PInv'
  <1>1. UNCHANGED <<signed, handler, kept, heap, lost, listener>>
    BY DEF Crash
  <1>2. UNCHANGED <<signed, slot, raw, todo, pos, made, kept, heap, lost, tlv>>
    BY <1>1 DEF handler, listener
  <1>3. HeapFits'
    BY <1>2 DEF PInv, HeapFits, TlvPart, HandlerPart, KeptPart
  <1>4. HandlerFits'
    <2>1. \A e : ValueLength(e)' = ValueLength(e)
      BY <1>2 DEF ValueLength, LengthFrom, SignExtended
    <2>2. /\ Doomed(raw, pos)' = Doomed(raw, pos)
          /\ OnCourse(raw, pos, made)' = OnCourse(raw, pos, made)
      BY <1>2, <2>1 DEF Doomed
    <2> QED
      BY <1>2, <2>2 DEF PInv, HandlerFits, StageFits
  <1>5. KeptFits'
    BY <1>2 DEF PInv, KeptFits
  <1> QED
    BY <1>3, <1>4, <1>5 DEF PInv

-----------------------------------------------------------------------------
(* The steps of a handler *)

LEMMA CreateBaseKeeps ==
    ASSUME PInv, CreateBasePacket, UNCHANGED <<listener, udp>>
    PROVE  PInv'
  <1>1. todo # <<>> /\ raw.live /\ Head(todo) = "base" /\ Running /\ signed' = signed
    BY DEF CreateBasePacket, At
  <1>2. CASE GiveUp
    BY <1>1, <1>2, GivesUp
  <1>3. CASE /\ Malloc({Obj(slot, "packet")})
             /\ made' = [made EXCEPT !.has = @ \cup {"packet"}]
             /\ Advance /\ UNCHANGED <<pos, kept>>
    <2>1. /\ made' \in Unpacked /\ made'.has = made.has \cup {"packet"}
          /\ made'.list = made.list /\ made'.from = raw
      BY <1>1, <1>3, HandlerFacts DEF Unpacked
    <2>2. Owned(slot, made') = Owned(slot, made) \cup {Obj(slot, "packet")}
      BY <1>1, <2>1, HandlerFacts, OwnedHas
    <2>3. PacketOK(made') /\ Built(made')
      BY <1>1, <2>1, HandlerFacts, DestroysFacts DEF PacketOK, Built
    <2>4. todo' = Tail(todo) /\ todo' \in Rests(raw.type) /\ todo' # <<>>
      BY <1>1, <1>3, HandlerFacts, RestStep DEF Advance
    <2>5. StageFits'
      <3>1. /\ Head(todo') \in {"data", "release"}
            /\ Head(todo') = "release" => raw.type \notin ListTypes
            /\ made.list = NULL /\ pos = 0
        BY <1>1, <2>4, HandlerFacts, RestStep DEF StageFits
      <3> QED
        BY <1>3, <2>1, <3>1 DEF StageFits, Complete
    <2> QED
      BY <1>1, <1>3, <2>1, <2>2, <2>3, <2>4, <2>5, HandlerFacts, Allocates DEF Advance
  <1> QED
    BY <1>2, <1>3 DEF CreateBasePacket

LEMMA AllocateDataKeeps ==
    ASSUME PInv, AllocateData, UNCHANGED <<listener, udp>>
    PROVE  PInv'
  <1>1. todo # <<>> /\ raw.live /\ Head(todo) = "data" /\ Running /\ signed' = signed
    BY DEF AllocateData, At
  <1>2. CASE GiveUp
    BY <1>1, <1>2, GivesUp
  <1>3. CASE /\ Malloc({Obj(slot, "data")})
             /\ made' = [made EXCEPT !.has = @ \cup {"data"},
                                     !.unset = IF raw.got < FixedBytes(raw.type) THEN {"data"} ELSE {}]
             /\ Advance /\ UNCHANGED <<pos, kept>>
    <2>1. (IF raw.got < FixedBytes(raw.type) THEN {"data"} ELSE {}) \in SUBSET {"data", "arbitrary"}
      OBVIOUS
    <2>2. /\ made' \in Unpacked /\ made'.has = made.has \cup {"data"}
          /\ made'.list = made.list /\ made'.from = raw
      BY <1>1, <1>3, <2>1, HandlerFacts DEF Unpacked
    <2>3. Owned(slot, made') = Owned(slot, made) \cup {Obj(slot, "data")}
      <3>1. made \in Unpacked /\ made.from = raw
        BY <1>1, HandlerFacts
      <3> QED
        BY <2>2, <3>1, OwnedHas
    <2>4. PacketOK(made') /\ Built(made')
      BY <1>1, <2>2, HandlerFacts, DestroysFacts DEF PacketOK, Built
    <2>5. todo' = Tail(todo) /\ todo' \in Rests(raw.type) /\ todo' # <<>>
      BY <1>1, <1>3, HandlerFacts, RestStep DEF Advance
    <2>6. StageFits'
      <3>1. /\ Head(todo') \in {"arbitrary", "list", "release"}
            /\ Head(todo') = "release" => raw.type \notin ListTypes
            /\ made.list = NULL /\ pos = 0 /\ "packet" \in made.has
        BY <1>1, <2>5, HandlerFacts, RestStep DEF StageFits
      <3> QED
        BY <1>3, <2>2, <3>1 DEF StageFits, Complete
    <2> QED
      BY <1>1, <1>3, <2>2, <2>3, <2>4, <2>5, <2>6, HandlerFacts, Allocates DEF Advance
  <1> QED
    BY <1>2, <1>3 DEF AllocateData

LEMMA CopyArbitraryKeeps ==
    ASSUME PInv, CopyArbitrary, UNCHANGED <<listener, udp>>
    PROVE  PInv'
  <1>1. /\ todo # <<>> /\ raw.live /\ Head(todo) = "arbitrary" /\ Running
        /\ UNCHANGED <<signed, pos, kept, lost, slot, raw>> /\ todo' = Tail(todo)
    BY DEF CopyArbitrary, At, Advance
  <1>2. /\ raw.type \notin ListTypes /\ "arbitrary" \in Destroys[raw.type]
        /\ todo' \in Rests(raw.type) /\ todo' # <<>> /\ Head(todo') = "release"
        /\ "packet" \in made.has
    BY <1>1, HandlerFacts, RestStep DEF StageFits
  <1>3. ASSUME made'.from = raw, "packet" \in made'.has
        PROVE  StageFits'
    BY <1>2, <1>3 DEF StageFits, Complete
  <1>4. CASE /\ Allocatable(ArbitrarySize)
             /\ heap' = heap \cup {Obj(slot, "arbitrary")}
             /\ made' = [made EXCEPT !.has = @ \cup {"arbitrary"},
                                     !.unset = IF Whole THEN @ ELSE @ \cup {"arbitrary"}]
             /\ fault' = IF FixedBytes(raw.type) + ArbitrarySize > raw.len
                           THEN "outside" ELSE fault
    <2>1. ~(FixedBytes(raw.type) + ArbitrarySize > raw.len)
      <3> DEFINE fixed == FixedBytes(raw.type)
      <3>1. raw.len \in Nat /\ raw.len < SizeMax /\ fixed \in {0, 4, 8, 12}
        BY <1>1, HandlerFacts, FixedBytesType DEF Encoded
      <3>2. Allocatable((raw.len - fixed) % SizeMax)
        BY <1>4 DEF ArbitrarySize
      <3> HIDE DEF fixed
      <3>3. ~(fixed + ((raw.len - fixed) % SizeMax) > raw.len)
        BY <3>1, <3>2, ArbitraryFits
      <3> QED
        BY <3>3 DEF fixed, ArbitrarySize
    <2>2. Malloc({Obj(slot, "arbitrary")})
      BY <1>1, <1>4, <2>1 DEF Malloc
    <2>3. /\ made' \in Unpacked /\ made'.has = made.has \cup {"arbitrary"}
          /\ made'.list = made.list /\ made'.from = raw
      BY <1>4, <1>1, HandlerFacts DEF Unpacked
    <2>4. Owned(slot, made') = Owned(slot, made) \cup {Obj(slot, "arbitrary")}
      BY <1>1, <2>3, HandlerFacts, OwnedHas
    <2>5. PacketOK(made') /\ Built(made')
      BY <1>1, <1>2, <2>3, HandlerFacts DEF PacketOK, Built
    <2> QED
      BY <1>1, <1>2, <1>3, <2>2, <2>3, <2>4, <2>5, HandlerFacts, Allocates
  <1>5. CASE UNCHANGED <<heap, made, fault>>
    <2>1. Malloc({}) /\ Owned(slot, made') = Owned(slot, made) \cup {}
      BY <1>1, <1>5 DEF Malloc
    <2>2. PacketOK(made') /\ Built(made') /\ made'.from = raw /\ StageFits'
      BY <1>1, <1>2, <1>3, <1>5, HandlerFacts
    <2> QED
      BY <1>1, <1>2, <2>1, <2>2, HandlerFacts, Allocates
  <1>6. CASE made' = [made EXCEPT !.starved = TRUE] /\ UNCHANGED <<heap, fault>>
    <2>1. /\ made' \in Unpacked /\ made'.has = made.has
          /\ made'.list = made.list /\ made'.from = raw
      BY <1>6, <1>1, HandlerFacts DEF Unpacked
    <2>2. Malloc({}) /\ Owned(slot, made') = Owned(slot, made) \cup {}
      BY <1>1, <1>6, <2>1, HandlerFacts, OwnedSame DEF Malloc
    <2>3. PacketOK(made') /\ Built(made')
      BY <1>1, <2>1, HandlerFacts DEF PacketOK, Built
    <2> QED
      BY <1>1, <1>2, <1>3, <2>1, <2>2, <2>3, HandlerFacts, Allocates
  <1> QED
    BY <1>4, <1>5, <1>6 DEF CopyArbitrary

-----------------------------------------------------------------------------
(* The parsers *)

LEMMA CountOne ==
    ASSUME NEW i \in Nat, i - 1 \in Nat
    PROVE  Append([m \in 1..(i - 1) |-> m], i) = [m \in 1..i |-> m]
  OBVIOUS

\* Behind the last entry, a list is complete.
LEMMA AllPassed ==
    ASSUME NEW p, Encoded(p), NEW at \in Int, at >= EndOf(p.entries),
           NEW k, k.from = p, Doomed(p, at) \/ OnCourse(p, at, k)
    PROVE  OnCourse(p, at, k) /\ Passed(p, at, k, Len(p.entries)) /\ Complete(k)
  <1>1. /\ p.entries \in Seq(Entry) /\ DOMAIN p.entries = 1..Len(p.entries)
        /\ Len(p.entries) \in Nat
    BY DEF Encoded
  <1>2. \A i \in DOMAIN p.entries :
          /\ p.entries[i].at < After(p.entries[i]) /\ After(p.entries[i]) <= EndOf(p.entries)
          /\ p.entries[i].at \in Nat /\ After(p.entries[i]) \in Nat /\ EndOf(p.entries) \in Nat
    BY Layout DEF Entry
  <1>3. ~Doomed(p, at)
    BY <1>2 DEF Doomed
  <1>4. PICK n \in 0..Len(p.entries) : Passed(p, at, k, n)
    BY <1>3 DEF OnCourse
  <1>5. n = Len(p.entries)
    <2>1. ~(n < Len(p.entries))
      <3>1. n < Len(p.entries) => n + 1 \in DOMAIN p.entries
        BY <1>1, <1>4
      <3> QED
        BY <3>1, <1>2, <1>4 DEF Passed
    <2> QED
      BY <1>1, <1>4, <2>1
  <1>6. Complete(k)
    <2>1. k.starved \/ k.list = [m \in 1..Len(p.entries) |-> m]
      BY <1>4, <1>5 DEF Passed
    <2> QED
      BY <1>1, <2>1 DEF Complete
  <1> QED
    BY <1>3, <1>4, <1>5, <1>6

\* A parser at the beginning of entry i has passed the entries before it.
LEMMA AtEntry ==
    ASSUME NEW p, Encoded(p), NEW at \in Int, NEW k, OnCourse(p, at, k),
           NEW i \in DOMAIN p.entries, p.entries[i].at = at
    PROVE  i \in Nat /\ i - 1 \in Nat /\ i <= Len(p.entries) /\ Passed(p, at, k, i - 1)
  <1>1. /\ p.entries \in Seq(Entry) /\ DOMAIN p.entries = 1..Len(p.entries)
        /\ Len(p.entries) \in Nat
    BY DEF Encoded
  <1>2. PICK n \in 0..Len(p.entries) : Passed(p, at, k, n)
    BY DEF OnCourse
  <1>3. n < Len(p.entries)
    <2>1. /\ p.entries[i].at < After(p.entries[i]) /\ After(p.entries[i]) <= EndOf(p.entries)
          /\ p.entries[i].at \in Nat /\ After(p.entries[i]) \in Nat /\ EndOf(p.entries) \in Nat
      BY Layout DEF Entry
    <2> QED
      BY <1>1, <1>2, <2>1 DEF Passed
  <1>4. n + 1 \in DOMAIN p.entries /\ p.entries[n + 1].at = p.entries[i].at
    BY <1>1, <1>2, <1>3 DEF Passed
  <1>5. n + 1 = i
    BY <1>4, NextEntry
  <1> QED
    BY <1>1, <1>2, <1>5

\* A turn of parseKVList, at entry i: it stays on its course, or is doomed.
LEMMA PairPassed ==
    ASSUME NEW p, Encoded(p), p.type \in PairTypes, signed \in BOOLEAN,
           NEW at \in Int, NEW k, Doomed(p, at) \/ OnCourse(p, at, k),
           NEW i \in DOMAIN p.entries, p.entries[i].at = at,
           NEW j, j.starved \/ (~k.starved /\ j.list = Append(k.list, i))
    PROVE  LET new == at + p.entries[i].head + ValueLength(p.entries[i]) + 1
           IN  new \in Int /\ (Doomed(p, new) \/ OnCourse(p, new, j))
  <1> DEFINE e   == p.entries[i]
             new == at + e.head + ValueLength(e) + 1
  <1>1. /\ p.entries \in Seq(Entry) /\ DOMAIN p.entries = 1..Len(p.entries)
        /\ Len(p.entries) \in Nat /\ LaidOut(p.type, p.entries) /\ Gap(p.type) = 1
    BY DEF Encoded, Gap
  <1>2. /\ e \in Entry /\ e.at \in Nat /\ e.head \in Nat /\ e.value \in Nat /\ e.at = at
        /\ e.value + 4 < 256 * 65536 /\ After(e) = at + e.head + e.value
    <2>1. e \in Entry /\ e.value + 4 < 256 * 65536 /\ e.at = at
      BY <1>1 DEF LaidOut
    <2> HIDE DEF e
    <2> QED
      BY <2>1 DEF Entry, After
  <1>3. ValueLength(e) \in Int /\ (ValueLength(e) = e.value \/ ValueLength(e) <= -5)
    BY <1>2, LengthReading
  <1>4. new \in Int
    BY <1>2, <1>3
  <1>5. CASE ValueLength(e) # e.value
    <2>1. new < After(e)
      BY <1>2, <1>3, <1>5, SMTT(40)
    <2> QED
      BY <1>4, <1>5, <2>1 DEF Doomed
  <1>6. CASE ValueLength(e) = e.value /\ Doomed(p, at)
    <2>1. PICK b \in DOMAIN p.entries :
            ValueLength(p.entries[b]) # p.entries[b].value /\ at < After(p.entries[b])
      BY <1>6 DEF Doomed
    <2>2. i < b
      <3>1. b < i => After(p.entries[b]) + Gap(p.type) <= at /\ After(p.entries[b]) \in Nat
        BY <1>2, Layout
      <3> QED
        BY <1>1, <1>2, <1>6, <2>1, <3>1
    <2>3. new = After(e) + Gap(p.type)
      BY <1>1, <1>2, <1>6
    <2>4. /\ new <= p.entries[b].at /\ p.entries[b].at < After(p.entries[b])
          /\ p.entries[b].at \in Nat /\ After(p.entries[b]) \in Nat
      BY <2>2, <2>3, Layout DEF Entry
    <2>5. new < After(p.entries[b])
      BY <1>4, <2>4
    <2> QED
      BY <1>4, <2>1, <2>5 DEF Doomed
  <1>7. CASE ValueLength(e) = e.value /\ OnCourse(p, at, k)
    <2>1. i \in Nat /\ i - 1 \in Nat /\ i <= Len(p.entries) /\ Passed(p, at, k, i - 1)
      BY <1>7, AtEntry
    <2>2. new = After(e) + 1 /\ After(e) \in Nat
      BY <1>2, <1>7
    <2>3. IF i < Len(p.entries) THEN new = p.entries[i + 1].at ELSE new >= EndOf(p.entries)
      BY <1>1, <2>1, <2>2, NextEntry
    <2>4. j.starved \/ j.list = [m \in 1..i |-> m]
      <3>1. k.starved \/ k.list = [m \in 1..(i - 1) |-> m]
        BY <2>1 DEF Passed
      <3> QED
        BY <2>1, <3>1, CountOne
    <2>5. i \in 0..Len(p.entries) /\ Passed(p, new, j, i)
      BY <1>1, <2>1, <2>3, <2>4 DEF Passed
    <2> QED
      BY <1>4, <2>5 DEF OnCourse
  <1> QED
    BY <1>5, <1>6, <1>7

\* A turn of getStringsFromArbitraryData, at entry i.
LEMMA KeyPassed ==
    ASSUME NEW p, Encoded(p), p.type \notin PairTypes,
           NEW at \in Int, NEW k, OnCourse(p, at, k),
           NEW i \in DOMAIN p.entries, p.entries[i].at = at,
           NEW j, j.starved \/ (~k.starved /\ j.list = Append(k.list, i))
    PROVE  at + p.entries[i].value \in Int /\ OnCourse(p, at + p.entries[i].value, j)
  <1> DEFINE e   == p.entries[i]
             new == at + e.value
  <1>1. /\ p.entries \in Seq(Entry) /\ DOMAIN p.entries = 1..Len(p.entries)
        /\ Len(p.entries) \in Nat /\ LaidOut(p.type, p.entries) /\ Gap(p.type) = 0
    BY DEF Encoded, Gap
  <1>2. e \in Entry /\ e.at \in Nat /\ e.value \in Nat /\ e.at = at /\ e.head = 0
    <2>1. e \in Entry /\ e.at = at /\ e.head = 0
      BY <1>1 DEF LaidOut
    <2> HIDE DEF e
    <2> QED
      BY <2>1 DEF Entry
  <1>3. new = After(e) /\ new \in Int
    BY <1>2 DEF After
  <1>4. i \in Nat /\ i - 1 \in Nat /\ i <= Len(p.entries) /\ Passed(p, at, k, i - 1)
    BY AtEntry
  <1>5. IF i < Len(p.entries) THEN new = p.entries[i + 1].at ELSE new >= EndOf(p.entries)
    BY <1>1, <1>3, <1>4, NextEntry
  <1>6. j.starved \/ j.list = [m \in 1..i |-> m]
    <2>1. k.starved \/ k.list = [m \in 1..(i - 1) |-> m]
      BY <1>4 DEF Passed
    <2> QED
      BY <1>4, <2>1, CountOne
  <1>7. i \in 0..Len(p.entries) /\ Passed(p, new, j, i)
    BY <1>1, <1>4, <1>5, <1>6 DEF Passed
  <1> QED
    BY <1>3, <1>7 DEF OnCourse

\* The entry is in the list, or it is lost.
LEMMA EntryAdded ==
    ASSUME PInv, todo # <<>>, raw.live, Running, slot' = slot, NEW i \in DOMAIN raw.entries,
           made.list # NULL, AddEntry(i)
    PROVE  /\ PacketOK(made') /\ made'.from = raw /\ Built(made')
           /\ made'.has = made.has /\ made'.list # NULL
           /\ made'.starved \/ (~made.starved /\ made'.list = Append(made.list, i))
           /\ lost' \subseteq heap' /\ lost' \subseteq {Obj(s, "lost") : s \in Slot}
           /\ fault' = "none"
           /\ heap' = RawParts(slot) \cup Owned(slot, made') \cup KeptPart \cup lost'
  <1>1. /\ made \in Unpacked /\ made.list \in Seq(Nat) /\ i \in Nat /\ made.from = raw
        /\ \A n \in DOMAIN made.list : made.list[n] \in DOMAIN raw.entries
    <2>1. raw.entries \in Seq(Entry)
      BY HandlerFacts DEF Encoded
    <2> QED
      BY <2>1, HandlerFacts DEF Unpacked, PacketOK
  <1>2. lost \subseteq {Obj(s, "lost") : s \in Slot} /\ fault = "none"
    BY DEF PInv, HeapFits, Running
  <1>3. CASE /\ Malloc(EntryParts(slot, raw, i, Len(made.list) + 1))
             /\ made' = [made EXCEPT !.list = Append(@, i)]
    <2>1. Append(made.list, i) \in Seq(Nat) /\ Append(made.list, i) # NULL
      BY <1>1, ListAssumption, SMTT(40)
    <2>2. /\ made' \in Unpacked /\ made'.from = raw /\ made'.has = made.has
          /\ made'.list = Append(made.list, i) /\ made'.starved = made.starved
      BY <1>1, <1>3, <2>1 DEF Unpacked
    <2>3. \A n \in DOMAIN made'.list : made'.list[n] \in DOMAIN raw.entries
      BY <1>1, <2>2
    <2>4. PacketOK(made') /\ Built(made')
      BY <2>2, <2>3, HandlerFacts DEF PacketOK, Built
    <2>5. Owned(slot, made') = Owned(slot, made) \cup EntryParts(slot, raw, i, Len(made.list) + 1)
      <3>1. /\ made \in Unpacked /\ made' \in Unpacked /\ i \in Nat /\ made'.from = made.from
            /\ made.list # NULL /\ made'.list = Append(made.list, i) /\ made'.has = made.has
        BY <1>1, <2>2
      <3>2. Grown(slot, made, made', EntryParts(slot, made.from, i, Len(made.list) + 1))
        BY <3>1, OwnedAppend
      <3> QED
        BY <1>1, <3>2 DEF Grown
    <2>6. made'.starved \/ (~made.starved /\ made'.list = Append(made.list, i))
      BY ONLY <2>2
    <2>7. heap' = RawParts(slot) \cup Owned(slot, made') \cup KeptPart \cup lost'
      BY <1>3, <2>5, HandlerFacts DEF Malloc
    <2>8. lost' = lost /\ heap \subseteq heap' /\ fault' = fault
      BY <1>3 DEF Malloc
    <2> QED
      BY <1>2, <2>1, <2>2, <2>4, <2>6, <2>7, <2>8, HandlerFacts
  <1>4. CASE /\ made' = [made EXCEPT !.starved = TRUE]
             /\ heap' = heap \cup {Obj(slot, "lost")}
             /\ lost' = lost \cup {Obj(slot, "lost")}
             /\ UNCHANGED fault
    <2>1. /\ made' \in Unpacked /\ made'.from = raw /\ made'.has = made.has
          /\ made'.list = made.list /\ made'.starved
      BY <1>1, <1>4 DEF Unpacked
    <2>2. PacketOK(made') /\ Built(made')
      BY <2>1, HandlerFacts DEF PacketOK, Built
    <2>3. Owned(slot, made') = Owned(slot, made)
      BY <1>1, <2>1, OwnedSame
    <2> QED
      BY <1>2, <1>4, <2>1, <2>2, <2>3, HandlerFacts
  <1> QED
    BY <1>3, <1>4 DEF AddEntry

\* After an entry, a parser goes on at byte pos', or is done.
LEMMA ParserLoops ==
    ASSUME PInv, Running, raw.live, Head(todo) \in {"pairs", "keys"}, todo # <<>>,
           UNCHANGED <<signed, slot, raw, kept, listener, udp>>, pos' \in Int,
           todo' = IF pos' < raw.len THEN todo ELSE Tail(todo),
           PacketOK(made'), made'.from = raw, Built(made'), made'.has = made.has,
           made'.list = NULL => Head(todo) = "keys" /\ made'.starved,
           fault' = "none", lost' \subseteq heap', lost' \subseteq {Obj(s, "lost") : s \in Slot},
           heap' = RawParts(slot) \cup Owned(slot, made') \cup KeptPart \cup lost',
           Head(todo) = "pairs" => Doomed(raw, pos') \/ OnCourse(raw, pos', made'),
           Head(todo) = "keys" => OnCourse(raw, pos', made')
    PROVE  PInv'
  <1>1. "packet" \in made'.has
    BY HandlerFacts DEF StageFits
  <1>2. /\ Tail(todo) \in Rests(raw.type) /\ Tail(todo) # <<>> /\ Head(Tail(todo)) = "release"
        /\ todo \in Rests(raw.type)
    BY HandlerFacts, RestStep
  <1>3. /\ Doomed(raw, pos)' <=> Doomed(raw, pos')
        /\ OnCourse(raw, pos, made)' <=> OnCourse(raw, pos', made')
    BY DEF Doomed, ValueLength, LengthFrom, SignExtended
  <1>4. StageFits'
    <2>1. CASE pos' < raw.len
      BY <1>1, <1>3, <2>1 DEF StageFits
    <2>2. CASE ~(pos' < raw.len)
      <3>1. pos' >= EndOf(raw.entries)
        BY <2>2, HandlerFacts, Layout
      <3>2. Complete(made')
        BY <3>1, HandlerFacts, AllPassed
      <3>3. todo' = Tail(todo)
        BY <2>2
      <3> QED
        BY <1>1, <1>2, <3>2, <3>3 DEF StageFits
    <2> QED
      BY <2>1, <2>2
  <1>5. todo' \in Rests(raw.type) /\ todo' # <<>>
    BY <1>2
  <1> QED
    BY <1>4, <1>5, Continues

LEMMA CreateListKeeps ==
    ASSUME PInv, CreateList, UNCHANGED <<listener, udp>>
    PROVE  PInv'
  <1>1. /\ todo # <<>> /\ raw.live /\ Head(todo) = "list" /\ Running
        /\ UNCHANGED <<signed, pos, kept, slot, raw>>
    BY DEF CreateList, At, Advance
  <1>2. /\ raw.type \in ListTypes /\ made.list = NULL /\ pos = 0 /\ "packet" \in made.has
        /\ Tail(todo) \in Rests(raw.type) /\ Tail(todo) # <<>>
        /\ Head(Tail(todo)) = IF raw.type \in PairTypes THEN "pairs" ELSE "keys"
    BY <1>1, HandlerFacts, RestStep DEF StageFits
  <1>3. OnCourse(raw, pos, [made EXCEPT !.list = <<>>])
    <2> DEFINE j == [made EXCEPT !.list = <<>>]
    <2>1. j.list = <<>>
      BY HandlerFacts, <1>1 DEF Unpacked
    <2>2. j.list = [m \in 1..0 |-> m]
      BY <2>1
    <2>3. raw.entries \in Seq(Entry) /\ LaidOut(raw.type, raw.entries)
      BY <1>1, HandlerFacts DEF Encoded
    <2>4. IF 0 < Len(raw.entries) THEN pos = raw.entries[0 + 1].at ELSE pos >= EndOf(raw.entries)
      BY <1>2, <2>3 DEF LaidOut, EndOf
    <2>5. 0 \in 0..Len(raw.entries)
      BY <2>3
    <2> HIDE DEF j
    <2>6. Passed(raw, pos, j, 0)
      BY <2>2, <2>4 DEF Passed
    <2> QED
      BY <2>5, <2>6 DEF OnCourse, j
  <1>4. CASE /\ Malloc({Obj(slot, "list")})
             /\ made' = [made EXCEPT !.list = <<>>]
             /\ Advance
    <2>1. /\ made' \in Unpacked /\ made'.has = made.has /\ made'.list = <<>>
          /\ made'.from = raw
      <3>1. <<>> \in Seq(Nat)
        OBVIOUS
      <3> QED
        BY <1>1, <1>4, <3>1, HandlerFacts DEF Unpacked
    <2>2. made'.list \in Seq(Nat) /\ made'.list # NULL
      <3>1. made'.list \in Seq(Nat)
        BY <2>1
      <3> QED
        BY <3>1, ListAssumption
    <2>3. PacketOK(made') /\ Built(made')
      BY <1>1, <1>2, <2>1, <2>2, HandlerFacts DEF PacketOK, Built
    <2>4. Owned(slot, made') = Owned(slot, made) \cup {Obj(slot, "list")}
      BY <1>1, <1>2, <2>1, HandlerFacts, OwnedList
    <2>5. todo' = Tail(todo)
      BY <1>4 DEF Advance
    <2>6. raw.len \in Nat /\ (pos < raw.len \/ raw.len = 0)
      BY <1>1, <1>2, HandlerFacts DEF Encoded
    <2>7. OnCourse(raw', pos', made')
      BY <1>1, <1>3, <1>4
    <2>8. StageFits'
      BY <1>1, <1>2, <2>1, <2>2, <2>5, <2>6, <2>7 DEF StageFits
    <2> QED
      BY <1>1, <1>2, <1>4, <2>1, <2>3, <2>4, <2>5, <2>8, HandlerFacts, Allocates
  <1>5. CASE /\ made' = [made EXCEPT !.starved = TRUE]
             /\ todo' = IF raw.type \in PairTypes THEN <<"release">> ELSE Tail(todo)
             /\ UNCHANGED <<slot, raw, memory>>
    <2>1. /\ made' \in Unpacked /\ made'.has = made.has /\ made'.list = NULL /\ made'.starved
          /\ made'.from = raw
      BY <1>1, <1>2, <1>5, HandlerFacts DEF Unpacked
    <2>2. PacketOK(made') /\ Built(made')
      BY <1>1, <1>2, <2>1, HandlerFacts DEF PacketOK, Built
    <2>3. Owned(slot, made') = Owned(slot, made) \cup {} /\ Malloc({})
      BY <1>1, <1>2, <1>5, <2>1, HandlerFacts, OwnedSame, ZenonT(40) DEF Malloc, memory
    <2>4. /\ todo' \in Rests(raw.type) /\ todo' # <<>>
          /\ Head(todo') = IF raw.type \in PairTypes THEN "release" ELSE "keys"
      BY <1>2, <1>5 DEF Rests
    <2>5. OnCourse(raw', pos', made')
      <3> DEFINE j == [made EXCEPT !.list = <<>>]
      <3>1. PICK n \in 0..Len(raw.entries) : Passed(raw, pos, j, n)
        BY <1>3 DEF OnCourse
      <3>2. Passed(raw, pos, made', n)
        BY <2>1, <3>1 DEF Passed
      <3> QED
        BY <1>1, <3>2 DEF OnCourse
    <2>6. StageFits'
      BY <1>1, <1>2, <2>1, <2>4, <2>5 DEF StageFits, Complete
    <2> QED
      BY <1>1, <2>1, <2>2, <2>3, <2>4, <2>6, HandlerFacts, Allocates
  <1> QED
    BY <1>1, <1>4, <1>5 DEF CreateList

LEMMA ParsePairKeeps ==
    ASSUME PInv, ParsePair, UNCHANGED <<listener, udp>>
    PROVE  PInv'
  <1>1. /\ todo # <<>> /\ raw.live /\ Head(todo) = "pairs" /\ Running /\ UNCHANGED <<signed, kept>>
    BY DEF ParsePair, At
  <1>2. /\ made.list # NULL /\ "packet" \in made.has
        /\ Doomed(raw, pos) \/ OnCourse(raw, pos, made)
        /\ raw.type \in PairTypes
        /\ Tail(todo) \in Rests(raw.type) /\ Tail(todo) # <<>> /\ Head(Tail(todo)) = "release"
    BY <1>1, HandlerFacts, RestStep DEF StageFits
  <1>3. ASSUME NEW i \in DOMAIN raw.entries, StartsAt(i, pos), AddEntry(i), LoopTo(AfterPair(i))
        PROVE  PInv'
    <2>1. /\ slot' = slot /\ raw' = raw /\ pos' = AfterPair(i)
          /\ todo' = IF pos' < raw.len THEN todo ELSE Tail(todo)
      BY <1>3 DEF LoopTo, Stay, Advance
    <2>2. /\ PacketOK(made') /\ made'.from = raw /\ Built(made')
          /\ made'.has = made.has /\ made'.list # NULL
          /\ made'.starved \/ (~made.starved /\ made'.list = Append(made.list, i))
          /\ lost' \subseteq heap' /\ lost' \subseteq {Obj(s, "lost") : s \in Slot}
          /\ fault' = "none"
          /\ heap' = RawParts(slot) \cup Owned(slot, made') \cup KeptPart \cup lost'
      BY <1>1, <1>2, <1>3, <2>1, EntryAdded
    <2>3. pos' = pos + raw.entries[i].head + ValueLength(raw.entries[i]) + 1
      BY <2>1 DEF AfterPair, Ending
    <2>4. /\ Encoded(raw) /\ pos \in Int /\ signed \in BOOLEAN /\ raw.entries[i].at = pos
      BY <1>1, <1>3, HandlerFacts DEF StartsAt, PInv, TypeOK
    <2>5. pos' \in Int /\ (Doomed(raw, pos') \/ OnCourse(raw, pos', made'))
      BY <1>2, <2>2, <2>3, <2>4, PairPassed
    <2> QED
      BY <1>1, <2>1, <2>2, <2>5, ParserLoops
  <1>4. ASSUME InPadding(pos), Advance, UNCHANGED <<pos, made, memory>>
        PROVE  PInv'
    <2>1. Complete(made)
      <3>1. pos >= EndOf(raw.entries)
        BY <1>1, <1>4, HandlerFacts, Layout DEF InPadding
      <3> QED
        BY <1>1, <1>2, <3>1, HandlerFacts, AllPassed
    <2>2. StageFits' /\ todo' = Tail(todo)
      BY <1>2, <1>4, <2>1 DEF StageFits, Advance
    <2>3. Malloc({}) /\ Owned(slot, made') = Owned(slot, made) \cup {}
      BY <1>4 DEF Malloc, memory
    <2> QED
      BY <1>1, <1>2, <1>4, <2>2, <2>3, HandlerFacts, Allocates DEF Advance
  <1> QED
    BY <1>3, <1>4 DEF ParsePair

LEMMA ParsePairStarvedKeeps ==
    ASSUME PInv, ParsePairStarved, UNCHANGED <<listener, udp>>
    PROVE  PInv'
  <1>1. /\ todo # <<>> /\ raw.live /\ Head(todo) = "pairs" /\ Running
        /\ UNCHANGED <<signed, pos, kept, slot, raw>> /\ todo' = Tail(todo)
        /\ Free(ListParts(slot, made))
        /\ made' = [made EXCEPT !.list = NULL, !.starved = TRUE]
    BY DEF ParsePairStarved, At, Advance, ListParts
  <1>2. /\ "packet" \in made.has
        /\ Tail(todo) \in Rests(raw.type) /\ Tail(todo) # <<>> /\ Head(Tail(todo)) = "release"
    BY <1>1, HandlerFacts, RestStep DEF StageFits
  <1>3. /\ made' \in Unpacked /\ made'.has = made.has /\ made'.list = NULL /\ made'.starved
        /\ made'.from = raw
    BY <1>1, HandlerFacts DEF Unpacked
  <1>4. PacketOK(made') /\ Built(made')
    BY <1>1, <1>3, HandlerFacts DEF PacketOK, Built
  <1>5. StageFits'
    BY <1>1, <1>2, <1>3 DEF StageFits, Complete
  <1> DEFINE Has == {Obj(slot, what) : what \in made.has}
  <1>6. Owned(slot, made) = Has \cup ListParts(slot, made) /\ Owned(slot, made') = Has
    <2>1. Owned(slot, made) = Has \cup ListParts(slot, made)
      BY <1>1, HandlerFacts, OwnedParts
    <2>2. Owned(slot, made') = {Obj(slot, what) : what \in made'.has} \cup {}
      BY <1>3, OwnedParts
    <2> QED
      BY <1>3, <2>1, <2>2
  <1>7. fault' = "none" /\ heap' = heap \ ListParts(slot, made) /\ lost' = lost
    BY <1>1, <1>6, HandlerFacts DEF Free, Running
  <1>8. /\ \A o \in ListParts(slot, made) :
             o[1] = slot /\ o[2] \notin {"packet", "data", "arbitrary", "tlv", "bytes", "lost"}
        /\ \A o \in Has : o[2] \in {"packet", "data", "arbitrary"}
    <2>1. made.has \subseteq {"packet", "data", "arbitrary"}
      BY <1>1, HandlerFacts DEF Unpacked
    <2> QED
      BY <1>1, <1>6, <2>1, HandlerFacts, OwnedParts, OwnedKinds DEF Obj
  <1>9. \A o \in KeptPart : o[1] # slot
    <2>1. \A s \in DOMAIN kept : kept[s] \in Unpacked
      BY DEF PInv, TypeOK, PacketOK
    <2> QED
      BY <1>1, <2>1, HandlerFacts, OwnedKinds DEF KeptPart
  <1>10. \A o \in RawParts(slot) : o[2] \in {"tlv", "bytes"}
    BY DEF RawParts, Obj
  <1>11. \A o \in lost : o[2] = "lost"
    BY DEF PInv, HeapFits, Obj
  <1> HIDE DEF Has
  <1>12. heap' = RawParts(slot) \cup Owned(slot, made') \cup KeptPart \cup lost'
    BY <1>1, <1>6, <1>7, <1>8, <1>9, <1>10, <1>11, HandlerFacts
  <1>13. lost' \subseteq heap' /\ lost' \subseteq {Obj(s, "lost") : s \in Slot}
    BY <1>7, <1>12 DEF PInv, HeapFits
  <1>14. todo' \in Rests(raw.type) /\ todo' # <<>> /\ pos' \in Int
    BY <1>1, <1>2, HandlerFacts
  <1> QED
    BY <1>1, <1>3, <1>4, <1>5, <1>7, <1>12, <1>13, <1>14, Continues

LEMMA ParseKeyKeeps ==
    ASSUME PInv, ParseKey, UNCHANGED <<listener, udp>>
    PROVE  PInv'
  <1>1. /\ todo # <<>> /\ raw.live /\ Head(todo) = "keys" /\ Running /\ UNCHANGED <<signed, kept>>
    BY DEF ParseKey, At
  <1>2. /\ "packet" \in made.has /\ OnCourse(raw, pos, made)
        /\ made.list = NULL => made.starved
        /\ raw.type \notin PairTypes
    BY <1>1, HandlerFacts, RestStep DEF StageFits
  <1>3. ASSUME NEW i \in DOMAIN raw.entries, StartsAt(i, pos), made.list # NULL,
               AddEntry(i), LoopTo(pos + raw.entries[i].value)
        PROVE  PInv'
    <2>1. /\ slot' = slot /\ raw' = raw /\ pos' = pos + raw.entries[i].value
          /\ todo' = IF pos' < raw.len THEN todo ELSE Tail(todo)
      BY <1>3 DEF LoopTo, Stay, Advance
    <2>2. /\ PacketOK(made') /\ made'.from = raw /\ Built(made')
          /\ made'.has = made.has /\ made'.list # NULL
          /\ made'.starved \/ (~made.starved /\ made'.list = Append(made.list, i))
          /\ lost' \subseteq heap' /\ lost' \subseteq {Obj(s, "lost") : s \in Slot}
          /\ fault' = "none"
          /\ heap' = RawParts(slot) \cup Owned(slot, made') \cup KeptPart \cup lost'
      BY <1>1, <1>3, <2>1, EntryAdded
    <2>3. /\ Encoded(raw) /\ pos \in Int /\ raw.entries[i].at = pos
      BY <1>1, <1>3, HandlerFacts DEF StartsAt
    <2>4. pos' \in Int /\ OnCourse(raw, pos', made')
      BY <1>2, <2>1, <2>2, <2>3, KeyPassed
    <2> QED
      BY <1>1, <2>1, <2>2, <2>4, ParserLoops
  <1>4. ASSUME InPadding(pos), LoopTo(AfterEmpty), UNCHANGED <<made, memory>>
        PROVE  PInv'
    <2>1. /\ slot' = slot /\ raw' = raw /\ pos' = pos + 1 /\ pos \in Int
          /\ todo' = IF pos' < raw.len THEN todo ELSE Tail(todo)
      BY <1>1, <1>4, HandlerFacts DEF LoopTo, Stay, Advance, AfterEmpty
    <2>2. pos >= EndOf(raw.entries) /\ pos' >= EndOf(raw.entries) /\ Len(raw.entries) \in Nat
      BY <1>1, <1>4, <2>1, HandlerFacts, Layout DEF InPadding, Encoded
    <2>3. Passed(raw, pos, made, Len(raw.entries))
      BY <1>1, <1>2, <2>1, <2>2, HandlerFacts, AllPassed
    <2>4. OnCourse(raw, pos', made')
      <3>1. Passed(raw, pos', made', Len(raw.entries))
        BY <1>4, <2>2, <2>3 DEF Passed
      <3> QED
        BY <2>2, <3>1 DEF OnCourse
    <2>5. /\ PacketOK(made') /\ made'.from = raw /\ Built(made') /\ made'.has = made.has
          /\ made'.list = NULL => made'.starved
          /\ lost' \subseteq heap' /\ lost' \subseteq {Obj(s, "lost") : s \in Slot}
          /\ fault' = "none"
          /\ heap' = RawParts(slot) \cup Owned(slot, made') \cup KeptPart \cup lost'
      BY <1>1, <1>2, <1>4, HandlerFacts DEF memory, PInv, HeapFits, Running
    <2>6. pos' \in Int
      BY <2>1
    <2> QED
      BY <1>1, <2>1, <2>4, <2>5, <2>6, ParserLoops
  <1> QED
    BY <1>3, <1>4 DEF ParseKey

LEMMA NoKeysKeeps ==
    ASSUME PInv, NoKeys, UNCHANGED <<listener, udp>>
    PROVE  PInv'
  <1>1. /\ todo # <<>> /\ raw.live /\ Head(todo) = "keys" /\ Running /\ pos >= raw.len
        /\ UNCHANGED <<signed, pos, made, kept, memory, slot, raw>> /\ todo' = Tail(todo)
    BY DEF NoKeys, At, Advance
  <1>2. /\ "packet" \in made.has /\ OnCourse(raw, pos, made)
        /\ Tail(todo) \in Rests(raw.type) /\ Tail(todo) # <<>> /\ Head(Tail(todo)) = "release"
    BY <1>1, HandlerFacts, RestStep DEF StageFits
  <1>3. Complete(made)
    <2>1. pos >= EndOf(raw.entries)
      BY <1>1, HandlerFacts, Layout
    <2> QED
      BY <1>1, <1>2, <2>1, HandlerFacts, AllPassed
  <1>4. StageFits'
    BY <1>1, <1>2, <1>3 DEF StageFits
  <1>5. Malloc({}) /\ Owned(slot, made') = Owned(slot, made) \cup {}
    BY <1>1 DEF Malloc, memory
  <1> QED
    BY <1>1, <1>2, <1>4, <1>5, HandlerFacts, Allocates

LEMMA StringStarvedKeeps ==
    ASSUME PInv, StringStarved, UNCHANGED <<listener, udp>>
    PROVE  PInv'
  <1>1. Running /\ todo # <<>> /\ Crash("starved") /\ signed' = signed
    BY DEF StringStarved, Parsing, At
  <1>2. TypeOK'
    BY <1>1 DEF Crash, handler, listener, udp, PInv, TypeOK
  <1>3. SafeMemory' /\ StaysInside'
    BY <1>1 DEF Crash, SafeMemory, StaysInside
  <1> QED
    BY <1>1, <1>2, <1>3, Faults

LEMMA UseFreedKeeps ==
    ASSUME PInv, UseFreed, UNCHANGED <<listener, udp>>
    PROVE  PInv'
  <1>1. Running /\ todo # <<>> /\ ~raw.live /\ Crash("freed") /\ signed' = signed
    BY DEF UseFreed
  <1>2. TypeOK'
    BY <1>1 DEF Crash, handler, listener, udp, PInv, TypeOK
  <1>3. SafeMemory' /\ StaysInside'
    BY <1>1 DEF Crash, handler, SafeMemory, StaysInside
  <1> QED
    BY <1>1, <1>2, <1>3, Faults

LEMMA FieldsOutsideKeeps ==
    ASSUME PInv, FieldsOutside, UNCHANGED <<listener, udp>>
    PROVE  PInv'
  <1>1. /\ Running /\ todo # <<>> /\ raw.len < FixedBytes(raw.type)
        /\ Crash("overread") /\ signed' = signed
    BY DEF FieldsOutside, At
  <1>2. TypeOK'
    BY <1>1 DEF Crash, handler, listener, udp, PInv, TypeOK
  <1>3. SafeMemory' /\ StaysInside'
    BY <1>1 DEF Crash, handler, SafeMemory, StaysInside
  <1> QED
    BY <1>1, <1>2, <1>3, Faults

LEMMA AstrayKeeps ==
    ASSUME PInv, Astray, UNCHANGED <<listener, udp>>
    PROVE  PInv'
  <1>1. /\ Running /\ todo # <<>> /\ Crash("astray") /\ signed' = signed
        /\ ~InPadding(pos) /\ \A i \in DOMAIN raw.entries : ~StartsAt(i, pos)
        /\ Head(todo) = "pairs" \/ (Head(todo) = "keys" /\ pos < raw.len)
    BY DEF Astray, Parsing, At
  <1>2. TypeOK'
    BY <1>1 DEF Crash, handler, listener, udp, PInv, TypeOK
  <1>3. SafeMemory'
    BY <1>1 DEF Crash, SafeMemory
  <1>4. /\ Encoded(raw) /\ raw.entries \in Seq(Entry) /\ raw.len \in Nat /\ pos \in Int
        /\ signed \in BOOLEAN
    BY <1>1, HandlerFacts DEF Encoded, PInv, TypeOK
  <1>5. CASE ~Whole
    <2>1. StaysInside'
      BY <1>1, <1>5 DEF StaysInside, Crash, handler, Whole
    <2> QED
      BY <1>1, <1>2, <1>3, <2>1, Faults
  <1>6. CASE Doomed(raw, pos)
    <2>1. PICK b \in DOMAIN raw.entries : ValueLength(raw.entries[b]) # raw.entries[b].value
      BY <1>6 DEF Doomed
    <2>2. raw.entries[b] \in Entry /\ raw.entries[b].value + 4 < 256 * 65536
      BY <1>4, <2>1 DEF Encoded, LaidOut
    <2>3. signed /\ raw.entries[b].value >= 124
      BY <1>4, <2>1, <2>2, LengthReading
    <2>4. StaysInside'
      BY <1>1, <2>1, <2>3 DEF StaysInside, Crash, handler
    <2> QED
      BY <1>1, <1>2, <1>3, <2>4, Faults
  <1>7. CASE Whole /\ OnCourse(raw, pos, made)
    <2>1. PICK n \in 0..Len(raw.entries) : Passed(raw, pos, made, n)
      BY <1>7 DEF OnCourse
    <2>2. ~(n < Len(raw.entries))
      <3>1. n < Len(raw.entries) => n + 1 \in DOMAIN raw.entries
        BY <1>4, <2>1
      <3> QED
        BY <1>1, <1>7, <2>1, <3>1 DEF Passed, StartsAt
    <2>3. pos >= raw.len
      BY <1>1, <1>4, <1>7, <2>1, <2>2, Layout DEF Passed, InPadding
    <2>4. raw.len = 0 /\ raw.type \in PairTypes
      BY <1>1, <1>4, <2>3, HandlerFacts, RestStep DEF StageFits
    <2>5. StaysInside'
      BY <1>1, <2>4 DEF StaysInside, Crash, handler
    <2> QED
      BY <1>1, <1>2, <1>3, <2>5, Faults
  <1> QED
    BY <1>1, <1>5, <1>6, <1>7, HandlerFacts DEF StageFits

LEMMA ReleaseKeeps ==
    ASSUME PInv, Release, UNCHANGED <<listener, udp>>
    PROVE  PInv'
  <1>1. /\ todo # <<>> /\ raw.live /\ Head(todo) = "release" /\ Running /\ signed' = signed
        /\ Free(RawParts(slot))
        /\ kept' = [s \in DOMAIN kept \cup {slot} |-> IF s = slot THEN made ELSE kept[s]]
        /\ todo' = <<>> /\ slot' = NULL /\ raw' = NULL /\ made' = NULL /\ pos' = 0 /\ tlv' = tlv
    BY DEF Release, At, Return, listener
  <1>2. fault' = "none" /\ heap' = heap \ RawParts(slot) /\ lost' = lost
    BY <1>1, HandlerFacts DEF Free, Running
  <1>3. /\ DOMAIN kept' = DOMAIN kept \cup {slot} /\ kept'[slot] = made
        /\ \A s \in DOMAIN kept : kept'[s] = kept[s]
    BY <1>1, HandlerFacts
  <1>4. KeptPart' = KeptPart \cup Owned(slot, made)
    <2>1. \A x : /\ x \in KeptPart' <=> \E s \in DOMAIN kept' : x \in Owned(s, kept'[s])
                 /\ x \in KeptPart <=> \E s \in DOMAIN kept : x \in Owned(s, kept[s])
      BY DEF KeptPart
    <2>2. \A x : x \in KeptPart' <=> x \in KeptPart \/ x \in Owned(slot, made)
      BY <1>3, <2>1
    <2> QED
      BY <2>2
  <1>5. \A o \in RawParts(slot) : o[1] = slot /\ o[2] \in {"tlv", "bytes"}
    BY DEF RawParts, Obj
  <1>6. \A s \in DOMAIN kept : kept[s] \in Unpacked
    BY DEF PInv, TypeOK, PacketOK
  <1>7. \A o \in KeptPart : o[1] # slot
    BY <1>1, <1>6, HandlerFacts, OwnedKinds DEF KeptPart
  <1>8. \A o \in Owned(slot, made) : o[2] \notin {"tlv", "bytes"}
    BY <1>1, HandlerFacts, OwnedKinds
  <1>9. \A o \in lost : o[2] = "lost"
    BY DEF PInv, HeapFits, Obj
  <1>10. heap' = Owned(slot, made) \cup KeptPart \cup lost
    BY <1>1, <1>2, <1>5, <1>7, <1>8, <1>9, HandlerFacts
  <1>11. HeapFits'
    BY <1>1, <1>2, <1>4, <1>10, HandlerFacts DEF PInv, HeapFits, TlvPart, HandlerPart
  <1>12. \A s \in DOMAIN kept' : PacketOK(kept'[s])
    BY <1>1, <1>3, HandlerFacts DEF PInv, TypeOK
  <1>13. TypeOK'
    <2>1. DOMAIN kept' \subseteq Slot
      BY <1>1, <1>3, HandlerFacts DEF PInv, TypeOK
    <2>2. lost' \subseteq heap'
      BY <1>2, <1>10
    <2> QED
      BY <1>1, <1>2, <1>12, <2>1, <2>2 DEF PInv, TypeOK, listener, udp
  <1>14. KeptFits'
    <2>1. "packet" \in made.has /\ Built(made) /\ Complete(made)
      BY <1>1, HandlerFacts DEF StageFits
    <2>2. tlv' \notin DOMAIN kept'
      BY <1>1, <1>3, HandlerFacts DEF PInv, KeptFits
    <2> QED
      BY <1>3, <2>1, <2>2 DEF PInv, KeptFits
  <1>15. HandlerFits' /\ SafeMemory' /\ StaysInside'
    BY <1>1, <1>2 DEF HandlerFits, SafeMemory, StaysInside
  <1> QED
    BY <1>11, <1>13, <1>14, <1>15 DEF PInv

\* The consumer frees the whole packet, or finds that its list is missing.
LEMMA ConsumeKeeps ==
    ASSUME PInv, Consume
    PROVE  PInv'
  <1>1. PICK s \in DOMAIN kept : Destroy(s) /\ UNCHANGED <<listener, udp>>
    BY DEF Consume
  <1> DEFINE k == kept[s]
  <1>2. /\ Running /\ signed' = signed /\ k \in Unpacked /\ PacketOK(k) /\ k.from.type \in Type
        /\ Built(k) /\ Complete(k) /\ "packet" \in k.has
    BY <1>1 DEF Destroy, PInv, TypeOK, KeptFits, PacketOK, Unpacked, RawForm
  <1>3. CASE "list" \in Destroys[k.from.type] /\ k.list = NULL /\ Crash("nolist")
    <2>1. k.starved
      <3>1. k.from.entries \in Seq(Entry)
        BY <1>2 DEF Unpacked, RawForm
      <3>2. [n \in DOMAIN k.from.entries |-> n] \in Seq(Nat)
        BY <3>1
      <3> QED
        BY <1>2, <1>3, <3>2, DestroysFacts, ListAssumption DEF Complete
    <2>2. SafeMemory'
      BY <1>3, <2>1 DEF SafeMemory, Crash
    <2>3. StaysInside'
      BY <1>3 DEF StaysInside, Crash
    <2>4. TypeOK'
      BY <1>1, <1>2, <1>3 DEF Crash, handler, listener, udp, PInv, TypeOK
    <2> QED
      BY <1>1, <1>2, <1>3, <2>2, <2>3, <2>4, Faults
  <1>4. CASE /\ Free(FreedBy(s, k))
             /\ kept' = [t \in DOMAIN kept \ {s} |-> kept[t]]
             /\ UNCHANGED handler
    <2>1. FreedBy(s, k) = Owned(s, k)
      <3>1. \A o \in {Obj(s, what) : what \in k.has} : o[2] \in Destroys[k.from.type]
        BY <1>2 DEF Built, Obj
      <3>2. "list" \in Destroys[k.from.type] \/ ListParts(s, k) = {}
        BY <1>2, DestroysFacts, OwnedParts DEF Built
      <3> QED
        BY <1>2, <3>1, <3>2, OwnedParts DEF FreedBy, ListParts
    <2>2. Owned(s, k) \subseteq heap
      BY <1>1 DEF PInv, HeapFits, KeptPart
    <2>3. fault' = "none" /\ heap' = heap \ Owned(s, k) /\ lost' = lost
      BY <1>2, <1>4, <2>1, <2>2 DEF Free, Running
    <2>4. UNCHANGED <<slot, raw, todo, pos, made, tlv>>
      BY <1>1, <1>4 DEF handler, listener
    <2>5. DOMAIN kept' = DOMAIN kept \ {s} /\ \A t \in DOMAIN kept' : kept'[t] = kept[t]
      BY <1>4
    <2>6. \A t \in DOMAIN kept : kept[t] \in Unpacked
      BY DEF PInv, TypeOK, PacketOK
    <2>7. /\ \A o \in Owned(s, k) : o[1] = s /\ o[2] # "lost"
          /\ \A o \in TlvPart \cup HandlerPart : o[1] # s
          /\ \A o \in lost : o[2] = "lost"
      <3>1. \A o \in Owned(s, k) : o[1] = s /\ o[2] # "lost"
        BY <1>2, OwnedKinds
      <3>2. \A o \in TlvPart : o[1] # s
        BY <1>1 DEF PInv, KeptFits, TlvPart, Obj
      <3>3. ASSUME todo # <<>> PROVE \A o \in RawParts(slot) \cup Owned(slot, made) : o[1] = slot /\ slot # s
        BY <1>1, <3>3, HandlerFacts, OwnedKinds DEF RawParts, Obj
      <3>4. \A o \in lost : o[2] = "lost"
        BY DEF PInv, HeapFits, Obj
      <3> QED
        BY <3>1, <3>2, <3>3, <3>4 DEF HandlerPart
    <2>8. KeptPart' = KeptPart \ Owned(s, k)
      <3>1. \A x : /\ x \in KeptPart' <=> \E t \in DOMAIN kept' : x \in Owned(t, kept'[t])
                   /\ x \in KeptPart <=> \E t \in DOMAIN kept : x \in Owned(t, kept[t])
        BY DEF KeptPart
      <3>2. \A t \in DOMAIN kept : \A o \in Owned(t, kept[t]) : o[1] = t
        BY <2>6, OwnedKinds
      <3>3. \A x : x \in KeptPart' <=> x \in KeptPart /\ x \notin Owned(s, k)
        BY <1>1, <2>5, <3>1, <3>2
      <3> QED
        BY <3>3
    <2>9. TlvPart' = TlvPart /\ HandlerPart' = HandlerPart
      BY <2>4 DEF TlvPart, HandlerPart
    <2>10. HeapFits'
      <3>1. heap' = TlvPart \cup HandlerPart \cup (KeptPart \ Owned(s, k)) \cup lost
        BY <2>3, <2>7 DEF PInv, HeapFits
      <3> QED
        BY <2>3, <2>8, <2>9, <3>1 DEF PInv, HeapFits
    <2>11. TypeOK'
      <3>1. lost' \subseteq heap'
        BY <2>3, <2>10 DEF HeapFits
      <3> QED
        BY <1>1, <1>2, <2>3, <2>4, <2>5, <3>1 DEF PInv, TypeOK, listener, udp
    <2>12. HandlerFits'
      <3>1. \A e : ValueLength(e)' = ValueLength(e)
        BY <1>2 DEF ValueLength, LengthFrom, SignExtended
      <3>2. /\ Doomed(raw, pos)' = Doomed(raw, pos)
            /\ OnCourse(raw, pos, made)' = OnCourse(raw, pos, made)
        BY <2>4, <3>1 DEF Doomed
      <3> QED
        BY <2>4, <2>5, <3>2 DEF PInv, HandlerFits, StageFits
    <2>13. KeptFits'
      BY <2>4, <2>5 DEF PInv, KeptFits
    <2>14. SafeMemory' /\ StaysInside'
      BY <2>3 DEF SafeMemory, StaysInside
    <2> QED
      BY <2>10, <2>11, <2>12, <2>13, <2>14 DEF PInv
  <1> QED
    BY <1>1, <1>3, <1>4 DEF Destroy

-----------------------------------------------------------------------------
(* The listener and the network *)

\* No listener and no handler has moved.
LEMMA NetworkKeeps ==
    ASSUME PInv, UNCHANGED <<signed, handler, kept, memory, listener>>,
           other_addr' \in Sender, net' \subseteq Datagram
    PROVE  PInv'
  <1>1. UNCHANGED <<signed, slot, raw, todo, pos, made, kept, heap, lost, fault,
                    thread, running, tlv>>
    BY DEF handler, memory, listener
  <1>2. TypeOK'
    BY <1>1 DEF PInv, TypeOK
  <1>3. HeapFits'
    BY <1>1 DEF PInv, HeapFits, TlvPart, HandlerPart, KeptPart
  <1>4. HandlerFits'
    <2>1. \A e : ValueLength(e)' = ValueLength(e)
      BY <1>1 DEF ValueLength, LengthFrom, SignExtended
    <2>2. /\ Doomed(raw, pos)' = Doomed(raw, pos)
          /\ OnCourse(raw, pos, made)' = OnCourse(raw, pos, made)
      BY <1>1, <2>1 DEF Doomed
    <2> QED
      BY <1>1, <2>2 DEF PInv, HandlerFits, StageFits
  <1>5. KeptFits' /\ SafeMemory' /\ StaysInside'
    BY <1>1 DEF PInv, KeptFits, SafeMemory, StaysInside, Whole
  <1> QED
    BY <1>2, <1>3, <1>4, <1>5 DEF PInv

\* The listener takes or gives back the memory of its next packet.
LEMMA ListenerFacts ==
    ASSUME PInv, todo = <<>>
    PROVE  /\ slot = NULL /\ raw = NULL /\ made = NULL
           /\ heap = TlvPart \cup KeptPart \cup lost
           /\ \A o \in KeptPart : o[1] \in DOMAIN kept
           /\ \A o \in lost : o[2] = "lost"
           /\ tlv \in Slot \cup {NULL} /\ tlv \notin DOMAIN kept
           /\ lost \subseteq {Obj(s, "lost") : s \in Slot} /\ lost \subseteq heap
           /\ \A s \in DOMAIN kept : PacketOK(kept[s]) /\ "packet" \in kept[s].has
  <1>1. \A s \in DOMAIN kept : PacketOK(kept[s]) /\ kept[s] \in Unpacked
    BY DEF PInv, TypeOK, PacketOK
  <1>2. \A o \in KeptPart : o[1] \in DOMAIN kept
    BY <1>1, OwnedKinds DEF KeptPart
  <1>3. \A o \in lost : o[2] = "lost"
    BY DEF PInv, HeapFits, Obj
  <1> QED
    BY <1>1, <1>2, <1>3 DEF PInv, TypeOK, HeapFits, HandlerPart, KeptFits

LEMMA BetweenPackets ==
    ASSUME PInv, todo = <<>>, UNCHANGED <<signed, handler, kept, thread, lost>>,
           running' \in BOOLEAN, tlv' \in Slot \cup {NULL}, tlv' \notin DOMAIN kept,
           other_addr' \in Sender, net' \subseteq Datagram, fault' = "none",
           heap' = (IF tlv' = NULL THEN {} ELSE {Obj(tlv', "tlv")}) \cup KeptPart \cup lost
    PROVE  PInv'
  <1>1. UNCHANGED <<slot, raw, todo, pos, made>>
    BY DEF handler
  <1>2. TypeOK'
    BY <1>1, ListenerFacts DEF PInv, TypeOK
  <1>3. HeapFits'
    <2>1. KeptPart' = KeptPart
      BY DEF KeptPart
    <2> QED
      BY <1>1, <2>1, ListenerFacts DEF HeapFits, TlvPart, HandlerPart
  <1>4. HandlerFits' /\ KeptFits' /\ SafeMemory' /\ StaysInside'
    BY <1>1 DEF PInv, HandlerFits, KeptFits, SafeMemory, StaysInside
  <1> QED
    BY <1>2, <1>3, <1>4 DEF PInv

LEMMA BeginKeeps ==
    ASSUME PInv, Begin
    PROVE  PInv'
  <1>1. PICK s \in FreeSlots : tlv' = s /\ Malloc({Obj(s, "tlv")})
    BY DEF Begin
  <1>2. /\ Running /\ todo = <<>> /\ tlv = NULL
        /\ UNCHANGED <<signed, handler, kept, thread, running, udp>>
    BY DEF Begin
  <1>3. s \in Slot /\ s # NULL /\ \A o \in heap : o[1] # s
    BY <1>1, SlotAssumption DEF FreeSlots
  <1>4. s \notin DOMAIN kept
    <2>1. ASSUME s \in DOMAIN kept PROVE FALSE
      <3>1. kept[s] \in Unpacked /\ "packet" \in kept[s].has
        BY <1>2, <2>1, ListenerFacts DEF PacketOK
      <3>2. Obj(s, "packet") \in Owned(s, kept[s])
        BY <3>1 DEF Owned
      <3>3. Obj(s, "packet") \in heap
        BY <1>2, <2>1, <3>2, ListenerFacts DEF KeptPart
      <3> QED
        BY <1>3, <3>3 DEF Obj
    <2> QED
      BY <2>1
  <1>5. /\ heap' = {Obj(s, "tlv")} \cup KeptPart \cup lost /\ lost' = lost /\ fault' = "none"
    BY <1>1, <1>2, ListenerFacts DEF Malloc, TlvPart, Running
  <1>6. running' \in BOOLEAN /\ other_addr' \in Sender /\ net' \subseteq Datagram
    BY <1>2 DEF PInv, TypeOK, udp
  <1> QED
    BY <1>1, <1>2, <1>3, <1>4, <1>5, <1>6, BetweenPackets

\* Only tlv is given back.
LEMMA FreesTlv ==
    ASSUME PInv, Running, todo = <<>>, tlv # NULL, Free({Obj(tlv, "tlv")})
    PROVE  fault' = "none" /\ lost' = lost /\ heap' = {} \cup KeptPart \cup lost
           /\ NULL \notin DOMAIN kept
  <1>1. TlvPart = {Obj(tlv, "tlv")}
    BY DEF TlvPart
  <1>2. fault' = "none" /\ lost' = lost /\ heap' = heap \ {Obj(tlv, "tlv")}
    BY <1>1, ListenerFacts DEF Free, Running
  <1>3. \A o \in KeptPart \cup lost : o # Obj(tlv, "tlv")
    BY ListenerFacts DEF Obj
  <1>4. NULL \notin DOMAIN kept
    BY SlotAssumption DEF PInv, TypeOK
  <1> QED
    BY <1>1, <1>2, <1>3, <1>4, ListenerFacts

LEMMA LeaveKeeps ==
    ASSUME PInv, Running, todo = <<>>, tlv # NULL, Leave,
           other_addr' \in Sender, net' \subseteq Datagram
    PROVE  PInv'
  <1>1. /\ Free({Obj(tlv, "tlv")}) /\ running' = FALSE /\ tlv' = NULL
        /\ UNCHANGED <<signed, handler, kept, thread>>
    BY DEF Leave
  <1> QED
    BY <1>1, FreesTlv, BetweenPackets

\* The raw form of a packet is one.
LEMMA RawOfForm ==
    ASSUME NEW p \in Packet \cup UDPPacket, NEW got \in Nat, NEW by \in Sender,
           NEW live \in BOOLEAN
    PROVE  LET r == RawOf(p, got, by, live)
           IN  r \in RawForm /\ Encoded(r) /\ r.len = p.len /\ r.got = got /\ (r.live <=> live)
  <1>1. Encoded(p)
    BY PacketAssumption
  <1>2. p.type \in Type /\ p.len \in Nat /\ p.entries \in Seq(Entry)
    BY <1>1 DEF Encoded
  <1> QED
    BY <1>1, <1>2 DEF RawOf, RawForm, Encoded

\* The handler is called.
LEMMA HandlerCalled ==
    ASSUME PInv, todo = <<>>, tlv # NULL,
           NEW p \in Packet \cup UDPPacket, NEW got \in Nat, got <= p.len,
           NEW by \in Sender, NEW live \in BOOLEAN,
           OnPacket(tlv, RawOf(p, got, by, live)),
           tlv' = NULL, UNCHANGED <<thread, running>>,
           other_addr' \in Sender, net' \subseteq Datagram
    PROVE  PInv'
  <1> DEFINE r == RawOf(p, got, by, live)
  <1>1. r \in RawForm /\ Encoded(r) /\ r.got <= r.len /\ r.type \in Type
    BY RawOfForm DEF RawForm
  <1> HIDE DEF r
  <1>2. /\ fault = "none" /\ slot' = tlv /\ raw' = r /\ todo' = Unpack[r.type]
        /\ pos' = 0 /\ made' = Blank(r) /\ UNCHANGED <<lost, signed, kept>>
        /\ IF r.live THEN Malloc(RawParts(tlv)) ELSE Free({Obj(tlv, "tlv")})
    BY DEF OnPacket, Malloc, Free, Running, r
  <1>3. /\ made' \in Unpacked /\ made'.from = r /\ made'.has = {} /\ made'.list = NULL
    BY <1>1, <1>2 DEF Blank, Unpacked
  <1>4. PacketOK(made') /\ Built(made')
    BY <1>1, <1>3 DEF PacketOK, Built
  <1>5. /\ todo' # <<>> /\ todo' \in Rests(r.type) /\ Head(todo') = "base"
    BY <1>1, <1>2, RestFirst
  <1>6. Owned(slot', made') = {}
    BY <1>3, OwnedParts
  <1>7. KeptPart' = KeptPart
    BY <1>2 DEF KeptPart
  <1>8. /\ heap' = (IF r.live THEN RawParts(tlv) ELSE {}) \cup KeptPart \cup lost
        /\ fault' = "none"
    <2>1. CASE r.live
      <3>1. TlvPart \subseteq RawParts(tlv)
        BY DEF TlvPart, RawParts
      <3> QED
        BY <1>2, <2>1, <3>1, ListenerFacts DEF Malloc
    <2>2. CASE ~r.live
      <3>1. Free({Obj(tlv, "tlv")}) /\ Running
        BY <1>2, <2>2 DEF Running
      <3> QED
        BY <2>2, <3>1, FreesTlv
    <2> QED
      BY <2>1, <2>2
  <1>9. HeapFits'
    BY <1>2, <1>5, <1>6, <1>7, <1>8, ListenerFacts DEF HeapFits, TlvPart, HandlerPart
  <1>10. TypeOK'
    <2>1. lost' \subseteq heap' /\ slot' \in Slot
      BY <1>2, <1>8, ListenerFacts
    <2> QED
      BY <1>2, <1>3, <1>4, <1>5, <1>8, <2>1 DEF PInv, TypeOK
  <1>11. StageFits'
    BY <1>2, <1>3, <1>5 DEF StageFits
  <1>12. HandlerFits'
    BY <1>2, <1>4, <1>5, <1>11, ListenerFacts DEF HandlerFits
  <1>13. KeptFits'
    <2>1. NULL \notin DOMAIN kept
      BY SlotAssumption DEF PInv, TypeOK
    <2> QED
      BY <1>2, <2>1 DEF PInv, KeptFits
  <1>14. SafeMemory' /\ StaysInside'
    BY <1>8 DEF SafeMemory, StaysInside
  <1> QED
    BY <1>9, <1>10, <1>12, <1>13, <1>14 DEF PInv

LEMMA TCPReceiveKeeps ==
    ASSUME PInv, TCPReceive
    PROVE  PInv'
  <1>1. PICK p \in Packet :
          \E got \in {p.len} \cup {k \in Piece : k \in 1..(p.len - 1)} :
            OnPacket(tlv, RawOf(p, got, "peer", TRUE))
    BY DEF TCPReceive
  <1>2. PICK got \in {p.len} \cup {k \in Piece : k \in 1..(p.len - 1)} :
          OnPacket(tlv, RawOf(p, got, "peer", TRUE))
    BY <1>1
  <1>3. /\ todo = <<>> /\ tlv # NULL /\ tlv' = NULL /\ UNCHANGED <<thread, running>>
        /\ UNCHANGED <<other_addr, net>>
    BY DEF TCPReceive, Waiting, udp
  <1>4. got \in Nat /\ got <= p.len /\ "peer" \in Sender
    <2>1. p.len \in Nat
      BY PacketAssumption DEF Encoded
    <2>2. got = p.len \/ (got \in Nat /\ got <= p.len - 1)
      BY <1>2, <2>1
    <2> QED
      BY <2>1, <2>2 DEF Sender, End
  <1>5. other_addr' \in Sender /\ net' \subseteq Datagram
    BY <1>3 DEF PInv, TypeOK
  <1> QED
    BY <1>2, <1>3, <1>4, <1>5, HandlerCalled

LEMMA TCPReceiveCutKeeps ==
    ASSUME PInv, TCPReceiveCut
    PROVE  PInv'
  <1>1. PICK p \in Packet : p.len > 0 /\ OnPacket(tlv, RawOf(p, 0, "peer", FALSE))
    BY DEF TCPReceiveCut
  <1>2. /\ todo = <<>> /\ tlv # NULL /\ tlv' = NULL /\ UNCHANGED <<thread, running>>
        /\ UNCHANGED <<other_addr, net>>
    BY DEF TCPReceiveCut, Waiting, udp
  <1>3. 0 \in Nat /\ 0 <= p.len /\ "peer" \in Sender
    BY PacketAssumption DEF Encoded, Sender, End
  <1>4. other_addr' \in Sender /\ net' \subseteq Datagram
    BY <1>2 DEF PInv, TypeOK
  <1> QED
    BY <1>1, <1>2, <1>3, <1>4, HandlerCalled

LEMMA SendKeeps ==
    ASSUME PInv, NEW e \in End, Send(e)
    PROVE  PInv'
  <1>1. PICK p \in UDPPacket :
          net' = net \cup {[by |-> e, src |-> BoundTo(e),
                            dst |-> IF e = "this" THEN other_addr ELSE Peer(e),
                            packet |-> p, size |-> LLNET_HEADER_LENGTH + p.len]}
    BY DEF Send
  <1>2. e \in Sender /\ Peer(e) \in Sender /\ other_addr \in Sender
    <2>1. e \in {"this", "peer"}
      BY DEF End
    <2>2. \E q \in End : q # e
      BY <2>1 DEF End
    <2>3. Peer(e) \in End
      BY <2>2 DEF Peer
    <2> QED
      BY <2>3 DEF Sender, PInv, TypeOK
  <1>3. LLNET_HEADER_LENGTH + p.len \in Nat
    BY PacketAssumption DEF Encoded, LLNET_HEADER_LENGTH
  <1>4. net' \subseteq Datagram
    <2>1. net \subseteq Datagram
      BY DEF PInv, TypeOK
    <2> QED
      BY <1>1, <1>2, <1>3, <2>1 DEF Datagram, BoundTo
  <1> QED
    BY <1>2, <1>4, NetworkKeeps DEF Send

LEMMA SendStrayKeeps ==
    ASSUME PInv, SendStray
    PROVE  PInv'
  <1>1. PICK p \in UDPPacket, n \in StraySize :
          net' = net \cup {[by |-> "stray", src |-> "stray", dst |-> BoundTo("this"),
                            packet |-> p, size |-> n]}
    BY DEF SendStray
  <1>2. "stray" \in Sender /\ BoundTo("this") \in Sender /\ n \in Nat
    <2>1. \E q \in End : q # "this"
      BY DEF End
    <2>2. Peer("this") \in End
      BY <2>1 DEF Peer
    <2> QED
      BY <2>2, StrayAssumption DEF BoundTo, Sender
  <1>3. net' \subseteq Datagram
    <2>1. net \subseteq Datagram
      BY DEF PInv, TypeOK
    <2> QED
      BY <1>1, <1>2, <2>1 DEF Datagram
  <1>4. other_addr' \in Sender
    BY DEF SendStray, PInv, TypeOK
  <1> QED
    BY <1>3, <1>4, NetworkKeeps DEF SendStray

\* What a datagram that is received says.
LEMMA RecvfromFacts ==
    ASSUME PInv, NEW d \in net, Recvfrom(d)
    PROVE  /\ Running /\ todo = <<>> /\ tlv # NULL
           /\ d.packet \in UDPPacket /\ d.size \in Nat /\ d.by \in Sender
           /\ other_addr' \in Sender /\ net' \subseteq Datagram
  <1>1. d \in Datagram /\ net \subseteq Datagram
    BY DEF PInv, TypeOK
  <1>2. d.packet \in UDPPacket /\ d.size \in Nat /\ d.by \in Sender /\ d.src \in Sender
    BY <1>1 DEF Datagram
  <1> QED
    BY <1>1, <1>2 DEF Recvfrom, Waiting

LEMMA ReceiveKeeps ==
    ASSUME PInv, Receive
    PROVE  PInv'
  <1>1. PICK d \in net :
          /\ Recvfrom(d) /\ d.size >= LLNET_HEADER_LENGTH
          /\ OnPacket(tlv, RawOf(d.packet, Copied(d), d.by, TRUE))
    BY DEF Receive
  <1>2. Copied(d) \in Nat /\ Copied(d) <= d.packet.len
    <2>1. d.size - LLNET_HEADER_LENGTH \in Nat /\ d.packet.len \in Nat
      BY <1>1, RecvfromFacts, PacketAssumption DEF LLNET_HEADER_LENGTH, Encoded
    <2> QED
      BY <2>1 DEF Copied, Min2
  <1>3. tlv' = NULL /\ UNCHANGED <<thread, running>>
    BY DEF Receive
  <1> QED
    BY <1>1, <1>2, <1>3, RecvfromFacts, HandlerCalled

LEMMA ReceiveShortKeeps ==
    ASSUME PInv, ReceiveShort
    PROVE  PInv'
  <1>1. PICK d \in net : Recvfrom(d)
    BY DEF ReceiveShort
  <1>2. /\ Free({Obj(tlv, "tlv")}) /\ tlv' = NULL
        /\ UNCHANGED <<signed, handler, kept, thread, running>>
    BY DEF ReceiveShort
  <1>3. running' \in BOOLEAN
    BY <1>2 DEF PInv, TypeOK
  <1> QED
    BY <1>1, <1>2, <1>3, RecvfromFacts, FreesTlv, BetweenPackets

LEMMA ReceiveStarvedKeeps ==
    ASSUME PInv, ReceiveStarved
    PROVE  PInv'
  <1>1. PICK d \in net : Recvfrom(d)
    BY DEF ReceiveStarved
  <1>2. Crash("starved") /\ UNCHANGED <<signed, listener>>
    BY DEF ReceiveStarved
  <1>3. UNCHANGED <<signed, slot, raw, todo, pos, made, kept, heap, lost, thread, running, tlv>>
        /\ fault' = "starved"
    BY <1>2 DEF Crash, handler, listener
  <1>4. TypeOK'
    BY <1>1, <1>3, RecvfromFacts DEF PInv, TypeOK
  <1>5. SafeMemory' /\ StaysInside'
    BY <1>3 DEF SafeMemory, StaysInside
  <1> QED
    BY <1>2, <1>4, <1>5, Faults

-----------------------------------------------------------------------------
(* The theorems *)

LEMMA PInvInit == Init => PInv
  <1> SUFFICES ASSUME Init PROVE PInv
    OBVIOUS
  <1>1. /\ slot = NULL /\ raw = NULL /\ todo = <<>> /\ pos = 0 /\ made = NULL
        /\ DOMAIN kept = {} /\ heap = {} /\ lost = {} /\ fault = "none" /\ signed \in BOOLEAN
        /\ thread \in {"tcp", "udp"} /\ running = TRUE /\ tlv = NULL /\ net = {}
        /\ other_addr = Peer("this")
    BY DEF Init, HandlersInit
  <1>2. Peer("this") \in Sender
    <2>1. \E q \in End : q # "this"
      BY DEF End
    <2>2. Peer("this") \in End
      BY <2>1 DEF Peer
    <2> QED
      BY <2>2 DEF Sender
  <1>3. running \in BOOLEAN
    BY <1>1, Zenon
  <1>4. TypeOK
    BY <1>1, <1>2, <1>3 DEF TypeOK
  <1>5. HeapFits
    BY <1>1 DEF HeapFits, TlvPart, HandlerPart, KeptPart
  <1> QED
    BY <1>1, <1>4, <1>5 DEF PInv, HandlerFits, KeptFits, SafeMemory, StaysInside

LEMMA PInvStep == PInv /\ [Next]_vars => PInv'
  <1> SUFFICES ASSUME PInv, [Next]_vars PROVE PInv'
    OBVIOUS
  <1>1. CASE Begin
    BY <1>1, BeginKeeps
  <1>2. ASSUME NEW t \in {"tcp", "udp"}, ListenerFails(t) PROVE PInv'
    BY <1>2, LeaveKeeps DEF ListenerFails, Waiting, udp, PInv, TypeOK
  <1>3. CASE TCPReceive \/ TCPReceiveCut
    BY <1>3, TCPReceiveKeeps, TCPReceiveCutKeeps
  <1>4. ASSUME NEW e \in End, Send(e) PROVE PInv'
    BY <1>4, SendKeeps
  <1>5. CASE SendStray
    BY <1>5, SendStrayKeeps
  <1>6. CASE Lose
    BY <1>6, NetworkKeeps DEF Lose, PInv, TypeOK
  <1>7. CASE ReceiveEmpty
    BY <1>7, RecvfromFacts, LeaveKeeps DEF ReceiveEmpty
  <1>8. CASE ReceiveShort
    BY <1>8, ReceiveShortKeeps
  <1>9. CASE Receive
    BY <1>9, ReceiveKeeps
  <1>10. CASE ReceiveStarved
    BY <1>10, ReceiveStarvedKeeps
  <1>11. CASE Handle
    BY <1>11, UseFreedKeeps, CreateBaseKeeps, AllocateDataKeeps, FieldsOutsideKeeps, CopyArbitraryKeeps, CreateListKeeps,
       ParsePairKeeps, ParsePairStarvedKeeps, ParseKeyKeeps, NoKeysKeeps,
       StringStarvedKeeps, AstrayKeeps, ReleaseKeeps DEF Handle, HandlerStep
  <1>12. CASE Consume
    BY <1>12, ConsumeKeeps
  <1>13. CASE UNCHANGED vars
    BY <1>13, NetworkKeeps DEF vars, listener, udp, PInv, TypeOK
  <1> QED
    BY <1>1, <1>2, <1>3, <1>4, <1>5, <1>6, <1>7, <1>8, <1>9, <1>10, <1>11, <1>12, <1>13 DEF Next

\* A step from one turn of a parser to another takes it further.
LEMMA Advances ==
    ASSUME PInv, [Next]_vars, Parsing, Parsing', <<made, pos>>' # <<made, pos>>, ~Misread
    PROVE  pos' > pos
  <1>1. /\ todo # <<>> /\ raw.live /\ Head(todo) \in {"pairs", "keys"} /\ Running
        /\ todo' # <<>> /\ Head(todo') \in {"pairs", "keys"}
    BY DEF Parsing, At, Running
  <1>2. /\ Encoded(raw) /\ pos \in Int /\ raw.entries \in Seq(Entry)
        /\ Tail(todo) # <<>> => Head(Tail(todo)) = "release"
        /\ Head(todo) = "keys" => raw.type \notin PairTypes
        /\ Head(todo) = "pairs" => raw.type \in PairTypes
    BY <1>1, HandlerFacts, RestStep DEF Encoded
  <1>3. \A i \in DOMAIN raw.entries :
          /\ raw.entries[i].head \in Nat /\ raw.entries[i].value \in Nat
          /\ raw.entries[i].head + raw.entries[i].value >= 1
          /\ raw.type \notin PairTypes => raw.entries[i].head = 0
    <2> TAKE i \in DOMAIN raw.entries
    <2>1. raw.entries[i] \in Entry
      BY <1>2
    <2>2. LaidOut(raw.type, raw.entries)
      BY <1>2 DEF Encoded
    <2> QED
      BY <2>1, <2>2 DEF LaidOut, Entry
  <1>4. ~Advance
    BY <1>1, <1>2 DEF Advance
  <1>5. CASE ParsePair
    <2>1. PICK i \in DOMAIN raw.entries : LoopTo(AfterPair(i))
      BY <1>4, <1>5 DEF ParsePair
    <2>2. ValueLength(raw.entries[i]) = raw.entries[i].value
      BY <1>2, <1>5 DEF Misread, ParsePair, At
    <2>3. pos' = pos + raw.entries[i].head + raw.entries[i].value + 1
      BY <2>1, <2>2 DEF LoopTo, AfterPair, Ending
    <2>4. raw.entries[i].head \in Nat /\ raw.entries[i].value \in Nat /\ pos \in Int
      BY <1>2, <1>3
    <2> QED
      BY <2>3, <2>4
  <1>6. CASE ParseKey
    <2>1. raw.type \notin PairTypes
      BY <1>2, <1>6 DEF ParseKey, At
    <2>2. ASSUME NEW i \in DOMAIN raw.entries, LoopTo(pos + raw.entries[i].value)
          PROVE  pos' > pos
      <3>1. pos' = pos + raw.entries[i].value
        BY <2>2 DEF LoopTo
      <3>2. raw.entries[i].value \in Nat /\ raw.entries[i].value >= 1
        BY <1>3, <2>1
      <3> QED
        BY <1>2, <3>1, <3>2
    <2>3. CASE LoopTo(AfterEmpty)
      BY <1>2, <2>3 DEF LoopTo, AfterEmpty
    <2> QED
      BY <1>6, <2>2, <2>3 DEF ParseKey
  <1>7. ~(ParsePairStarved \/ NoKeys \/ Release)
    BY <1>1, <1>4 DEF ParsePairStarved, NoKeys, Release, Return, At
  <1>8. ~(CreateBasePacket \/ AllocateData \/ CopyArbitrary \/ CreateList)
    BY <1>1 DEF CreateBasePacket, AllocateData, CopyArbitrary, CreateList, At
  <1>9. \A why : ~Crash(why)
    BY DEF Crash, handler
  <1>10. ~(UseFreed \/ FieldsOutside \/ StringStarved \/ Astray \/ ReceiveStarved)
    BY <1>9 DEF UseFreed, FieldsOutside, StringStarved, Astray, ReceiveStarved
  <1>11. CASE Handle
    BY <1>5, <1>6, <1>7, <1>8, <1>10, <1>11 DEF Handle, HandlerStep
  <1>12. ~(Begin \/ TCPReceive \/ TCPReceiveCut \/ \E t \in {"tcp", "udp"} : ListenerFails(t))
    BY <1>1 DEF Begin, TCPReceive, TCPReceiveCut, ListenerFails, Waiting
  <1>13. ~(ReceiveEmpty \/ ReceiveShort \/ Receive)
    BY <1>1 DEF ReceiveEmpty, ReceiveShort, Receive, Recvfrom, Waiting
  <1>14. ~((\E e \in End : Send(e)) \/ SendStray \/ Lose \/ UNCHANGED vars)
    BY DEF Send, SendStray, Lose, vars, handler
  <1>15. ~Consume
    BY <1>9 DEF Consume, Destroy, handler
  <1> QED
    BY <1>10, <1>11, <1>12, <1>13, <1>14, <1>15 DEF Next

LEMMA PInvAlways == Spec => []PInv
  <1> QED
    BY PInvInit, PInvStep, PTL DEF Spec

\* A handler always has a raw packet and a packet to return, of the shape that
\* packethandlers.c gives them, and no payload is longer than its memory.
THEOREM TypeAlways == Spec => []TypeOK
  <1>1. PInv => TypeOK
    BY DEF PInv
  <1> QED
    BY <1>1, PInvAlways, PTL

\* Every error path of the handlers frees what it must, and every destroy
\* function all that its unpack function has made.
THEOREM NothingLeaksAlways == Spec => []NothingLeaks
  <1>1. PInv => NothingLeaks
    <2>1. PInv => heap = TlvPart \cup HandlerPart \cup KeptPart \cup lost
      BY DEF PInv, HeapFits
    <2> QED
      BY <2>1 DEF NothingLeaks, TlvPart, HandlerPart, KeptPart
  <1> QED
    BY <1>1, PInvAlways, PTL

\* Nothing is freed twice but what a listener had freed before it handed it
\* over, no copy takes bytes from outside of a payload, fields are read there
\* only of a payload that is shorter than they are, and destroy meets a list
\* that is NULL only where an allocation has failed.
THEOREM SafeMemoryAlways == Spec => []SafeMemory
  <1>1. PInv => SafeMemory
    BY DEF PInv
  <1> QED
    BY <1>1, PInvAlways, PTL

\* The parsers go from entry to entry, but for the cases that StaysInside names.
THEOREM StaysInsideAlways == Spec => []StaysInside
  <1>1. PInv => StaysInside
    BY DEF PInv
  <1> QED
    BY <1>1, PInvAlways, PTL

\* A list that is returned with no failed allocation is the list of the
\* payload, even where lengths are misread: then nothing is returned.
THEOREM ParsedIsEncodedAlways == Spec => []ParsedIsEncoded
  <1>1. PInv => ParsedIsEncoded
    BY DEF PInv, KeptFits, Complete, ParsedIsEncoded
  <1> QED
    BY <1>1, PInvAlways, PTL

\* No payload takes a parser back or lets it stand still, unless the code
\* misreads a length in it: with the length of the payload as a bound, its loop
\* ends.
THEOREM ParserAdvancesAlways == Spec => ParserAdvances
  <1>1. PInv /\ [Next]_vars =>
          (Parsing /\ Parsing' /\ <<made, pos>>' # <<made, pos>> => pos' > pos \/ Misread)
    BY Advances
  <1> QED
    BY <1>1, PInvAlways, PTL DEF Spec, ParserAdvances

=============================================================================
