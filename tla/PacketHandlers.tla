--------------------------- MODULE PacketHandlers ---------------------------
(***************************************************************************)
(* network/packethandlers.c and network/netutils.c: how one thread turns a *)
(* raw packet that a listener hands over into an unpacked packet, which    *)
(* allocations it makes, what it frees when one of them fails, and how the *)
(* unpacked packet is destroyed.                                           *)
(*                                                                         *)
(* The bytes of a list of keys or of key-value pairs are represented by    *)
(* where its entries begin and end; what a read elsewhere finds is left    *)
(* open, and ends the behaviour.  An object of the heap is the slot of its *)
(* packet, what it is, and for a part of a list element its place there.   *)
(***************************************************************************)
EXTENDS Integers, Sequences

CONSTANTS
    Slot,       \* bound: packets alive at once
    Step,       \* DEFAULT_LIST_STEP: 25 in the code
    SizeMax,    \* one more than the largest size_t: 2^64 in the code
    NULL

ASSUME SlotAssumption == NULL \notin Slot
ASSUME StepAssumption == Step \in Nat \ {0}
ASSUME SizeAssumption == SizeMax \in Nat /\ SizeMax >= 24
ASSUME ListAssumption == NULL \notin Seq(Nat)

VARIABLES
    signed,     \* char is signed in this build, as on x86 and not on ARM
    slot, raw,  \* the packet that is being unpacked, and its raw form
    todo,       \* what the handler has still to do
    pos,        \* the byte of the payload that a list parser is at
    made,       \* the packet that the handler will return
    kept,       \* the packets that have been returned and not destroyed
    heap,       \* the objects that are allocated
    lost,       \* history: packets with list entries that nothing points to
    fault       \* why the program cannot go on

handler == <<slot, raw, todo, pos, made>>
memory  == <<heap, lost, fault>>

-----------------------------------------------------------------------------
(* Packet types: what each handler does, one after the other *)

unpackInit           == <<"base", "data", "release">>
unpackStateRequest   == <<"base", "release">>
unpackStateResponse  == <<"base", "data", "arbitrary", "release">>
unpackStateUpdate    == <<"base", "data", "arbitrary", "release">>
unpackConfigRequest  == <<"base", "data", "list", "keys", "release">>
unpackConfigResponse == <<"base", "data", "list", "pairs", "release">>
unpackConfigUpdate   == <<"base", "data", "list", "pairs", "release">>
unpackUserData       == <<"base", "data", "release">>
unpackDebug          == <<"base", "data", "arbitrary", "release">>

Unpack ==
    [INIT            |-> unpackInit,
     STATE_REQUEST   |-> unpackStateRequest,
     STATE_RESPONSE  |-> unpackStateResponse,
     STATE_UPDATE    |-> unpackStateUpdate,
     CONFIG_REQUEST  |-> unpackConfigRequest,
     CONFIG_RESPONSE |-> unpackConfigResponse,
     CONFIG_UPDATE   |-> unpackConfigUpdate,
     USER_DATA       |-> unpackUserData,
     DEBUG           |-> unpackDebug]

Type      == DOMAIN Unpack
PairTypes == {"CONFIG_RESPONSE", "CONFIG_UPDATE"}
ListTypes == PairTypes \cup {"CONFIG_REQUEST"}

\* The bytes of the payload that are read whatever the length says.
FixedBytes(type) ==
    CASE type \in {"INIT", "STATE_RESPONSE", "STATE_UPDATE"} -> 4
      [] type = "USER_DATA"                                  -> 8
      [] type = "DEBUG"                                      -> 12
      [] OTHER                                               -> 0

-----------------------------------------------------------------------------
(* The layout of a list in a payload.  An entry begins at byte at; it has  *)
(* head bytes (the key of a pair, its terminator and the header of the     *)
(* value), then value bytes (for a key alone: the key and its terminator). *)
(* Pairs are separated by a semicolon, and zeros pad the list to the       *)
(* length of the payload.                                                  *)

Entry     == [at : Nat, head : Nat, value : Nat, string : BOOLEAN]
Gap(type) == IF type \in PairTypes THEN 1 ELSE 0
After(e)  == e.at + e.head + e.value

EndOf(entries) == IF entries = <<>> THEN 0 ELSE After(entries[Len(entries)])

\* The first entry begins at byte 0, every other one behind the one before
\* it.  None is empty, a value fits in a length of three bytes.
LaidOut(type, entries) ==
    /\ entries # <<>> => entries[1].at = 0
    /\ \A i, j \in DOMAIN entries :
         /\ i < j => entries[j].at >= After(entries[i]) + Gap(type)
         /\ j = i + 1 => entries[j].at = After(entries[i]) + Gap(type)
    /\ \A i \in DOMAIN entries :
         /\ entries[i].head + entries[i].value >= 1
         /\ entries[i].value + 4 < 256 * 65536
         /\ type \notin PairTypes => entries[i].head = 0

\* Memory that was allocated for a payload and not written holds anything.
Whole            == raw.got = raw.len
StartsAt(i, at)  == Whole /\ i \in DOMAIN raw.entries /\ raw.entries[i].at = at
InPadding(at)    == Whole /\ EndOf(raw.entries) <= at /\ at < raw.len

SignExtended(byte) == IF signed /\ byte >= 128 THEN byte - 256 ELSE byte

\* The three bytes of a length are shifted and combined with |, as integers:
\* a negative one hides the bytes above it.
LengthFrom(hi, mid, lo) ==
    IF SignExtended(lo) < 0 THEN SignExtended(lo)
    ELSE IF SignExtended(mid) < 0 THEN SignExtended(mid) * 256 + lo
    ELSE SignExtended(hi) * 65536 + mid * 256 + lo

\* What the code finds in the header of an entry's value for its size.
ValueLength(e) ==
    LET n == e.value + 4
    IN  LengthFrom(n \div 65536, (n \div 256) % 256, n % 256) - 4

-----------------------------------------------------------------------------
(* Memory *)

Obj(s, what)      == <<s, what, 0>>
RawParts(s)       == {Obj(s, "tlv"), Obj(s, "bytes")}
PacketParts(s)    == {Obj(s, "packet"), Obj(s, "data")}

\* The allocations of KVPairTLV_create, or of a key alone, for entry i of p
\* as element n of the list.
EntryParts(s, p, i, n) ==
    IF p.type \notin PairTypes THEN {<<s, "key", n>>}
    ELSE {<<s, "pair", n>>, <<s, "key", n>>}
         \cup (IF p.entries[i].string THEN {<<s, "value", n>>} ELSE {})

\* The objects that a packet k of slot s under construction, or returned, has.
Owned(s, k) ==
    {Obj(s, what) : what \in k.has}
    \cup (IF k.list = NULL THEN {}
          ELSE {Obj(s, "list")} \cup
               UNION {EntryParts(s, k.from, k.list[n], n) : n \in DOMAIN k.list})

\* free of every object of objs; of one that is not allocated, a fault.
Free(objs) ==
    /\ heap' = heap \ objs
    /\ fault' = IF objs \subseteq heap THEN fault ELSE "freed"
    /\ UNCHANGED lost

Malloc(objs) == heap' = heap \cup objs /\ UNCHANGED <<lost, fault>>

Blank(p) == [from |-> p, has |-> {}, list |-> NULL, unset |-> {}, starved |-> FALSE]

Running  == fault = "none"
At(step) == Running /\ todo # <<>> /\ raw.live /\ Head(todo) = step
Advance  == todo' = Tail(todo) /\ UNCHANGED <<slot, raw>>
Stay     == UNCHANGED <<slot, raw, todo>>

Crash(why) ==
    /\ fault' = why
    /\ UNCHANGED <<handler, kept, heap, lost>>

\* The handler has returned.
Return == slot' = NULL /\ raw' = NULL /\ todo' = <<>> /\ pos' = 0 /\ made' = NULL

-----------------------------------------------------------------------------
(* The handler *)

HandlersInit ==
    /\ signed \in BOOLEAN
    /\ slot = NULL /\ raw = NULL /\ todo = <<>> /\ pos = 0 /\ made = NULL
    /\ kept = [s \in {} |-> NULL]
    /\ heap = {} /\ lost = {} /\ fault = "none"

FreeSlots == {s \in Slot : \A obj \in heap : obj[1] # s}

\* A listener has made the raw packet p in slot s, or has made it and freed it
\* again, and calls its handler.
OnPacket(s, p) ==
    /\ Running /\ todo = <<>>
    /\ slot' = s /\ raw' = p /\ todo' = Unpack[p.type]
    /\ pos' = 0 /\ made' = Blank(p)
    /\ IF p.live THEN Malloc(RawParts(s)) ELSE Free({Obj(s, "tlv")})
    /\ UNCHANGED <<signed, kept>>

\* Every handler reads the raw packet and frees it.
UseFreed ==
    /\ Running /\ todo # <<>> /\ ~raw.live
    /\ Crash("freed")
    /\ UNCHANGED signed

\* Mutant: the handler returns NULL and leaves the raw packet to its caller.
GiveUpKeepsRaw ==
    /\ Free(Owned(slot, made))
    /\ Return /\ UNCHANGED kept

\* An allocation failed: everything is freed, the raw packet too, and NULL
\* returned.
GiveUp ==
    /\ Free(Owned(slot, made) \cup RawParts(slot))
    /\ Return /\ UNCHANGED kept

CreateBasePacket ==
    /\ At("base")
    /\ \/ /\ Malloc({Obj(slot, "packet")})
          /\ made' = [made EXCEPT !.has = @ \cup {"packet"}]
          /\ Advance /\ UNCHANGED <<pos, kept>>
       \/ GiveUp
    /\ UNCHANGED signed

\* The structure of the payload, and the fields with a fixed place, from what
\* was received or from what else the memory holds.
AllocateData ==
    /\ At("data")
    /\ \/ /\ Malloc({Obj(slot, "data")})
          /\ made' = [made EXCEPT !.has = @ \cup {"data"},
                                  !.unset = IF raw.got < FixedBytes(raw.type) THEN {"data"} ELSE {}]
          /\ Advance /\ UNCHANGED <<pos, kept>>
       \/ GiveUp
    /\ UNCHANGED signed

\* The payload is shorter than those fields: they are read from memory behind
\* it, which may be no memory of the program.
FieldsOutside ==
    /\ At("data")
    /\ raw.len < FixedBytes(raw.type)
    /\ Crash("overread")
    /\ UNCHANGED signed

\* Mutant: the size is kept in as many bits as the length has.
ArbitrarySizeNarrow == (raw.len - FixedBytes(raw.type)) % (2 ^ 24)

\* length - 4 or - 12, converted to size_t
ArbitrarySize == (raw.len - FixedBytes(raw.type)) % SizeMax

\* No allocator gives out half of the address space.
Allocatable(size) == size < SizeMax \div 2

\* The rest of the payload is copied; without memory it is dropped.
CopyArbitrary ==
    /\ At("arbitrary")
    /\ LET none == ArbitrarySize = 0 /\ raw.type # "DEBUG"
       IN  \/ /\ ~none /\ Allocatable(ArbitrarySize)
              /\ heap' = heap \cup {Obj(slot, "arbitrary")}
              /\ made' = [made EXCEPT !.has = @ \cup {"arbitrary"},
                                      !.unset = IF Whole THEN @ ELSE @ \cup {"arbitrary"}]
              /\ fault' = IF FixedBytes(raw.type) + ArbitrarySize > raw.len
                            THEN "outside" ELSE fault
           \/ none /\ UNCHANGED <<heap, made, fault>>
           \/ ~none /\ made' = [made EXCEPT !.starved = TRUE] /\ UNCHANGED <<heap, fault>>
    /\ Advance
    /\ UNCHANGED <<signed, pos, kept, lost>>

\* arraylist_init.  Without a list the pairs are not parsed, the keys are.
CreateList ==
    /\ At("list")
    /\ \/ /\ Malloc({Obj(slot, "list")})
          /\ made' = [made EXCEPT !.list = <<>>]
          /\ Advance
       \/ /\ made' = [made EXCEPT !.starved = TRUE]
          /\ todo' = IF raw.type \in PairTypes THEN <<"release">> ELSE Tail(todo)
          /\ UNCHANGED <<slot, raw, memory>>
    /\ UNCHANGED <<signed, pos, kept>>

\* arraylist_add of the entry i, whose result is not looked at: when the list
\* is full and cannot grow, the entry is lost.
AddEntry(i) ==
    \/ /\ Malloc(EntryParts(slot, raw, i, Len(made.list) + 1))
       /\ made' = [made EXCEPT !.list = Append(@, i)]
    \/ /\ made.list # <<>> /\ Len(made.list) % Step = 0
       /\ made' = [made EXCEPT !.starved = TRUE]
       /\ heap' = heap \cup {Obj(slot, "lost")}
       /\ lost' = lost \cup {Obj(slot, "lost")}
       /\ UNCHANGED fault

\* Where the value of entry i, that begins at pos, ends for the code.
Ending(i) == pos + raw.entries[i].head + ValueLength(raw.entries[i])

\* Mutant: the rest is left when it is shorter than the header of a value.
LoopToShort(n) ==
    /\ pos' = n
    /\ IF n + 4 < raw.len THEN Stay ELSE Advance

\* The loop of a parser goes on, or is left, at byte n.
LoopTo(n) ==
    /\ pos' = n
    /\ IF n < raw.len THEN Stay ELSE Advance

\* Mutant: the separator is not skipped.
AfterPairNoGap(i) == Ending(i)

\* Mutant: the end of the pair is not stored.
AfterPairSame(i) == pos

AfterPair(i) == Ending(i) + 1

\* One turn of parseKVList and KVPairTLV_createFromMemory.
ParsePair ==
    /\ At("pairs")
    /\ \/ \E i \in DOMAIN raw.entries :
            /\ StartsAt(i, pos)
            /\ AddEntry(i)
            /\ LoopTo(AfterPair(i))
       \/ \* an empty key: padding
          /\ InPadding(pos)
          /\ Advance /\ UNCHANGED <<pos, made, memory>>
    /\ UNCHANGED <<signed, kept>>

\* The structure of a pair cannot be allocated: the pairs and the list are
\* given up, and the packet is returned without a list.
ParsePairStarved ==
    /\ At("pairs")
    /\ \E i \in DOMAIN raw.entries : StartsAt(i, pos)
    /\ Free(Owned(slot, [made EXCEPT !.has = {}]))
    /\ made' = [made EXCEPT !.list = NULL, !.starved = TRUE]
    /\ Advance
    /\ UNCHANGED <<signed, pos, kept>>

\* Mutant: the next string is looked for past the last one copied.
AfterEmptyStuck == pos

\* An empty string takes one byte.
AfterEmpty == pos + 1

\* One turn of getStringsFromArbitraryData.
ParseKey ==
    /\ At("keys") /\ pos < raw.len
    /\ \/ \E i \in DOMAIN raw.entries :
            /\ StartsAt(i, pos)
            /\ made.list # NULL
            /\ AddEntry(i)
            /\ LoopTo(pos + raw.entries[i].value)
       \/ /\ InPadding(pos)
          /\ LoopTo(AfterEmpty)
          /\ UNCHANGED <<made, memory>>
    /\ UNCHANGED <<signed, kept>>

\* The condition of that loop is tested before its first turn.
NoKeys ==
    /\ At("keys") /\ pos >= raw.len
    /\ Advance
    /\ UNCHANGED <<signed, pos, made, kept, memory>>

Parsing == At("pairs") \/ (At("keys") /\ pos < raw.len)

\* A copy of a key or of a string value goes to what malloc returned, NULL
\* or not; so does the add of a key to a list that was not made.
StringStarved ==
    /\ Parsing /\ \E i \in DOMAIN raw.entries : StartsAt(i, pos)
    /\ Crash("starved")
    /\ UNCHANGED signed

\* The parser is at a byte where no entry begins and that is no padding, or in
\* memory that was not written.
Astray ==
    /\ Parsing /\ ~InPadding(pos) /\ \A i \in DOMAIN raw.entries : ~StartsAt(i, pos)
    /\ Crash("astray")
    /\ UNCHANGED signed

\* The raw packet is freed and the unpacked one returned.
Release ==
    /\ At("release")
    /\ Free(RawParts(slot))
    /\ kept' = [s \in DOMAIN kept \cup {slot} |-> IF s = slot THEN made ELSE kept[s]]
    /\ Return
    /\ UNCHANGED signed

HandlerStep ==
    \/ UseFreed
    \/ CreateBasePacket \/ AllocateData \/ FieldsOutside \/ CopyArbitrary
    \/ CreateList \/ ParsePair \/ ParsePairStarved
    \/ ParseKey \/ NoKeys \/ StringStarved \/ Astray
    \/ Release

-----------------------------------------------------------------------------
(* The consumer *)

destroyInit           == {"data", "packet"}
destroyStateRequest   == {"data", "packet"}
destroyStateResponse  == {"arbitrary", "data", "packet"}
destroyStateUpdate    == {"arbitrary", "data", "packet"}
destroyConfigRequest  == {"list", "data", "packet"}
destroyConfigResponse == {"list", "data", "packet"}
destroyConfigUpdate   == {"list", "data", "packet"}
destroyUserData       == {"data", "packet"}
destroyDebug          == {"arbitrary", "data", "packet"}

\* What each function frees; a list with its entries.
Destroys ==
    [INIT            |-> destroyInit,
     STATE_REQUEST   |-> destroyStateRequest,
     STATE_RESPONSE  |-> destroyStateResponse,
     STATE_UPDATE    |-> destroyStateUpdate,
     CONFIG_REQUEST  |-> destroyConfigRequest,
     CONFIG_RESPONSE |-> destroyConfigResponse,
     CONFIG_UPDATE   |-> destroyConfigUpdate,
     USER_DATA       |-> destroyUserData,
     DEBUG           |-> destroyDebug]

\* A field that is NULL is not freed.
FreedBy(s, k) ==
    LET listed == "list" \in Destroys[k.from.type]
    IN  {obj \in Owned(s, k) : obj[2] \in Destroys[k.from.type]}
        \cup (IF listed THEN Owned(s, [k EXCEPT !.has = {}]) ELSE {})

\* list_size reads the list, NULL or not.
Destroy(s) ==
    LET k == kept[s]
    IN  /\ Running /\ s \in DOMAIN kept
        /\ IF "list" \in Destroys[k.from.type] /\ k.list = NULL
             THEN Crash("nolist")
             ELSE /\ Free(FreedBy(s, k))
                  /\ kept' = [t \in DOMAIN kept \ {s} |-> kept[t]]
                  /\ UNCHANGED handler
        /\ UNCHANGED signed

=============================================================================
