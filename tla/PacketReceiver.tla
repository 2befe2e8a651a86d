--------------------------- MODULE PacketReceiver ---------------------------
(***************************************************************************)
(* One end of a connection: one of its two listener threads, which hands   *)
(* the packets it receives to the handlers of network/packethandlers.c,    *)
(* and the application, which destroys the packets that they return.       *)
(*                                                                         *)
(* The TCP listener yields packets here that came in one piece or more, or *)
(* were cut short; how it reads them from the stream is TCPStream.  The UDP *)
(* listener is modelled in full, on a network that loses, duplicates and   *)
(* reorders datagrams.  Addresses are named after the end whose TCP socket *)
(* has them.                                                               *)
(***************************************************************************)
EXTENDS PacketHandlers, FiniteSets

CONSTANTS
    Packet,     \* the packets that come over TCP: type, len and entries
    UDPPacket,  \* the packets that both ends send over UDP
    Piece,      \* bound: the longest piece of a payload that comes in pieces
    StraySize,  \* bound: sizes of the datagrams that other programs send
    NetMax      \* bound: datagrams in the network

\* What a packet is: its length is that of the list in it and its padding.
Encoded(p) ==
    /\ p.type \in Type /\ p.len \in Nat /\ p.len < SizeMax
    /\ p.entries \in Seq(Entry)
    /\ LaidOut(p.type, p.entries) /\ EndOf(p.entries) <= p.len

ASSUME PacketAssumption == \A p \in Packet \cup UDPPacket : Encoded(p)
ASSUME UDPAssumption    == \A p \in UDPPacket : p.type \notin ListTypes
ASSUME PieceAssumption  == Piece \subseteq Nat
ASSUME StrayAssumption  == StraySize \subseteq Nat
ASSUME NetAssumption    == NetMax \in Nat

VARIABLES
    thread,     \* which of the two listeners it is
    running,    \* it has not left its loop
    tlv,        \* the slot of the raw packet that it has allocated
    other_addr, \* where this end sends its datagrams to
    net         \* the datagrams that have been sent

listener == <<thread, running, tlv>>
udp      == <<other_addr, net>>
vars     == <<signed, handler, kept, memory, listener, udp>>

LLNET_HEADER_LENGTH == 8

Min2(a, b) == IF a < b THEN a ELSE b

\* The two ends, and every other program that knows the address.
End      == {"this", "peer"}
Peer(e)  == CHOOSE p \in End : p # e
Sender   == End \cup {"stray"}
Datagram == [by : Sender, src : Sender, dst : Sender, packet : UDPPacket, size : Nat]

\* What the UDP socket of end e is bound to: the address of its peer.
BoundTo(e) == Peer(e)

\* The raw form of a packet: memory for len bytes is allocated, the first got
\* of them are written; unless it is live it is freed already.
RawOf(p, got, by, live) ==
    [type |-> p.type, len |-> p.len, entries |-> p.entries, got |-> got, by |-> by, live |-> live]

RawForm == [type : Type, len : Nat, entries : Seq(Entry), got : Nat, by : Sender, live : BOOLEAN]

-----------------------------------------------------------------------------
Init ==
    /\ HandlersInit
    /\ thread \in {"tcp", "udp"} /\ running = TRUE /\ tlv = NULL
    /\ other_addr = Peer("this") /\ net = {}

\* The top of the loop: memory for the next packet.
Begin ==
    /\ Running /\ running /\ todo = <<>> /\ tlv = NULL
    /\ \E s \in FreeSlots : tlv' = s /\ Malloc({Obj(s, "tlv")})
    /\ UNCHANGED <<signed, handler, kept, thread, running, udp>>

Waiting(t) == Running /\ thread = t /\ tlv # NULL /\ todo = <<>>

\* The loop is left: the peer has closed, or the read fails.
Leave ==
    /\ Free({Obj(tlv, "tlv")})
    /\ running' = FALSE /\ tlv' = NULL
    /\ UNCHANGED <<signed, handler, kept, thread>>

ListenerFails(t) == Waiting(t) /\ Leave /\ UNCHANGED udp

\* Every piece of the data is put at the start of the payload.
TCPReceive ==
    /\ Waiting("tcp")
    /\ \E p \in Packet : \E got \in {p.len} \cup {k \in Piece : k \in 1..(p.len - 1)} :
         OnPacket(tlv, RawOf(p, got, "peer", TRUE))
    /\ tlv' = NULL
    /\ UNCHANGED <<thread, running, udp>>

\* The stream ends inside the data: the packet is freed, and handed over.
TCPReceiveCut ==
    /\ Waiting("tcp")
    /\ \E p \in Packet : p.len > 0 /\ OnPacket(tlv, RawOf(p, 0, "peer", FALSE))
    /\ tlv' = NULL
    /\ UNCHANGED <<thread, running, udp>>

-----------------------------------------------------------------------------
(* UDP *)

\* llnet_connection_send over UDP, by either end.
Send(e) ==
    /\ Running /\ thread = "udp" /\ Cardinality(net) < NetMax
    /\ \E p \in UDPPacket :
         net' = net \cup {[by |-> e, src |-> BoundTo(e),
                           dst |-> IF e = "this" THEN other_addr ELSE Peer(e),
                           packet |-> p, size |-> LLNET_HEADER_LENGTH + p.len]}
    /\ UNCHANGED <<signed, handler, kept, memory, listener, other_addr>>

\* Another program sends a datagram of any size to this end.
SendStray ==
    /\ Running /\ thread = "udp" /\ Cardinality(net) < NetMax
    /\ \E p \in UDPPacket, n \in StraySize :
         net' = net \cup {[by |-> "stray", src |-> "stray", dst |-> BoundTo("this"),
                           packet |-> p, size |-> n]}
    /\ UNCHANGED <<signed, handler, kept, memory, listener, other_addr>>

Lose ==
    /\ Running
    /\ \E d \in net : net' = net \ {d}
    /\ UNCHANGED <<signed, handler, kept, memory, listener, other_addr>>

\* recvfrom: the datagram may be duplicated, and stay; its source becomes the
\* address of the other end.
Recvfrom(d) ==
    /\ Waiting("udp")
    /\ d \in net /\ d.dst = BoundTo("this")
    /\ net' \in {net, net \ {d}}
    /\ other_addr' = d.src

ReceiveEmpty ==
    /\ \E d \in net : Recvfrom(d) /\ d.size = 0
    /\ Leave

\* A datagram without a whole header is dropped.
ReceiveShort ==
    /\ \E d \in net : Recvfrom(d) /\ d.size \in 1..(LLNET_HEADER_LENGTH - 1)
    /\ Free({Obj(tlv, "tlv")})
    /\ tlv' = NULL
    /\ UNCHANGED <<signed, handler, kept, thread, running>>

\* Mutant: the size of the datagram is trusted.
CopiedSize(d) == d.size - LLNET_HEADER_LENGTH

Copied(d) == Min2(d.packet.len, d.size - LLNET_HEADER_LENGTH)

Receive ==
    /\ \E d \in net :
         /\ Recvfrom(d) /\ d.size >= LLNET_HEADER_LENGTH
         /\ OnPacket(tlv, RawOf(d.packet, Copied(d), d.by, TRUE))
    /\ tlv' = NULL
    /\ UNCHANGED <<thread, running>>

\* There is no memory for the payload: the copy goes to NULL.
ReceiveStarved ==
    /\ \E d \in net : Recvfrom(d) /\ d.size >= LLNET_HEADER_LENGTH
    /\ Crash("starved")
    /\ UNCHANGED <<signed, listener>>

-----------------------------------------------------------------------------
Handle == HandlerStep /\ UNCHANGED <<listener, udp>>

Consume == \E s \in DOMAIN kept : Destroy(s) /\ UNCHANGED <<listener, udp>>

Next ==
    \/ Begin \/ \E t \in {"tcp", "udp"} : ListenerFails(t)
    \/ TCPReceive \/ TCPReceiveCut
    \/ \E e \in End : Send(e)
    \/ SendStray \/ Lose
    \/ ReceiveEmpty \/ ReceiveShort \/ Receive \/ ReceiveStarved
    \/ Handle \/ Consume

\* A handler is a loop of its thread, which the scheduler runs.
Spec == Init /\ [][Next]_vars /\ WF_vars(Handle)

-----------------------------------------------------------------------------
(* Properties *)

Unpacked == [from : RawForm, has : SUBSET {"packet", "data", "arbitrary"},
             list : {NULL} \cup Seq(Nat), unset : SUBSET {"data", "arbitrary"}, starved : BOOLEAN]

\* A payload as the encoding makes it, and a list of entries that it has.
PacketOK(k) ==
    /\ k \in Unpacked
    /\ Encoded(k.from) /\ k.from.got <= k.from.len
    /\ k.list # NULL => \A n \in DOMAIN k.list : k.list[n] \in DOMAIN k.from.entries

\* Every variable has a value of its kind; the handler has a raw packet, and
\* one to return, while it runs, and no packet is longer than its memory.
TypeOK ==
    /\ signed \in BOOLEAN /\ running \in BOOLEAN /\ thread \in {"tcp", "udp"}
    /\ tlv \in Slot \cup {NULL} /\ other_addr \in Sender /\ net \subseteq Datagram
    /\ IF todo = <<>> THEN slot = NULL /\ raw = NULL /\ made = NULL
       ELSE slot \in Slot /\ PacketOK(made) /\ made.from = raw
    /\ DOMAIN kept \subseteq Slot /\ \A s \in DOMAIN kept : PacketOK(kept[s])
    /\ pos \in Int /\ lost \subseteq heap
    /\ fault \in {"none", "freed", "outside", "overread", "starved", "nolist", "astray"}

\* Whatever allocation fails, and whatever is received, every object on the
\* heap belongs to the packet being received, to the one being unpacked or to
\* one that was returned, or is what a full list could not take: the
\* error paths of the handlers and of the UDP listener free all they must.
NothingLeaks ==
    fault = "none" =>
      heap = (IF tlv = NULL THEN {} ELSE {Obj(tlv, "tlv")})
             \cup (IF todo = <<>> THEN {}
                   ELSE (IF raw.live THEN RawParts(slot) ELSE {}) \cup Owned(slot, made))
             \cup (UNION {Owned(s, kept[s]) : s \in DOMAIN kept})
             \cup lost

\* The handlers and the listeners free nothing twice, except for a packet that
\* was handed over freed; no copy takes bytes from outside of a payload, even
\* when the length makes its size wrap around, and what else is read there are
\* fields with a fixed place in a payload that is shorter than they are; a
\* list that was not made is used only if its allocation failed.
SafeMemory ==
    /\ fault = "freed" => todo # <<>> /\ ~raw.live
    /\ fault # "outside"
    /\ fault = "overread" => raw.len < FixedBytes(raw.type)
    /\ fault = "nolist" => \E s \in DOMAIN kept : kept[s].starved

\* The parsers of lists read only where the encoding has entries, padding or
\* the end, except for a payload that came in pieces, for an empty list of
\* pairs, whose loop tests its condition late, and, where char is signed, for
\* values of 124 bytes and more.
StaysInside ==
    fault = "astray" =>
      \/ ~Whole
      \/ raw.len = 0 /\ raw.type \in PairTypes
      \/ signed /\ \E i \in DOMAIN raw.entries : raw.entries[i].value >= 124

\* A list that was unpacked without a failed allocation has every entry of the
\* payload once, in order, whatever the padding.
ParsedIsEncoded ==
    \A s \in DOMAIN kept :
      LET k == kept[s]
      IN  k.from.type \in ListTypes /\ ~k.starved =>
            k.list = [n \in DOMAIN k.from.entries |-> n]

\* The payload has a pair whose length the code takes for another.
Misread ==
    /\ raw.type \in PairTypes
    /\ \E i \in DOMAIN raw.entries : ValueLength(raw.entries[i]) # raw.entries[i].value

\* Each turn of a parser takes it further into the payload, so that it comes to
\* the end of every payload, unless the code misreads a length in it.
ParserAdvances ==
    [][Parsing /\ Parsing' /\ <<made, pos>>' # <<made, pos>> => pos' > pos \/ Misread]_vars

\* Every handler returns, or ends in a fault, for every payload in which the
\* code does not misread a length.
HandlerReturns == (todo # <<>> /\ ~Misread) ~> (todo = <<>> \/ fault # "none")

-----------------------------------------------------------------------------
(* What the repository says, and the code does not do *)

\* network/lowlevel.h:127-129 connect configures the UDP socket for communication
\* with the server: what a listener hands over was sent by the other end, or by
\* another program, not by this end itself.
HeardFromOthers == raw # NULL => raw.by # "this"

\* network/netutils.c:50 in the header of a value the "Next 3 bytes are length
\* of full TLV": the pair ends where they say, and the next begins behind it.
PairLengthRead ==
    [][At("pairs") /\ pos' # pos =>
         \E i \in DOMAIN raw.entries : StartsAt(i, pos) /\ pos' = After(raw.entries[i]) + 1]_vars

\* network/lowlevel.h:138-140 the handler is passed a structure that contains
\* the received data: the arbitrary data in an unpacked packet was received.
DataIsReceived == \A s \in DOMAIN kept : "arbitrary" \notin kept[s].unset

=============================================================================
