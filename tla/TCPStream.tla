------------------------------ MODULE TCPStream ------------------------------
(***************************************************************************)
(* One direction of a TCP connection of network/lowlevel.c: the threads    *)
(* that send packets (llnet_connection_send, llnet_connection_send_thread, *)
(* _llnet_pckt_send), the byte stream of the kernel, and the listener      *)
(* thread of the other end (_llnet_listener_tcp) that cuts the stream into *)
(* packets again and hands them to on_packet.                              *)
(*                                                                         *)
(* A byte is the packet it belongs to and its offset in it.  read returns  *)
(* any positive number of the bytes that are there, up to what was asked.  *)
(***************************************************************************)
EXTENDS Integers, Sequences

CONSTANTS
    Msg,        \* packets, each sent once
    Size,       \* Size[m] is the number of data bytes of m
    Sender,     \* threads that send on the connection
    NoMsg,      \* not a packet
    Word,       \* bytes of a header word: 4 in the code
    Whole       \* the fields that the network never splits or truncates

Field == {"header", "stamp", "data"}

ASSUME WordAssumption  == Word \in Nat \ {0}
ASSUME SizeAssumption  == Size \in [Msg -> Nat]
ASSUME WholeAssumption == Whole \subseteq Field
ASSUME NoMsgAssumption == NoMsg \notin Msg

VARIABLES
    state,      \* connection->state at the sending end
    unsent,     \* packets nobody has begun to send
    job,        \* the packet each sending thread is at work on
    spc,        \* where the sending thread is
    rc,         \* *rc for each packet: "none" before it is stored
    finished,   \* packets whose *finished is true
    wire,       \* bytes written and not yet read
    open,       \* the peer has not closed the connection
    lpc,        \* where the listener thread is
    cur,        \* the packet the listener is reading, NoMsg for garbage
    len,        \* tlv->length
    tread,      \* bytes of the data read so far
    data,       \* tlv->data: for each place, the offset of the byte in it
    pieces,     \* history: reads it took to get the data
    stamped,    \* tlv->timestamp is the packet's
    freed,      \* the listener has freed the packet
    status,     \* worker->tcp_status
    sent, delivered   \* history: packets written, packets handed to on_packet

sending   == <<state, unsent, job, spc, rc, finished>>
reading   == <<lpc, cur, len, tread, data, pieces, stamped, freed, status>>
vars      == <<sending, wire, open, reading, sent, delivered>>

Header     == 2 * Word                     \* LLNET_HEADER_LENGTH
Bytes(m)   == [n \in 1..(Header + Size[m]) |-> <<m, n>>]
Byte       == Msg \X Nat
SizeOf     == {Size[m] : m \in Msg}
Unset      == 0                            \* a place of tlv->data not written
Lower(a, b) == IF a < b THEN a ELSE b

FieldOf(b) == IF b[2] <= Word THEN "header" ELSE IF b[2] <= Header THEN "stamp" ELSE "data"

\* A thread at "fault" was lost, and the process with it: a handler used a
\* packet that was already freed.  That the senders go on only adds to the
\* behaviours.
TypeOK ==
    /\ state \in {"cs_NOTHING", "cs_WORKER"}
    /\ unsent \subseteq Msg
    /\ job \in [Sender -> Msg \cup {NoMsg}]
    /\ spc \in [Sender -> {"idle", "write", "wrote", "failed", "report"}]
    /\ rc \in [Msg -> {"none", "ok", "error"}]
    /\ finished \subseteq Msg
    /\ wire \in Seq(Byte)
    /\ open \in BOOLEAN
    /\ lpc \in {"start", "header", "stamp", "data", "handler", "exited", "fault"}
    /\ cur \in Msg \cup {NoMsg}
    /\ len \in Nat
    /\ tread \in 0..len
    /\ data \in Seq(Nat) /\ Len(data) = len
    /\ pieces \in Nat
    /\ stamped \in BOOLEAN
    /\ freed \in BOOLEAN
    /\ status \in {"NOT_STARTED", "OKAY", "DISCONNECTED"}
    /\ sent \in Seq(Msg)
    /\ delivered \in Seq(Msg \cup {NoMsg})

\* The stream is there once the sockets are connected; the sending end has
\* yet to become a worker.
Init ==
    /\ state = "cs_NOTHING"
    /\ unsent = Msg
    /\ job = [s \in Sender |-> NoMsg]
    /\ spc = [s \in Sender |-> "idle"]
    /\ rc = [m \in Msg |-> "none"]
    /\ finished = {}
    /\ wire = <<>>
    /\ open = TRUE
    /\ lpc = "start"
    /\ cur = NoMsg
    /\ len = 0
    /\ tread = 0
    /\ data = <<>>
    /\ pieces = 0
    /\ stamped = FALSE
    /\ freed = FALSE
    /\ status = "NOT_STARTED"
    /\ sent = <<>>
    /\ delivered = <<>>

-----------------------------------------------------------------------------
(* Sending: _llnet_pckt_send, in the caller's thread or in one of its own *)

\* worker->state = cs_WORKER
Connect ==
    /\ state = "cs_NOTHING"
    /\ state' = "cs_WORKER"
    /\ UNCHANGED <<unsent, job, spc, rc, finished, wire, open, reading, sent, delivered>>

\* The connection is not a worker: *rc is -1, and *finished is never set.
SendRefused(s, m) ==
    /\ spc[s] = "idle"
    /\ m \in unsent
    /\ state # "cs_WORKER"
    /\ unsent' = unsent \ {m}
    /\ rc' = [rc EXCEPT ![m] = "error"]
    /\ UNCHANGED <<state, job, spc, finished, wire, open, reading, sent, delivered>>

\* Mutant: the caller is told that the thread has finished as it starts.
SendBeginFinished(s, m) ==
    /\ spc[s] = "idle"
    /\ m \in unsent
    /\ state = "cs_WORKER"
    /\ unsent' = unsent \ {m}
    /\ job' = [job EXCEPT ![s] = m]
    /\ spc' = [spc EXCEPT ![s] = "write"]
    /\ finished' = finished \cup {m}
    /\ UNCHANGED <<state, rc, wire, open, reading, sent, delivered>>

\* The arguments are made and the thread started.
SendBegin(s, m) ==
    /\ spc[s] = "idle"
    /\ m \in unsent
    /\ state = "cs_WORKER"
    /\ unsent' = unsent \ {m}
    /\ job' = [job EXCEPT ![s] = m]
    /\ spc' = [spc EXCEPT ![s] = "write"]
    /\ UNCHANGED <<state, rc, finished, wire, open, reading, sent, delivered>>

\* Mutant: the header and the data are written by two calls.
SendWriteTwice(s) ==
    /\ spc[s] \in {"write", "wroteHeader"}
    /\ LET whole == Bytes(job[s])
           part  == IF spc[s] = "write" THEN SubSeq(whole, 1, Header)
                                        ELSE SubSeq(whole, Header + 1, Len(whole))
       IN  wire' = IF open THEN wire \o part ELSE wire
    /\ IF spc[s] = "write"
         THEN spc' = [spc EXCEPT ![s] = "wroteHeader"] /\ sent' = Append(sent, job[s])
         ELSE spc' = [spc EXCEPT ![s] = "wrote"] /\ UNCHANGED sent
    /\ UNCHANGED <<state, unsent, job, rc, finished, open, reading, delivered>>

\* The packet is copied into a buffer, and one write hands the whole buffer to
\* the socket.  The kernel may take it after the peer has closed; the bytes
\* are lost then.  Sockets block, and a write that takes less than it was
\* given is not modelled.
SendWrite(s) ==
    /\ spc[s] = "write"
    /\ spc' = [spc EXCEPT ![s] = "wrote"]
    /\ wire' = IF open THEN wire \o Bytes(job[s]) ELSE wire
    /\ sent' = Append(sent, job[s])
    /\ UNCHANGED <<state, unsent, job, rc, finished, open, reading, delivered>>

SendWriteFails(s) ==
    /\ spc[s] = "write"
    /\ ~open
    /\ spc' = [spc EXCEPT ![s] = "failed"]
    /\ UNCHANGED <<state, unsent, job, rc, finished, wire, open, reading, sent, delivered>>

\* *rc = (err < 0)? err : 0
SendStoreRc(s) ==
    /\ spc[s] \in {"wrote", "failed"}
    /\ rc' = [rc EXCEPT ![job[s]] = IF spc[s] = "wrote" THEN "ok" ELSE "error"]
    /\ spc' = [spc EXCEPT ![s] = "report"]
    /\ UNCHANGED <<state, unsent, job, finished, wire, open, reading, sent, delivered>>

\* *finished = true, the last use of what the caller owns
SendFinish(s) ==
    /\ spc[s] = "report"
    /\ finished' = finished \cup {job[s]}
    /\ job' = [job EXCEPT ![s] = NoMsg]
    /\ spc' = [spc EXCEPT ![s] = "idle"]
    /\ UNCHANGED <<state, unsent, rc, wire, open, reading, sent, delivered>>

\* The peer closes or resets the connection, and some of what was written is
\* lost from the end of the stream.
Close ==
    /\ open
    /\ open' = FALSE
    /\ \E n \in 0..Len(wire) :
         /\ n < Len(wire) =>
              \/ FieldOf(wire[n + 1]) \notin Whole
              \/ wire[n + 1][2] \in {1, Word + 1, Header + 1}
         /\ wire' = SubSeq(wire, 1, n)
    /\ UNCHANGED <<sending, reading, sent, delivered>>

-----------------------------------------------------------------------------
(* Receiving: _llnet_listener_tcp *)

AtEnd == wire = <<>> /\ ~open

\* How many bytes a read of n bytes of field f may return.
Takes(n, f) ==
    {k \in 1..Lower(n, Len(wire)) : f \in Whole => k = n}

Consume(k) == wire' = SubSeq(wire, k + 1, Len(wire))

Loop(l) == lpc' = l

ListenerStart ==
    /\ lpc = "start"
    /\ status' = "OKAY"
    /\ Loop("header")
    /\ UNCHANGED <<sending, wire, open, cur, len, tread, data, pieces, stamped, freed,
                   sent, delivered>>

\* Mutant: only an error ends the loop, the end of the stream does not.
ListenerEndIgnored ==
    /\ lpc = "header" /\ AtEnd
    /\ UNCHANGED vars

\* read returns 0 or an error: the packet is freed and the loop left.
ListenerEnd ==
    /\ lpc = "header" /\ AtEnd
    /\ status' = "DISCONNECTED"
    /\ Loop("exited")
    /\ UNCHANGED <<sending, wire, open, cur, len, tread, data, pieces, stamped, freed,
                   sent, delivered>>

\* A header word that is not read whole, or not from its first byte, decodes
\* to some type and length.  Bound: a length that some packet has.
Decoded(got) ==
    IF \E m \in Msg : got = SubSeq(Bytes(m), 1, Word)
      THEN {<<got[1][1], Size[got[1][1]]>>}
      ELSE {NoMsg} \X SizeOf

ReadHeader ==
    /\ lpc = "header"
    /\ \E k \in Takes(Word, "header") :
         /\ Consume(k)
         /\ \E d \in Decoded(SubSeq(wire, 1, k)) :
              /\ cur' = d[1]
              /\ len' = d[2]
              /\ data' = [n \in 1..d[2] |-> Unset]
    /\ Loop("stamp")
    /\ UNCHANGED <<sending, open, tread, pieces, stamped, freed, status, sent, delivered>>

\* Mutant: a packet without data is dropped.
ReadStampDrops ==
    /\ lpc = "stamp"
    /\ \E k \in Takes(Word, "stamp") :
         /\ Consume(k)
         /\ stamped' = (cur # NoMsg /\ SubSeq(wire, 1, k) = SubSeq(Bytes(cur), Word + 1, Header))
    /\ Loop(IF len = 0 THEN "header" ELSE "data")
    /\ UNCHANGED <<sending, open, cur, len, tread, data, pieces, freed, status, sent, delivered>>

\* The result of this read is not looked at.
ReadStamp ==
    /\ lpc = "stamp"
    /\ \/ \E k \in Takes(Word, "stamp") :
            /\ Consume(k)
            /\ stamped' = (cur # NoMsg /\ SubSeq(wire, 1, k) = SubSeq(Bytes(cur), Word + 1, Header))
       \/ AtEnd /\ UNCHANGED <<wire, stamped>>
    /\ Loop(IF len = 0 THEN "handler" ELSE "data")
    /\ UNCHANGED <<sending, open, cur, len, tread, data, pieces, freed, status, sent, delivered>>

\* What a place of tlv->data holds once byte b is in it.
Place(b) == IF b[1] = cur /\ b[2] > Header THEN b[2] - Header ELSE Unset

\* Mutant: each turn of the loop asks for the whole length again.
ReadDataAgain ==
    /\ lpc = "data"
    /\ \E k \in 1..Lower(len, Len(wire)) :
         /\ Consume(k)
         /\ data' = [n \in 1..len |-> IF n <= k THEN Place(wire[n]) ELSE data[n]]
         /\ tread' = tread + k
         /\ Loop(IF tread + k >= len THEN "handler" ELSE "data")
    /\ pieces' = pieces + 1
    /\ UNCHANGED <<sending, open, cur, len, stamped, freed, status, sent, delivered>>

\* Mutant: the data is put after room for a header.
ReadDataShifted ==
    /\ lpc = "data"
    /\ \E k \in Takes(len - tread, "data") :
         /\ Consume(k)
         /\ data' = [n \in 1..len |-> IF n > Word /\ n <= k + Word THEN Place(wire[n - Word]) ELSE data[n]]
         /\ tread' = tread + k
         /\ Loop(IF tread + k = len THEN "handler" ELSE "data")
    /\ pieces' = pieces + 1
    /\ UNCHANGED <<sending, open, cur, len, stamped, freed, status, sent, delivered>>

\* Every read puts its bytes at the start of tlv->data, not after the ones
\* that are there.
ReadData ==
    /\ lpc = "data"
    /\ \E k \in Takes(len - tread, "data") :
         /\ Consume(k)
         /\ data' = [n \in 1..len |-> IF n <= k THEN Place(wire[n]) ELSE data[n]]
         /\ tread' = tread + k
         /\ Loop(IF tread + k = len THEN "handler" ELSE "data")
    /\ pieces' = pieces + 1
    /\ UNCHANGED <<sending, open, cur, len, stamped, freed, status, sent, delivered>>

\* The stream ends inside the data: the packet and its data are freed, and
\* the break leaves only the inner loop.
ReadDataEnd ==
    /\ lpc = "data" /\ AtEnd
    /\ freed' = TRUE
    /\ Loop("handler")
    /\ UNCHANGED <<sending, wire, open, cur, len, tread, data, pieces, stamped, status,
                   sent, delivered>>

Intact ==
    /\ cur # NoMsg /\ stamped /\ ~freed
    /\ data = [n \in 1..Size[cur] |-> n]

\* on_packet(connection_id, tlv).  A handler reads the packet and frees it: one
\* that was freed before it is given may cost the process, or not.
Handle ==
    /\ lpc = "handler"
    /\ delivered' = Append(delivered, cur)
    /\ \/ Loop("header")
       \/ freed /\ Loop("fault")
    /\ cur' = NoMsg /\ len' = 0 /\ tread' = 0 /\ data' = <<>>
    /\ pieces' = 0 /\ stamped' = FALSE /\ freed' = FALSE
    /\ UNCHANGED <<sending, wire, open, status, sent>>

-----------------------------------------------------------------------------
(* The specification *)

SenderStep(s) == SendWrite(s) \/ SendWriteFails(s) \/ SendStoreRc(s) \/ SendFinish(s)

Listener ==
    \/ ListenerStart \/ ListenerEnd \/ ReadHeader \/ ReadStamp
    \/ ReadData \/ ReadDataEnd \/ Handle

Next ==
    \/ \E s \in Sender : SenderStep(s) \/ \E m \in Msg : SendBegin(s, m) \/ SendRefused(s, m)
    \/ Connect \/ Close
    \/ Listener

Spec == Init /\ [][Next]_vars

\* Threads that can run are run; handlers return; nobody is made to send or
\* to close.
FairSpec == Spec /\ WF_vars(Listener) /\ \A s \in Sender : WF_vars(SenderStep(s))

-----------------------------------------------------------------------------
(* Properties.  They are for networks that keep the two header words whole, *)
(* and may split the data or cut it short (Whole = {"header", "stamp"}).    *)

\* However the data of a packet is split, the listener comes back to the top
\* of its loop at the first byte of a packet: the reads of the payload loop
\* add up to the length, and packets of different threads do not mix.
InSync == lpc = "header" /\ wire # <<>> => wire[1][2] = 1

\* A packet that came in one piece on an open connection is handed over as it
\* was sent.
IntactUnlessSplit == lpc = "handler" /\ pieces <= 1 /\ open => Intact

\* A caller of llnet_connection_send_thread that sees *finished finds the
\* result in *rc, and the packet has been written or the write has failed.
FinishedMeansReported ==
    \A m \in finished :
        \/ rc[m] = "error"
        \/ rc[m] = "ok" /\ \E n \in DOMAIN sent : sent[n] = m

\* Packets come out once each and in the order they were written.
Channel == INSTANCE PacketChannel
DeliversInOrder == Channel!Spec

\* A packet whose sender was told 0 is handed to the handler, or the
\* connection closes.
EveryPacketArrives ==
    \A m \in Msg : rc[m] = "ok" ~> (~open \/ \E n \in DOMAIN delivered : delivered[n] = m)

\* When the peer closes, the listener ends with status ls_DISCONNECTED, unless
\* the stream ended inside the data of a packet and the process was lost to a
\* handler that was given the freed packet.
CloseIsNoticed == ~open ~> (status = "DISCONNECTED" \/ lpc = "fault")

-----------------------------------------------------------------------------
(* What the repository says, and the code does not do *)

\* network/lowlevel.h:138-140 the handler is passed a structure that contains
\* the received data: on an open connection, as it was sent.
DeliveredIntact == lpc = "handler" /\ open => Intact

\* network/lowlevel.h:138-140 again: the structure the handler is passed is one
\* that is still there.
DeliveredLive == lpc = "handler" => ~freed

=============================================================================
