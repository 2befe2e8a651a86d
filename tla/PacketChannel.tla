--------------------------- MODULE PacketChannel ---------------------------
(***************************************************************************)
(* What network/lowlevel.h promises of the TCP side of a connection: the   *)
(* packet handler is called once for every packet sent, in the order in    *)
(* which they were sent, until the connection is closed.                   *)
(***************************************************************************)
EXTENDS Sequences, Naturals

CONSTANT Msg
VARIABLES sent, delivered

Init == sent = <<>> /\ delivered = <<>>

Send(m) ==
    /\ sent' = Append(sent, m)
    /\ UNCHANGED delivered

Deliver ==
    /\ Len(delivered) < Len(sent)
    /\ delivered' = Append(delivered, sent[Len(delivered) + 1])
    /\ UNCHANGED sent

Next == Deliver \/ \E m \in Msg : Send(m)

Spec == Init /\ [][Next]_<<sent, delivered>>

=============================================================================
