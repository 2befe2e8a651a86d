-------------------------- MODULE MCPacketReceiver --------------------------
(* The datagrams the runs of PacketReceiver read: payloads below, at and
   above the size of the fixed fields, lists of entries with their padding. *)
EXTENDS PacketReceiver

Plain(type, lens) == {[type |-> type, len |-> n, entries |-> <<>>] : n \in lens}

\* The entries es, one behind the other.
Laid(type, es) ==
    LET at[i \in DOMAIN es] ==
          IF i = 1 THEN 0 ELSE at[i - 1] + es[i - 1].head + es[i - 1].value + Gap(type)
    IN  [i \in DOMAIN es |-> [at |-> at[i], head |-> es[i].head, value |-> es[i].value,
                              string |-> es[i].string]]

\* Up to three bytes of padding, to a multiple of four.
Listed(type, lists, pads) ==
    {[type |-> type, len |-> EndOf(Laid(type, es)) + pad, entries |-> Laid(type, es)] :
        es \in lists, pad \in pads}

\* A flag, a string and a string so long that its length has a byte over 127.
Flag   == [head |-> 6, value |-> 1, string |-> FALSE]
String == [head |-> 7, value |-> 3, string |-> TRUE]
Long   == [head |-> 6, value |-> 124, string |-> TRUE]
Key    == [head |-> 0, value |-> 2, string |-> TRUE]

\* Payloads shorter than the fixed fields, as long as them, and longer.
MCPacket ==
    Plain("INIT", {3, 4}) \cup Plain("STATE_REQUEST", {0})
    \cup Plain("STATE_RESPONSE", {3, 4, 6}) \cup Plain("STATE_UPDATE", {3, 6})
    \cup Listed("CONFIG_REQUEST", {<<>>, <<Key, Key>>}, {0, 3})
    \cup Listed("CONFIG_RESPONSE", {<<>>, <<Flag>>, <<Flag, Long>>}, {0, 1})
    \cup Listed("CONFIG_UPDATE", {<<String, Flag>>}, 0..3)

MCUDPPacket ==
    Plain("USER_DATA", {8}) \cup Plain("DEBUG", {11, 14})

MCSizeMax == 2 ^ 28

=============================================================================
