---------------------------- MODULE MCTCPStream ----------------------------
(***************************************************************************)
(* TCPStream with a packet of data that can be split, a short one and one  *)
(* without data, sent by two threads.                                      *)
(***************************************************************************)
EXTENDS TCPStream, TLC

CONSTANTS long, short, empty

Sizes == (long :> 3) @@ (short :> 1) @@ (empty :> 0)

=============================================================================
