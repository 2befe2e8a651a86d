------------------------------ MODULE MCQueue ------------------------------
(***************************************************************************)
(* Queue with two producers and two consumers.                             *)
(***************************************************************************)
EXTENDS Queue, TLC

=============================================================================
