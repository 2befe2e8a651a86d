---------------------------- MODULE MCHashTable ----------------------------
(***************************************************************************)
(* HashTable with three keys that collide in small tables and wrap around. *)
(***************************************************************************)
EXTENDS HashTable, TLC

CONSTANTS a, b, c

Hashes == (a :> 4) @@ (b :> 4) @@ (c :> 0)

=============================================================================
