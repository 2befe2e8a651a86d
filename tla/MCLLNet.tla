------------------------------ MODULE MCLLNet ------------------------------
(***************************************************************************)
(* LLNet with two application threads.                                     *)
(***************************************************************************)
EXTENDS LLNet, TLC

CONSTANTS main, user    \* the application threads

Calls(listen, connect, get, free) ==
    ("listen" :> listen) @@ ("connect" :> connect) @@ ("get" :> get) @@ ("free" :> free)

Role(m, u) == (main :> m) @@ (user :> u)

\* A server listens once and frees the accepter, a worker or both.
Server == Role(Calls(1, 0, 0, 2), Calls(0, 0, 0, 0))

\* A server that frees one of them while the other thread looks a connection
\* up.
Lookup == Role(Calls(1, 0, 0, 1), Calls(0, 0, 1, 0))

\* A client connects and frees twice: it retries a connect that failed, holds
\* two connections, or connects again in the block it freed; the other thread
\* looks a connection up.
Client == Role(Calls(0, 2, 0, 2), Calls(0, 0, 1, 0))

\* One thread listens while the other connects and looks a connection up.
Mixed  == Role(Calls(1, 0, 0, 0), Calls(0, 1, 1, 0))

AllRoles == {Server, Lookup, Client, Mixed}

=============================================================================
