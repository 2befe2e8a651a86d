------------------------------- MODULE LLNet -------------------------------
(***************************************************************************)
(* The life cycle of connections in network/lowlevel.c: how a connection   *)
(* structure is created, turned into a worker (connect, or the accepter    *)
(* thread) or an accepter (listen), given a connection id, put in the      *)
(* global list `connections', served by its two listener threads, looked   *)
(* up by id, and freed.                                                    *)
(*                                                                         *)
(* A process of the model is a thread of the program: the application      *)
(* threads App that call the API, one accepter thread per listening        *)
(* connection and two listener threads per worker.  A step is what one     *)
(* thread does between two accesses to memory that another thread uses.    *)
(***************************************************************************)
EXTENDS Integers, Sequences, FiniteSets

CONSTANTS
    Blocks,  \* bound: blocks of the heap that can hold a connection structure
    App,     \* threads of the application
    NULL,    \* the null pointer
    Roles,   \* bound: how many calls of the API each thread may make, one
             \* element for each kind of program to check
    MaxId    \* bound: connection ids handed out

Cell == 1..Blocks
Op == {"connect", "listen", "get", "free"}

ASSUME BlocksAssumption == Blocks \in Nat
ASSUME NullAssumption  == NULL \notin Cell \cup Seq(Cell)
ASSUME RolesAssumption == Roles \subseteq [App -> [Op -> Nat]]
ASSUME MaxIdAssumption == MaxId \in Nat \ {0}

VARIABLES
    calls,        \* the calls each application thread may still make
    top,          \* the blocks malloc has ever returned are 1..top
    cell,         \* the `state' field of the structure in each block
    connId,       \* its `connection_id' field, or NoId
    nextId,       \* next_connection_id
    connections,  \* the global list, NULL until it is created
    thread,       \* where each thread of a connection is
    cancelled,    \* threads with a pending pthread_cancel
    cur,          \* the worker an accepter thread is preparing
    held,         \* connections the application has a pointer to
    pc, arg, target, want, idx,   \* locals of a call of the API
    listed,       \* history: blocks added to this list in their current life
    replaced,     \* history: the global list has been overwritten by a new one
    due,          \* history: the worker in the list when a get of its id was called
    early         \* history: a worker was freed in spite of a thread still to be created

heap      == <<top, cell, connId, nextId, early>>
registry  == <<connections, listed, replaced>>
threads   == <<thread, cancelled, cur>>
locals    == <<pc, arg, target, want, idx, due>>
vars      == <<calls, heap, registry, threads, held, locals>>

Id   == 0..MaxId

\* In a block no id was assigned to since it was last allocated or freed: the
\* memory may hold anything, what malloc or a later owner has left there.
NoId == 0

Kind == {"tcp", "udp", "accepter"}

\* "unused" is a free block; "raw" a worker whose state is not yet assigned.
CellState == {"unused", "raw", "cs_NOTHING", "cs_ACCEPTER", "cs_WORKER"}

Loc == {"none", "running",                                    \* listeners
        "prepare", "accept", "callback", "register",          \* accepter
        "spawnTcp", "spawnUdp",
        "exited", "joined"}

\* A thread at "fault" has followed an invalid pointer.  The process is gone;
\* that the other threads of the model run on only adds to its behaviours.
Pc == {"idle", "fault", "connectList", "connectAdd", "connectId", "connectNet",
       "connectTcp", "connectUdp", "getSize", "getElem", "found", "notFound",
       "cancel", "join", "release"}

TypeOK ==
    /\ calls \in [App -> [Op -> Nat]]
    /\ top \in 0..Blocks
    /\ cell \in [Cell -> CellState]
    /\ connId \in [Cell -> Id]
    /\ nextId \in 1..(MaxId + 1)
    /\ connections \in Seq(Cell) \cup {NULL}
    /\ thread \in [Cell -> [Kind -> Loc]]
    /\ cancelled \subseteq Cell \X Kind
    /\ cur \in [Cell -> Cell \cup {NULL}]
    /\ held \subseteq Cell
    /\ pc \in [App -> Pc]
    /\ arg \in [App -> Cell \cup {NULL}]
    /\ target \in [App -> Kind]
    /\ want \in [App -> Id]
    /\ idx \in [App -> Nat]
    /\ due \in [App -> Cell \cup {NULL}]
    /\ listed \subseteq Cell
    /\ replaced \in BOOLEAN
    /\ early \in BOOLEAN

Init ==
    /\ calls \in Roles
    /\ top = 0
    /\ cell = [c \in Cell |-> "unused"]
    /\ connId = [c \in Cell |-> NoId]
    /\ nextId = 1
    /\ connections = NULL
    /\ thread = [c \in Cell |-> [k \in Kind |-> "none"]]
    /\ cancelled = {}
    /\ cur = [c \in Cell |-> NULL]
    /\ held = {}
    /\ pc = [t \in App |-> "idle"]
    /\ arg = [t \in App |-> NULL]
    /\ target = [t \in App |-> "tcp"]
    /\ want = [t \in App |-> 0]
    /\ idx = [t \in App |-> 0]
    /\ due = [t \in App |-> NULL]
    /\ listed = {}
    /\ replaced = FALSE
    /\ early = FALSE

-----------------------------------------------------------------------------
(* Helpers *)

Alive(l)     == l \notin {"none", "exited", "joined"}
GetPc        == {"getSize", "getElem", "found", "notFound"}

\* The caller's contract: two application threads do not connect, listen or
\* free the same connection at the same time.
Free(c)      == \A t \in App : arg[t] = c => pc[t] \in GetPc
MayCall(t, op) == pc[t] = "idle" /\ calls[t][op] > 0
Spend(t, op)   == calls' = [calls EXCEPT ![t][op] = @ - 1]

\* malloc returns a block that was freed, or extends the heap.
Malloc(c, state) ==
    /\ cell[c] = "unused" /\ c <= top + 1
    /\ top' = IF c = top + 1 THEN c ELSE top
    /\ cell' = [cell EXCEPT ![c] = state]

\* free: what the block holds from now on is not this connection's.
Release(c) ==
    /\ cell' = [cell EXCEPT ![c] = "unused"]
    /\ connId' = [connId EXCEPT ![c] = NoId]

\* Mutant: the increment is lost.
TakeIdLost(c) ==
    /\ nextId <= MaxId
    /\ connId' = [connId EXCEPT ![c] = nextId]
    /\ UNCHANGED <<nextId, early>>

\* The critical section of next_connection_id_mutex.
TakeId(c) ==
    /\ nextId <= MaxId
    /\ connId' = [connId EXCEPT ![c] = nextId]
    /\ nextId' = nextId + 1
    /\ UNCHANGED early

\* What a read of the connection_id of c can return.
Reads(c) == IF connId[c] = NoId THEN Id ELSE {connId[c]}

\* arraylist_add(connections, c)
Register(c) ==
    /\ connections' = Append(connections, c)
    /\ listed' = listed \cup {c}
    /\ UNCHANGED replaced

\* connections = arraylist_init(), whatever the global held
NewList ==
    /\ connections' = <<>>
    /\ listed' = {}
    /\ replaced' = (replaced \/ connections # NULL)

Goto(t, l) == pc' = [pc EXCEPT ![t] = l]

\* The call returns: its locals are gone.
Return(t) ==
    /\ pc' = [pc EXCEPT ![t] = "idle"]
    /\ arg' = [arg EXCEPT ![t] = NULL]
    /\ target' = [target EXCEPT ![t] = "tcp"]
    /\ want' = [want EXCEPT ![t] = 0]
    /\ idx' = [idx EXCEPT ![t] = 0]
    /\ due' = [due EXCEPT ![t] = NULL]

Spawn(c, k) == thread' = [thread EXCEPT ![c][k] = "running"]

-----------------------------------------------------------------------------
(* llnet_connection_init and llnet_connection_connect *)

\* A block with no pthread_create behind any of its pthread_t fields.
NoThreads == [k \in Kind |-> "none"]

ConnectionInit(t, c) ==
    /\ MayCall(t, "connect") \/ MayCall(t, "listen")
    /\ \A d \in held : cell[d] # "cs_NOTHING"     \* bound: one at a time
    /\ nextId <= MaxId
    /\ Malloc(c, "cs_NOTHING")
    /\ thread' = [thread EXCEPT ![c] = NoThreads]
    /\ held' = held \cup {c}
    /\ UNCHANGED <<calls, connId, nextId, early, registry, cancelled, cur, locals>>

\* The state check, and the check of the global list that comes before the
\* list is made.  The realloc is taken to stay in place.
ConnectCheck(t, c) ==
    /\ MayCall(t, "connect") /\ Spend(t, "connect")
    /\ c \in held /\ Free(c) /\ cell[c] = "cs_NOTHING"
    /\ nextId <= MaxId
    /\ pc' = [pc EXCEPT ![t] = IF connections = NULL THEN "connectList" ELSE "connectAdd"]
    /\ arg' = [arg EXCEPT ![t] = c]
    /\ UNCHANGED <<heap, registry, threads, held, target, want, idx, due>>

ConnectList(t) ==
    /\ pc[t] = "connectList"
    /\ NewList
    /\ Goto(t, "connectAdd")
    /\ UNCHANGED <<calls, heap, threads, held, arg, target, want, idx, due>>

\* The worker is in the list before it has an id.
ConnectAdd(t) ==
    /\ pc[t] = "connectAdd"
    /\ Register(arg[t])
    /\ Goto(t, "connectId")
    /\ UNCHANGED <<calls, heap, threads, held, arg, target, want, idx, due>>

ConnectId(t) ==
    /\ pc[t] = "connectId"
    /\ TakeId(arg[t])
    /\ Goto(t, "connectNet")
    /\ UNCHANGED <<calls, top, cell, registry, threads, held, arg, target, want, idx, due>>

ConnectOk(t) ==
    /\ pc[t] = "connectNet"
    /\ cell' = [cell EXCEPT ![arg[t]] = "cs_WORKER"]
    /\ Goto(t, "connectTcp")
    /\ UNCHANGED <<calls, top, connId, nextId, early, registry, threads, held, arg, target, want, idx, due>>

\* Mutant: a failed connect withdraws its id by setting it to -1.
ConnectFailWithdraws(t) ==
    /\ pc[t] = "connectNet"
    /\ connId' = [connId EXCEPT ![arg[t]] = -1]
    /\ Return(t)
    /\ UNCHANGED <<calls, top, cell, nextId, early, registry, threads, held>>

\* gethostbyname, connect or bind failed: the state stays cs_NOTHING and the
\* connection stays in the list, with its id.
ConnectFail(t) ==
    /\ pc[t] = "connectNet"
    /\ Return(t)
    /\ UNCHANGED <<calls, heap, registry, threads, held>>

ConnectSpawnTcp(t) ==
    /\ pc[t] = "connectTcp"
    /\ Spawn(arg[t], "tcp")
    /\ Goto(t, "connectUdp")
    /\ UNCHANGED <<calls, heap, registry, cancelled, cur, held, arg, target, want, idx, due>>

ConnectSpawnUdp(t) ==
    /\ pc[t] = "connectUdp"
    /\ Spawn(arg[t], "udp")
    /\ Return(t)
    /\ UNCHANGED <<calls, heap, registry, cancelled, cur, held>>

-----------------------------------------------------------------------------
(* llnet_connection_listen and the accepter thread *)

\* A bind that fails ends the process.
Listen(t, c) ==
    /\ MayCall(t, "listen") /\ Spend(t, "listen")
    /\ c \in held /\ Free(c) /\ cell[c] = "cs_NOTHING"
    /\ cell' = [cell EXCEPT ![c] = "cs_ACCEPTER"]
    /\ NewList
    /\ thread' = [thread EXCEPT ![c]["accepter"] = "prepare"]
    /\ UNCHANGED <<top, connId, nextId, early, cancelled, cur, held, locals>>

AccepterAt(a, l)    == thread[a]["accepter"] = l
AccepterGoto(a, l)  == thread' = [thread EXCEPT ![a]["accepter"] = l]

\* A new worker, with an id, before there is a client to serve.
AccepterPrepare(a, w) ==
    /\ AccepterAt(a, "prepare")
    /\ Malloc(w, "raw")
    /\ TakeId(w)
    /\ thread' = [thread EXCEPT ![w] = NoThreads, ![a]["accepter"] = "accept"]
    /\ cur' = [cur EXCEPT ![a] = w]
    /\ UNCHANGED <<calls, registry, cancelled, held, locals>>

\* Bound: no client comes when no id is left for the worker after it.
MayArrive == nextId <= MaxId

\* accept and bind succeed, and on_connect is entered with the worker.
AccepterAccept(a) ==
    /\ AccepterAt(a, "accept")
    /\ <<a, "accepter">> \notin cancelled
    /\ MayArrive
    /\ cell' = [cell EXCEPT ![cur[a]] = "cs_WORKER"]
    /\ held' = held \cup {cur[a]}
    /\ AccepterGoto(a, "callback")
    /\ UNCHANGED <<calls, top, connId, nextId, early, registry, cancelled, cur, locals>>

\* accept or bind fails: the worker is freed, its id is spent.
AccepterFail(a) ==
    /\ AccepterAt(a, "accept")
    /\ <<a, "accepter">> \notin cancelled
    /\ MayArrive
    /\ Release(cur[a])
    /\ cur' = [cur EXCEPT ![a] = NULL]
    /\ AccepterGoto(a, "prepare")
    /\ UNCHANGED <<calls, top, nextId, early, registry, cancelled, held, locals>>

\* Mutant: the TCP listener is created before the worker is registered.
AccepterCallbackSpawns(a) ==
    /\ AccepterAt(a, "callback")
    /\ thread' = [thread EXCEPT ![cur[a]]["tcp"] = "running", ![a]["accepter"] = "register"]
    /\ UNCHANGED <<calls, heap, registry, cancelled, cur, held, locals>>

\* on_connect returns.
AccepterCallback(a) ==
    /\ AccepterAt(a, "callback")
    /\ AccepterGoto(a, "register")
    /\ UNCHANGED <<calls, heap, registry, cancelled, cur, held, locals>>

AccepterRegister(a) ==
    /\ AccepterAt(a, "register")
    /\ Register(cur[a])
    /\ AccepterGoto(a, "spawnTcp")
    /\ UNCHANGED <<calls, heap, cancelled, cur, held, locals>>

AccepterSpawnTcp(a) ==
    /\ AccepterAt(a, "spawnTcp")
    /\ thread' = [thread EXCEPT ![cur[a]]["tcp"] = "running", ![a]["accepter"] = "spawnUdp"]
    /\ UNCHANGED <<calls, heap, registry, cancelled, cur, held, locals>>

AccepterSpawnUdp(a) ==
    /\ AccepterAt(a, "spawnUdp")
    /\ thread' = [thread EXCEPT ![cur[a]]["udp"] = "running", ![a]["accepter"] = "prepare"]
    /\ cur' = [cur EXCEPT ![a] = NULL]
    /\ UNCHANGED <<calls, heap, registry, cancelled, held, locals>>

\* Mutant: asynchronous cancellation while the listeners are created.
AccepterCancelAsync == {"accept", "callback", "spawnTcp", "spawnUdp"}

\* Deferred cancellation: the thread ends at a cancellation point, which is
\* accept or one that the application's on_connect contains.
AccepterCancelPoint == {"accept", "callback"}

AccepterCancelled(a) ==
    /\ thread[a]["accepter"] \in AccepterCancelPoint
    /\ <<a, "accepter">> \in cancelled
    /\ AccepterGoto(a, "exited")
    /\ cur' = [cur EXCEPT ![a] = NULL]
    /\ UNCHANGED <<calls, heap, registry, cancelled, held, locals>>

-----------------------------------------------------------------------------
(* The listener threads: in read or recvfrom, or in the packet handler; what *)
(* they read is the subject of TCPStream                                     *)

\* End of file, or an error of read or recvfrom.
Disconnect(c, k) ==
    /\ thread[c][k] = "running"
    /\ <<c, k>> \notin cancelled
    /\ thread' = [thread EXCEPT ![c][k] = "exited"]
    /\ UNCHANGED <<calls, heap, registry, cancelled, cur, held, locals>>

\* read and recvfrom are cancellation points, and a handler may contain one.
ListenerCancelled(c, k) ==
    /\ thread[c][k] = "running"
    /\ <<c, k>> \in cancelled
    /\ thread' = [thread EXCEPT ![c][k] = "exited"]
    /\ UNCHANGED <<calls, heap, registry, cancelled, cur, held, locals>>

-----------------------------------------------------------------------------
(* llnet_connection_get: the size and each element are read in turn *)

\* The workers with id i that are in the list.
Findable(i) == {c \in listed : cell[c] = "cs_WORKER" /\ connId[c] = i}

GetBegin(t, i) ==
    /\ MayCall(t, "get") /\ Spend(t, "get")
    /\ pc' = [pc EXCEPT ![t] = IF connections = NULL THEN "notFound" ELSE "getSize"]
    /\ want' = [want EXCEPT ![t] = i]
    /\ due' = [due EXCEPT ![t] = IF Findable(i) = {} THEN NULL ELSE CHOOSE c \in Findable(i) : TRUE]
    /\ UNCHANGED <<heap, registry, threads, held, arg, target, idx>>

\* Mutant: the last entry is not looked at.
GetSizeShort(t) ==
    /\ pc[t] = "getSize"
    /\ Goto(t, IF idx[t] + 1 < Len(connections) THEN "getElem" ELSE "notFound")
    /\ UNCHANGED <<calls, heap, registry, threads, held, arg, target, want, idx, due>>

\* The loop test, i < arraylist_size(connections); idx is the C index.
GetSize(t) ==
    /\ pc[t] = "getSize"
    /\ Goto(t, IF idx[t] < Len(connections) THEN "getElem" ELSE "notFound")
    /\ UNCHANGED <<calls, heap, registry, threads, held, arg, target, want, idx, due>>

\* The body: an entry is read and its connection_id compared, whether or not
\* the block it points to is still a connection, or has an id yet.
GetElem(t) ==
    /\ pc[t] = "getElem"
    /\ idx[t] < Len(connections)
    /\ LET w == connections[idx[t] + 1] IN \E id \in Reads(w) :
         IF id = want[t]
           THEN /\ Goto(t, "found")
                /\ arg' = [arg EXCEPT ![t] = w]
                /\ UNCHANGED idx
           ELSE /\ Goto(t, "getSize")
                /\ idx' = [idx EXCEPT ![t] = @ + 1]
                /\ UNCHANGED arg
    /\ UNCHANGED <<calls, heap, registry, threads, held, target, want, due>>

\* The list was replaced by a shorter one after its size was read:
\* arraylist_get returns NULL, which is dereferenced.
GetElemGone(t) ==
    /\ pc[t] = "getElem"
    /\ idx[t] >= Len(connections)
    /\ Goto(t, "fault")
    /\ UNCHANGED <<calls, heap, registry, threads, held, arg, target, want, idx, due>>

GetReturn(t) ==
    /\ pc[t] \in {"found", "notFound"}
    /\ Return(t)
    /\ UNCHANGED <<calls, heap, registry, threads, held>>

-----------------------------------------------------------------------------
(* llnet_connection_free *)

FreeBegin(t, c) ==
    /\ MayCall(t, "free") /\ Spend(t, "free")
    /\ c \in held /\ Free(c)
    /\ Goto(t, IF cell[c] = "cs_NOTHING" THEN "release" ELSE "cancel")
    /\ arg' = [arg EXCEPT ![t] = c]
    /\ target' = [target EXCEPT ![t] = IF cell[c] = "cs_ACCEPTER" THEN "accepter" ELSE "tcp"]
    /\ UNCHANGED <<heap, registry, threads, held, want, idx, due>>

\* Mutant: the thread is joined without being cancelled.
FreeCancelNot(t) ==
    /\ pc[t] = "cancel"
    /\ thread[arg[t]][target[t]] # "none"
    /\ Goto(t, "join")
    /\ UNCHANGED <<calls, heap, registry, threads, held, arg, target, want, idx, due>>

FreeCancel(t) ==
    /\ pc[t] = "cancel"
    /\ thread[arg[t]][target[t]] # "none"
    /\ cancelled' = cancelled \cup {<<arg[t], target[t]>>}
    /\ Goto(t, "join")
    /\ UNCHANGED <<calls, heap, registry, thread, cur, held, arg, target, want, idx, due>>

\* A worker's UDP listener comes after its TCP listener.
NextTarget(t) ==
    /\ Goto(t, IF target[t] = "tcp" THEN "cancel" ELSE "release")
    /\ target' = [target EXCEPT ![t] = IF @ = "tcp" THEN "udp" ELSE @]

\* The pthread_t was never assigned: the accepter has shown the worker to the
\* application but has not reached its pthread_create.  pthread_cancel and
\* pthread_join follow a wild pointer, or find that it is no thread of theirs
\* and fail with ESRCH, which nobody looks at, and free goes on.
FreeCancelUnset(t) ==
    /\ pc[t] = "cancel"
    /\ thread[arg[t]][target[t]] = "none"
    /\ \/ Goto(t, "fault") /\ UNCHANGED <<target, early>>
       \/ NextTarget(t) /\ early' = TRUE
    /\ UNCHANGED <<calls, top, cell, connId, nextId, registry, threads, held, arg, want, idx, due>>

\* Mutant: the thread is detached, not joined.
FreeJoinDetached(t) ==
    /\ pc[t] = "join"
    /\ NextTarget(t)
    /\ UNCHANGED <<calls, heap, registry, threads, held, arg, want, idx, due>>

\* pthread_join waits for the thread to end.
FreeJoin(t) ==
    /\ pc[t] = "join"
    /\ thread[arg[t]][target[t]] = "exited"
    /\ thread' = [thread EXCEPT ![arg[t]][target[t]] = "joined"]
    /\ cancelled' = cancelled \ {<<arg[t], target[t]>>}
    /\ NextTarget(t)
    /\ UNCHANGED <<calls, heap, registry, cur, held, arg, want, idx, due>>

\* Close the sockets and free the block.  The list keeps its entry.
FreeRelease(t) ==
    /\ pc[t] = "release"
    /\ Release(arg[t])
    /\ held' = held \ {arg[t]}
    /\ listed' = listed \ {arg[t]}
    /\ Return(t)
    /\ UNCHANGED <<calls, top, nextId, early, connections, replaced, threads>>

-----------------------------------------------------------------------------
(* The specification *)

\* A thread of the application inside a call of the API.
AppStep(t) ==
    \/ ConnectList(t) \/ ConnectAdd(t) \/ ConnectId(t)
    \/ ConnectOk(t) \/ ConnectFail(t)
    \/ ConnectSpawnTcp(t) \/ ConnectSpawnUdp(t)
    \/ GetSize(t) \/ GetElem(t) \/ GetElemGone(t) \/ GetReturn(t)
    \/ FreeCancel(t) \/ FreeCancelUnset(t) \/ FreeJoin(t) \/ FreeRelease(t)

AppCall(t) ==
    \/ \E c \in Cell : ConnectionInit(t, c) \/ ConnectCheck(t, c)
                     \/ Listen(t, c) \/ FreeBegin(t, c)
    \/ \E i \in 1..MaxId : GetBegin(t, i)

\* What an accepter thread does by itself, and what a client makes it do.
AccepterStep(a) ==
    \/ \E w \in Cell : AccepterPrepare(a, w)
    \/ AccepterCallback(a) \/ AccepterRegister(a)
    \/ AccepterSpawnTcp(a) \/ AccepterSpawnUdp(a) \/ AccepterCancelled(a)

AccepterEvent(a) == AccepterAccept(a) \/ AccepterFail(a)

Next ==
    \/ \E t \in App : AppStep(t) \/ AppCall(t)
    \/ \E a \in Cell : AccepterStep(a) \/ AccepterEvent(a)
    \/ \E c \in Cell, k \in {"tcp", "udp"} : ListenerCancelled(c, k) \/ Disconnect(c, k)


Spec == Init /\ [][Next]_vars

\* The scheduler runs every thread that can run, the handlers of the
\* application return, and calls of the API go on once made.  Nothing makes
\* the application call, a client connect or a packet arrive.
Fairness ==
    /\ \A t \in App : WF_vars(AppStep(t))
    /\ \A a \in Cell : WF_vars(AccepterStep(a))
    /\ \A c \in Cell : \A k \in {"tcp", "udp"} : WF_vars(ListenerCancelled(c, k))

FairSpec == Spec /\ Fairness

-----------------------------------------------------------------------------
(* Properties.  Once a worker is freed before its listeners are created, the *)
(* accepter writes into a block that is not its own and starts listeners on  *)
(* it: the safety properties speak of the time before that (history `early') *)
(* and FreeLeavesNoThread, which does not hold, says what is lost by it.     *)

\* No two workers have the same connection id, whichever threads created them
\* and however their calls interleaved (next_connection_id and its mutex).
UniqueIds ==
    early \/ \A c, d \in Cell :
        cell[c] = "cs_WORKER" /\ cell[d] = "cs_WORKER" /\ connId[c] = connId[d] => c = d

\* No listener or accepter thread runs on a block that is free.
FreedIsLeft ==
    \A c \in Cell : cell[c] = "unused" => \A k \in Kind : ~Alive(thread[c][k])

\* When llnet_connection_free has given a block back, no listener or accepter
\* thread of the connection is left to use it, if the threads it was to end
\* had been created.
NoListenerAfterFree == early \/ FreedIsLeft

\* A packet handler can look up the id it is given: from before its listeners
\* exist a worker has an id, is in the list, and no other entry that holds an
\* id, a retried one say, has the same.  This fails once the list is
\* overwritten (listen after connect, two first connects).  It does not say
\* that the handler gets its connection: an entry whose block is freed, or has
\* no id yet, may be taken for it (GetReturnsLive).
HandlerCanFind ==
    early \/ \A c \in Cell, k \in {"tcp", "udp"} :
        thread[c][k] = "running" /\ ~replaced =>
            /\ connId[c] # NoId
            /\ \E n \in DOMAIN connections : connections[n] = c
            /\ \A n \in DOMAIN connections :
                  connId[connections[n]] = connId[c] => connections[n] = c

\* A thread is between putting c in the list and creating c's listeners, or
\* is freeing c.
InTransit(c) ==
    \/ \E a \in Cell : cur[a] = c
    \/ \E t \in App : arg[t] = c /\ pc[t] \notin GetPc

\* A worker that get can find is served by both its listeners, even if the
\* accepter is cancelled by llnet_connection_free while it sets the worker
\* up: the accepter has no cancellation point from arraylist_add to the
\* second pthread_create.
RegisteredAreServed ==
    early \/ \A c \in listed :
        cell[c] = "cs_WORKER" /\ ~InTransit(c) =>
            thread[c]["tcp"] # "none" /\ thread[c]["udp"] # "none"

\* The worker that had the id when get was called is still in the list.
StillDue(t) == due[t] \in Findable(want[t])

\* A get for the id of a worker that is in the list when it is called, and
\* still is when it gives up, does not give up: in spite of connections added
\* while the list is scanned and of entries left behind by freed ones.  What
\* it returns may still be another entry (GetReturnsLive).
GetFindsRegistered ==
    [][\A t \in App :
         pc[t] = "getSize" /\ pc'[t] = "notFound" => early \/ ~StillDue(t)]_vars

\* A call of free that waits for a thread of the connection comes to its end,
\* because a cancelled thread reaches a cancellation point.
FreeReturns == \A t \in App : pc[t] = "join" ~> pc[t] \in {"idle", "fault"}

-----------------------------------------------------------------------------
(* What the repository says, and the code does not do *)

\* network/lowlevel.h:122 get returns the matching connection, or NULL if one
\* does not exist: what it returns is a connection that exists.
GetReturnsLive ==
    [][\A t \in App : pc[t] = "getElem" /\ pc'[t] = "found" => cell[arg'[t]] # "unused"]_vars

\* network/lowlevel.c:607 free ends the TCP listener, "cancel it and free
\* resources by calling join", and likewise the UDP listener and the accepter:
\* none runs on a block that was freed.
FreeLeavesNoThread == FreedIsLeft

=============================================================================
