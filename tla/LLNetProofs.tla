---------------------------- MODULE LLNetProofs ----------------------------
(***************************************************************************)
(* LLNet for any number of threads, blocks, calls and ids.                 *)
(***************************************************************************)
EXTENDS LLNet, SequenceTheorems, TLAPS

USE BlocksAssumption, NullAssumption, RolesAssumption, MaxIdAssumption

-----------------------------------------------------------------------------
(* Types *)

AtConnect == {"connectList", "connectAdd", "connectId", "connectNet", "connectTcp", "connectUdp"}
AtFree    == {"cancel", "join", "release"}

\* Thread t works on the connection arg[t].
Busy(t) == pc[t] \in AtConnect \cup AtFree

\* Accepter a has a worker in cur[a].
Preparing(a) == thread[a]["accepter"] \in {"accept", "callback", "register", "spawnTcp", "spawnUdp"}

\* Who uses a local variable has set it.
LocalsSet ==
    /\ \A t \in App : Busy(t) => arg[t] \in Cell
    /\ \A a \in Cell : Preparing(a) => cur[a] \in Cell

\* The list exists before a thread of a connection runs, and before connect
\* adds to it or get reads it.
ListExists ==
    /\ \A t \in App :
         pc[t] \in (AtConnect \ {"connectList"}) \cup {"getSize", "getElem"} => connections # NULL
    /\ \A c \in Cell, k \in Kind : Alive(thread[c][k]) => connections # NULL

TypeInv == TypeOK /\ LocalsSet /\ ListExists

\* What the assumptions say of NULL, blocks and lists.
LEMMA CellFacts ==
    Cell \subseteq Nat /\ NULL \notin Cell /\ NULL \notin Seq(Cell) /\ <<>> \in Seq(Cell) /\ <<>> # NULL
<1>1. Cell \subseteq Nat
  BY DEF Cell
<1>2. NULL \notin Cell /\ NULL \notin Seq(Cell)
  OBVIOUS
<1>3. <<>> \in Seq(Cell)
  BY EmptySeq
<1> QED BY <1>1, <1>2, <1>3

\* A call is taken from those that are left.
LEMMA SpendType ==
    ASSUME calls \in [App -> [Op -> Nat]], NEW t \in App, NEW op \in Op, MayCall(t, op), Spend(t, op)
    PROVE  calls' \in [App -> [Op -> Nat]]
<1>1. calls[t] \in [Op -> Nat] /\ calls[t][op] - 1 \in Nat
  BY DEF MayCall
<1>2. [calls[t] EXCEPT ![op] = @ - 1] \in [Op -> Nat]
  BY <1>1
<1> QED BY <1>2 DEF Spend

\* A block that is freed holds no id.
LEMMA ReleaseType ==
    ASSUME TypeOK, NEW c \in Cell, Release(c)
    PROVE  cell' \in [Cell -> CellState] /\ connId' \in [Cell -> Id]
BY DEF Release, TypeOK, CellState, Id, NoId

\* An id is taken within the bound, and is not 0.
LEMMA TakeIdType ==
    ASSUME connId \in [Cell -> Id], nextId \in 1..(MaxId + 1), NEW c \in Cell, TakeId(c)
    PROVE  connId' \in [Cell -> Id] /\ nextId' \in 1..(MaxId + 1) /\ nextId \in Id \ {0}
           /\ UNCHANGED early
BY DEF TakeId, Id

\* arraylist_add leaves a list of blocks.
LEMMA RegisterType ==
    ASSUME connections \in Seq(Cell), listed \subseteq Cell, NEW c \in Cell, Register(c)
    PROVE  connections' \in Seq(Cell) /\ connections' # NULL /\ listed' \subseteq Cell
<1>1. Append(connections, c) \in Seq(Cell)
  BY AppendProperties
<1> QED BY <1>1, CellFacts DEF Register

\* A thread is created, or moves.
LEMMA SpawnType ==
    ASSUME thread \in [Cell -> [Kind -> Loc]], NEW c, NEW k, NEW l \in Loc
    PROVE  [thread EXCEPT ![c][k] = l] \in [Cell -> [Kind -> Loc]]
OBVIOUS

\* A call returns.
LEMMA ReturnType ==
    ASSUME TypeOK, NEW t \in App, Return(t)
    PROVE  /\ pc' \in [App -> Pc] /\ arg' \in [App -> Cell \cup {NULL}]
           /\ target' \in [App -> Kind] /\ want' \in [App -> Id]
           /\ idx' \in [App -> Nat] /\ due' \in [App -> Cell \cup {NULL}]
BY DEF Return, TypeOK, Pc, Kind, Id

\* The threads after the accepter has created a TCP listener.
LEMMA SpawnTcpThreads ==
    ASSUME TypeInv, NEW a \in Cell, AccepterSpawnTcp(a)
    PROVE  /\ thread' \in [Cell -> [Kind -> Loc]]
           /\ \A c \in Cell, i \in Kind :
                thread'[c][i] = IF c = a /\ i = "accepter" THEN "spawnUdp"
                                ELSE IF c = cur[a] /\ i = "tcp" THEN "running" ELSE thread[c][i]
<1> DEFINE f == [thread EXCEPT ![cur[a]]["tcp"] = "running"]
<1>1. /\ cur[a] \in Cell /\ thread \in [Cell -> [Kind -> Loc]]
      /\ "accepter" \in Kind /\ "tcp" \in Kind /\ "running" \in Loc /\ "spawnUdp" \in Loc
  BY DEF AccepterSpawnTcp, AccepterAt, TypeInv, LocalsSet, Preparing, TypeOK, Kind, Loc
<1>2. f \in [Cell -> [Kind -> Loc]] /\ \A c \in Cell, i \in Kind :
                f[c][i] = IF c = cur[a] /\ i = "tcp" THEN "running" ELSE thread[c][i]
  BY <1>1
<1>3. thread' = [f EXCEPT ![a]["accepter"] = "spawnUdp"]
  BY DEF AccepterSpawnTcp
<1> HIDE DEF f
<1> QED BY <1>1, <1>2, <1>3

\* The threads after the accepter has created a UDP listener.
LEMMA SpawnUdpThreads ==
    ASSUME TypeInv, NEW a \in Cell, AccepterSpawnUdp(a)
    PROVE  /\ thread' \in [Cell -> [Kind -> Loc]]
           /\ \A c \in Cell, i \in Kind :
                thread'[c][i] = IF c = a /\ i = "accepter" THEN "prepare"
                                ELSE IF c = cur[a] /\ i = "udp" THEN "running" ELSE thread[c][i]
<1> DEFINE f == [thread EXCEPT ![cur[a]]["udp"] = "running"]
<1>1. /\ cur[a] \in Cell /\ thread \in [Cell -> [Kind -> Loc]]
      /\ "accepter" \in Kind /\ "udp" \in Kind /\ "running" \in Loc /\ "prepare" \in Loc
  BY DEF AccepterSpawnUdp, AccepterAt, TypeInv, LocalsSet, Preparing, TypeOK, Kind, Loc
<1>2. f \in [Cell -> [Kind -> Loc]] /\ \A c \in Cell, i \in Kind :
                f[c][i] = IF c = cur[a] /\ i = "udp" THEN "running" ELSE thread[c][i]
  BY <1>1
<1>3. thread' = [f EXCEPT ![a]["accepter"] = "prepare"]
  BY DEF AccepterSpawnUdp
<1> HIDE DEF f
<1> QED BY <1>1, <1>2, <1>3

\* The initial state is well typed.
LEMMA InitTypeInv == Init => TypeInv
<1> SUFFICES ASSUME Init PROVE TypeInv
  OBVIOUS
<1>1. TypeOK
  <2>1. calls \in [App -> [Op -> Nat]] /\ connections \in Seq(Cell) \cup {NULL}
    BY DEF Init
  <2>2. top \in 0..Blocks /\ nextId \in 1..(MaxId + 1) /\ 0 \in Id /\ NoId \in Id
    BY DEF Init, Id, NoId
  <2>3. cell \in [Cell -> CellState] /\ thread \in [Cell -> [Kind -> Loc]]
    BY DEF Init, CellState, Loc
  <2>4. pc \in [App -> Pc] /\ target \in [App -> Kind]
    BY DEF Init, Pc, Kind
  <2>5. connId \in [Cell -> Id] /\ want \in [App -> Id] /\ idx \in [App -> Nat]
    BY <2>2 DEF Init
  <2> QED BY <2>1, <2>2, <2>3, <2>4, <2>5 DEF Init, TypeOK
<1>2. LocalsSet /\ ListExists
  BY DEF Init, LocalsSet, ListExists, Busy, AtConnect, AtFree, Preparing, Kind, Alive
<1> QED BY <1>1, <1>2 DEF TypeInv

\* A step of connect keeps the types.
LEMMA ConnectTypeInv ==
    ASSUME TypeInv, NEW t \in App,
           \/ \E c \in Cell : ConnectionInit(t, c) \/ ConnectCheck(t, c)
           \/ ConnectList(t) \/ ConnectAdd(t) \/ ConnectId(t)
           \/ ConnectOk(t) \/ ConnectFail(t) \/ ConnectSpawnTcp(t) \/ ConnectSpawnUdp(t)
    PROVE  TypeInv'
<1> USE CellFacts DEF TypeInv
<1>1. ASSUME NEW c \in Cell, ConnectionInit(t, c) PROVE TypeInv'
  <2> USE <1>1 DEF ConnectionInit, Malloc, NoThreads, locals, registry
  <2>1. TypeOK'
    BY DEF TypeOK, CellState, Loc, Kind, Cell
  <2>2. LocalsSet'
    BY DEF TypeOK, LocalsSet, Busy, Preparing, Kind
  <2>3. ListExists'
    BY DEF TypeOK, ListExists, Kind, Alive
  <2> QED BY <2>1, <2>2, <2>3
<1>2. ASSUME NEW c \in Cell, ConnectCheck(t, c) PROVE TypeInv'
  <2> USE <1>2 DEF ConnectCheck, MayCall, Spend, heap, registry, threads
  <2>0. calls' \in [App -> [Op -> Nat]]
    BY SpendType DEF TypeOK, Op
  <2>1. TypeOK'
    BY <2>0 DEF TypeOK, Pc
  <2>2. LocalsSet'
    BY DEF TypeOK, LocalsSet, Busy, Preparing
  <2>3. ListExists'
    BY DEF TypeOK, ListExists, AtConnect
  <2> QED BY <2>1, <2>2, <2>3
<1>3. CASE ConnectList(t)
  <2> USE <1>3 DEF ConnectList, NewList, Goto, heap, threads
  <2>1. TypeOK'
    BY DEF TypeOK, Pc
  <2>2. LocalsSet'
    BY DEF TypeOK, LocalsSet, Busy, Preparing, AtConnect
  <2>3. ListExists'
    BY DEF TypeOK, ListExists
  <2> QED BY <2>1, <2>2, <2>3
<1>4. CASE ConnectAdd(t)
  <2> USE <1>4 DEF ConnectAdd, Goto, heap, threads
  <2>a. arg[t] \in Cell /\ connections \in Seq(Cell) /\ listed \subseteq Cell
    BY DEF LocalsSet, ListExists, Busy, AtConnect, TypeOK
  <2>0. connections' \in Seq(Cell) /\ connections' # NULL /\ listed' \subseteq Cell /\ UNCHANGED replaced
    BY <2>a, RegisterType DEF Register
  <2>1. TypeOK'
    BY <2>0 DEF TypeOK, Pc
  <2>2. LocalsSet'
    BY DEF TypeOK, LocalsSet, Busy, Preparing, AtConnect
  <2>3. ListExists'
    BY <2>0, <2>1 DEF TypeOK, ListExists
  <2> QED BY <2>1, <2>2, <2>3
<1>5. CASE ConnectId(t)
  <2> USE <1>5 DEF ConnectId, Goto, registry, threads
  <2>0. connId' \in [Cell -> Id] /\ nextId' \in 1..(MaxId + 1) /\ UNCHANGED early
    BY TakeIdType DEF LocalsSet, Busy, AtConnect, TypeOK
  <2>1. TypeOK'
    BY <2>0 DEF TypeOK, Pc
  <2>2. LocalsSet'
    BY DEF TypeOK, LocalsSet, Busy, Preparing, AtConnect
  <2>3. ListExists'
    BY DEF TypeOK, ListExists, AtConnect
  <2> QED BY <2>1, <2>2, <2>3
<1>6. CASE ConnectOk(t)
  <2> USE <1>6 DEF ConnectOk, Goto, registry, threads
  <2>1. TypeOK'
    BY DEF TypeOK, Pc, CellState
  <2>2. LocalsSet'
    BY DEF TypeOK, LocalsSet, Busy, Preparing, AtConnect
  <2>3. ListExists'
    BY DEF TypeOK, ListExists, AtConnect
  <2> QED BY <2>1, <2>2, <2>3
<1>7. CASE ConnectFail(t)
  <2> USE <1>7 DEF ConnectFail, Return, heap, registry, threads
  <2>1. TypeOK'
    BY DEF TypeOK, Pc, Kind, Id
  <2>2. LocalsSet'
    BY DEF TypeOK, LocalsSet, Busy, Preparing, AtConnect, AtFree
  <2>3. ListExists'
    BY DEF TypeOK, ListExists, AtConnect
  <2> QED BY <2>1, <2>2, <2>3
<1>8. CASE ConnectSpawnTcp(t)
  <2> USE <1>8 DEF ConnectSpawnTcp, Spawn, Goto, heap, registry
  <2>1. TypeOK'
    BY DEF TypeOK, Pc, Kind, Loc
  <2>2. LocalsSet'
    BY DEF TypeOK, LocalsSet, Busy, Preparing, AtConnect, AtFree, Kind
  <2>3. ListExists'
    BY DEF TypeOK, ListExists, AtConnect, Kind
  <2> QED BY <2>1, <2>2, <2>3
<1>9. CASE ConnectSpawnUdp(t)
  <2> USE <1>9 DEF ConnectSpawnUdp, Spawn, heap, registry
  <2>0. thread' \in [Cell -> [Kind -> Loc]]
    BY SpawnType DEF TypeOK, Loc
  <2>1. TypeOK'
    BY <2>0, ReturnType DEF TypeOK
  <2> USE DEF Return
  <2>2. LocalsSet'
    BY DEF TypeOK, LocalsSet, Busy, Preparing, AtConnect, AtFree, Kind
  <2>3. ListExists'
    BY DEF TypeOK, ListExists, AtConnect, Kind
  <2> QED BY <2>1, <2>2, <2>3
<1> QED BY <1>1, <1>2, <1>3, <1>4, <1>5, <1>6, <1>7, <1>8, <1>9

\* Listening and the accepter thread keep the types.
LEMMA AccepterTypeInv ==
    ASSUME TypeInv, NEW a \in Cell,
           \/ \E t \in App : Listen(t, a)
           \/ AccepterStep(a) \/ AccepterEvent(a)
    PROVE  TypeInv'
<1> USE CellFacts DEF TypeInv
<1>1. ASSUME NEW t \in App, Listen(t, a) PROVE TypeInv'
  <2> USE <1>1 DEF Listen, MayCall, locals, NewList
  <2>0. thread' \in [Cell -> [Kind -> Loc]]
    BY SpawnType DEF TypeOK, Loc
  <2>b. calls' \in [App -> [Op -> Nat]]
    BY SpendType DEF TypeOK, Op
  <2>1. TypeOK'
    BY <2>0, <2>b DEF TypeOK, CellState
  <2>2. LocalsSet'
    BY DEF TypeOK, LocalsSet, Busy, Preparing, Kind
  <2>3. ListExists'
    BY DEF TypeOK, ListExists
  <2> QED BY <2>1, <2>2, <2>3
<1>2. ASSUME NEW w \in Cell, AccepterPrepare(a, w) PROVE TypeInv'
  <2> USE <1>2 DEF AccepterPrepare, AccepterAt, Malloc, NoThreads, registry, locals
  <2>0. thread' \in [Cell -> [Kind -> Loc]]
    BY DEF TypeOK, Loc, Kind
  <2>b. connId' \in [Cell -> Id] /\ nextId' \in 1..(MaxId + 1) /\ UNCHANGED early
    BY TakeIdType DEF TypeOK
  <2>c. cell' \in [Cell -> CellState] /\ top' \in 0..Blocks
    BY DEF TypeOK, CellState, Cell
  <2>1. TypeOK'
    BY <2>0, <2>b, <2>c DEF TypeOK
  <2>2. LocalsSet'
    BY DEF TypeOK, LocalsSet, Busy, Preparing, Kind
  <2>3. ListExists'
    BY DEF TypeOK, ListExists, Kind, Alive
  <2> QED BY <2>1, <2>2, <2>3
<1>3. CASE AccepterAccept(a)
  <2> USE <1>3 DEF AccepterAccept, AccepterAt, AccepterGoto, registry, locals
  <2>0. thread' \in [Cell -> [Kind -> Loc]]
    BY SpawnType DEF TypeOK, Loc
  <2>b. cur[a] \in Cell
    BY DEF LocalsSet, Preparing
  <2>1. TypeOK'
    BY <2>0, <2>b DEF TypeOK, CellState
  <2>2. LocalsSet'
    BY DEF TypeOK, LocalsSet, Busy, Preparing, Kind
  <2>3. ListExists'
    BY DEF TypeOK, ListExists, Kind, Alive
  <2> QED BY <2>1, <2>2, <2>3
<1>4. CASE AccepterFail(a)
  <2> USE <1>4 DEF AccepterFail, AccepterAt, AccepterGoto, registry, locals
  <2>0. thread' \in [Cell -> [Kind -> Loc]]
    BY SpawnType DEF TypeOK, Loc
  <2>b. cell' \in [Cell -> CellState] /\ connId' \in [Cell -> Id]
    BY ReleaseType DEF LocalsSet, Preparing
  <2>1. TypeOK'
    BY <2>0, <2>b DEF TypeOK
  <2>2. LocalsSet'
    BY DEF TypeOK, LocalsSet, Busy, Preparing, Kind
  <2>3. ListExists'
    BY DEF TypeOK, ListExists, Kind, Alive
  <2> QED BY <2>1, <2>2, <2>3
<1>5. CASE AccepterCallback(a)
  <2> USE <1>5 DEF AccepterCallback, AccepterAt, AccepterGoto, heap, registry, locals
  <2>0. thread' \in [Cell -> [Kind -> Loc]]
    BY SpawnType DEF TypeOK, Loc
  <2>1. TypeOK'
    BY <2>0 DEF TypeOK
  <2>2. LocalsSet'
    BY DEF TypeOK, LocalsSet, Busy, Preparing, Kind
  <2>3. ListExists'
    BY DEF TypeOK, ListExists, Kind, Alive
  <2> QED BY <2>1, <2>2, <2>3
<1>6. CASE AccepterRegister(a)
  <2> USE <1>6 DEF AccepterRegister, AccepterAt, AccepterGoto, heap, locals
  <2>0. thread' \in [Cell -> [Kind -> Loc]]
    BY SpawnType DEF TypeOK, Loc
  <2>a. cur[a] \in Cell /\ connections \in Seq(Cell) /\ listed \subseteq Cell
    BY DEF LocalsSet, Preparing, ListExists, Alive, Kind, TypeOK
  <2>b. connections' \in Seq(Cell) /\ connections' # NULL /\ listed' \subseteq Cell /\ UNCHANGED replaced
    BY <2>a, RegisterType DEF Register
  <2>1. TypeOK'
    BY <2>0, <2>b DEF TypeOK
  <2>2. LocalsSet'
    BY DEF TypeOK, LocalsSet, Busy, Preparing, Kind
  <2>3. ListExists'
    BY <2>b DEF TypeOK, ListExists
  <2> QED BY <2>1, <2>2, <2>3
<1>7. CASE AccepterSpawnTcp(a)
  <2> USE <1>7 DEF AccepterSpawnTcp, AccepterAt, heap, registry, locals
  <2>0. thread' \in [Cell -> [Kind -> Loc]]
    BY SpawnTcpThreads
  <2>1. TypeOK'
    BY <2>0 DEF TypeOK
  <2>c. \A b \in Cell : thread'[b]["accepter"] = IF b = a THEN "spawnUdp" ELSE thread[b]["accepter"]
    BY SpawnTcpThreads, ZenonT(40) DEF Kind
  <2>2. LocalsSet'
    BY <2>c DEF TypeOK, LocalsSet, Busy, Preparing
  <2>3. ListExists'
    BY DEF TypeOK, ListExists, Kind, Alive
  <2> QED BY <2>1, <2>2, <2>3
<1>8. CASE AccepterSpawnUdp(a)
  <2> USE <1>8 DEF AccepterSpawnUdp, AccepterAt, heap, registry, locals
  <2>0. thread' \in [Cell -> [Kind -> Loc]]
    BY SpawnUdpThreads
  <2>1. TypeOK'
    BY <2>0 DEF TypeOK
  <2>c. \A b \in Cell : thread'[b]["accepter"] = IF b = a THEN "prepare" ELSE thread[b]["accepter"]
    BY SpawnUdpThreads, ZenonT(40) DEF Kind
  <2>2. LocalsSet'
    <3>1. ASSUME NEW b \in Cell, Preparing(b)' PROVE cur'[b] \in Cell
      <4>1. b # a /\ Preparing(b)
        BY <2>c, <3>1 DEF Preparing
      <4>2. cur'[b] = cur[b]
        BY <4>1 DEF TypeOK
      <4> QED BY <4>1, <4>2 DEF LocalsSet
    <3>2. \A t \in App : Busy(t)' => arg'[t] \in Cell
      BY DEF LocalsSet, Busy
    <3> QED BY <3>1, <3>2 DEF LocalsSet
  <2>3. ListExists'
    BY DEF TypeOK, ListExists, Kind, Alive
  <2> QED BY <2>1, <2>2, <2>3
<1>9. CASE AccepterCancelled(a)
  <2> USE <1>9 DEF AccepterCancelled, AccepterGoto, AccepterCancelPoint, heap, registry, locals
  <2>0. thread' \in [Cell -> [Kind -> Loc]]
    BY SpawnType DEF TypeOK, Loc
  <2>1. TypeOK'
    BY <2>0 DEF TypeOK
  <2>2. LocalsSet'
    BY DEF TypeOK, LocalsSet, Busy, Preparing, Kind
  <2>3. ListExists'
    BY DEF TypeOK, ListExists, Kind, Alive
  <2> QED BY <2>1, <2>2, <2>3
<1> QED
  BY <1>1, <1>2, <1>3, <1>4, <1>5, <1>6, <1>7, <1>8, <1>9 DEF AccepterStep, AccepterEvent

\* The end of a listener keeps the types.
LEMMA ListenerTypeInv ==
    ASSUME TypeInv, NEW c \in Cell, NEW k \in {"tcp", "udp"}, ListenerCancelled(c, k) \/ Disconnect(c, k)
    PROVE  TypeInv'
<1> USE CellFacts DEF TypeInv, ListenerCancelled, Disconnect, heap, registry, locals
<1>0. thread' \in [Cell -> [Kind -> Loc]]
  BY SpawnType DEF TypeOK, Loc
<1>1. TypeOK'
  BY <1>0 DEF TypeOK
<1>2. LocalsSet'
  BY DEF TypeOK, LocalsSet, Busy, Preparing, Kind
<1>3. ListExists'
  BY DEF TypeOK, ListExists, Kind, Alive
<1> QED BY <1>1, <1>2, <1>3

\* A step of get keeps the types.
LEMMA GetTypeInv ==
    ASSUME TypeInv, NEW t \in App,
           \/ \E i \in 1..MaxId : GetBegin(t, i)
           \/ GetSize(t) \/ GetElem(t) \/ GetElemGone(t) \/ GetReturn(t)
    PROVE  TypeInv'
<1> USE CellFacts DEF TypeInv
<1>1. ASSUME NEW i \in 1..MaxId, GetBegin(t, i) PROVE TypeInv'
  <2> USE <1>1 DEF GetBegin, heap, registry, threads
  <2>0. calls' \in [App -> [Op -> Nat]]
    BY SpendType DEF TypeOK, Op
  <2>b. i \in Id
    BY DEF Id
  <2>c. Findable(i) # {} => (CHOOSE c \in Findable(i) : TRUE) \in Cell
    BY DEF Findable, TypeOK
  <2>1. TypeOK'
    BY <2>0, <2>b, <2>c DEF TypeOK, Pc
  <2>2. LocalsSet'
    BY DEF TypeOK, LocalsSet, Busy, Preparing, AtConnect, AtFree
  <2>3. ListExists'
    BY DEF TypeOK, ListExists, AtConnect
  <2> QED BY <2>1, <2>2, <2>3
<1>2. CASE GetSize(t)
  <2> USE <1>2 DEF GetSize, Goto, heap, registry, threads
  <2>1. TypeOK'
    BY DEF TypeOK, Pc
  <2>2. LocalsSet'
    BY DEF TypeOK, LocalsSet, Busy, Preparing, AtConnect, AtFree
  <2>3. ListExists'
    BY DEF TypeOK, ListExists, AtConnect
  <2> QED BY <2>1, <2>2, <2>3
<1>3. CASE GetElem(t)
  <2> USE <1>3 DEF GetElem, Goto, heap, registry, threads
  <2>0. connections \in Seq(Cell) /\ connections[idx[t] + 1] \in Cell
    BY ElementOfSeq, LenProperties DEF ListExists, TypeOK
  <2>b. pc' \in [App -> Pc] /\ idx' \in [App -> Nat] /\ arg' \in [App -> Cell \cup {NULL}]
    <3>1. CASE pc' = [pc EXCEPT ![t] = "found"] /\ arg' = [arg EXCEPT ![t] = connections[idx[t] + 1]] /\ UNCHANGED idx
      BY <2>0, <3>1 DEF TypeOK, Pc
    <3>2. CASE pc' = [pc EXCEPT ![t] = "getSize"] /\ idx' = [idx EXCEPT ![t] = @ + 1] /\ UNCHANGED arg
      <4>1. pc' = [pc EXCEPT ![t] = "getSize"] /\ idx' = [idx EXCEPT ![t] = @ + 1] /\ UNCHANGED arg
        BY <3>2
      <4>2. idx \in [App -> Nat] /\ pc \in [App -> Pc] /\ arg \in [App -> Cell \cup {NULL}]
        BY DEF TypeOK
      <4> HIDE <1>3
      <4> QED BY <4>1, <4>2 DEF Pc
    <3> QED BY <3>1, <3>2
  <2>1. TypeOK'
    BY <2>0, <2>b DEF TypeOK
  <2>2. LocalsSet'
    BY DEF TypeOK, LocalsSet, Busy, Preparing, AtConnect, AtFree
  <2>3. ListExists'
    BY DEF TypeOK, ListExists, AtConnect
  <2> QED BY <2>1, <2>2, <2>3
<1>4. CASE GetElemGone(t)
  <2> USE <1>4 DEF GetElemGone, Goto, heap, registry, threads
  <2>1. TypeOK'
    BY DEF TypeOK, Pc
  <2>2. LocalsSet'
    BY DEF TypeOK, LocalsSet, Busy, Preparing, AtConnect, AtFree
  <2>3. ListExists'
    BY DEF TypeOK, ListExists, AtConnect
  <2> QED BY <2>1, <2>2, <2>3
<1>5. CASE GetReturn(t)
  <2> USE <1>5 DEF GetReturn, heap, registry, threads
  <2>1. TypeOK'
    BY ReturnType DEF TypeOK
  <2>2. LocalsSet'
    BY DEF TypeOK, LocalsSet, Busy, Preparing, AtConnect, AtFree, Return
  <2>3. ListExists'
    BY DEF TypeOK, ListExists, AtConnect, Return
  <2> QED BY <2>1, <2>2, <2>3
<1> QED BY <1>1, <1>2, <1>3, <1>4, <1>5

\* A step of free keeps the types.
LEMMA FreeTypeInv ==
    ASSUME TypeInv, NEW t \in App,
           \/ \E c \in Cell : FreeBegin(t, c)
           \/ FreeCancel(t) \/ FreeCancelUnset(t) \/ FreeJoin(t) \/ FreeRelease(t)
    PROVE  TypeInv'
<1> USE CellFacts DEF TypeInv
<1>1. ASSUME NEW c \in Cell, FreeBegin(t, c) PROVE TypeInv'
  <2> USE <1>1 DEF FreeBegin, Goto, heap, registry, threads
  <2>0. calls' \in [App -> [Op -> Nat]]
    BY SpendType DEF TypeOK, Op
  <2>1. TypeOK'
    BY <2>0 DEF TypeOK, Pc, Kind
  <2>2. LocalsSet'
    BY DEF TypeOK, LocalsSet, Busy, Preparing, AtConnect, AtFree
  <2>3. ListExists'
    BY DEF TypeOK, ListExists, AtConnect
  <2> QED BY <2>1, <2>2, <2>3
<1>2. CASE FreeCancel(t)
  <2> USE <1>2 DEF FreeCancel, Goto, heap, registry
  <2>0. <<arg[t], target[t]>> \in Cell \X Kind
    BY DEF LocalsSet, Busy, AtFree, TypeOK
  <2>1. TypeOK'
    BY <2>0 DEF TypeOK, Pc
  <2>2. LocalsSet'
    BY DEF TypeOK, LocalsSet, Busy, Preparing, AtConnect, AtFree
  <2>3. ListExists'
    BY DEF TypeOK, ListExists, AtConnect
  <2> QED BY <2>1, <2>2, <2>3
<1>3. CASE FreeCancelUnset(t)
  <2> USE <1>3 DEF FreeCancelUnset, NextTarget, Goto, registry, threads
  <2>1. TypeOK'
    BY DEF TypeOK, Pc, Kind
  <2>2. LocalsSet'
    BY DEF TypeOK, LocalsSet, Busy, Preparing, AtConnect, AtFree
  <2>3. ListExists'
    BY DEF TypeOK, ListExists, AtConnect
  <2> QED BY <2>1, <2>2, <2>3
<1>4. CASE FreeJoin(t)
  <2> USE <1>4 DEF FreeJoin, NextTarget, Goto, heap, registry
  <2>0. thread' \in [Cell -> [Kind -> Loc]]
    BY SpawnType DEF TypeOK, Loc
  <2>1. TypeOK'
    BY <2>0 DEF TypeOK, Pc, Kind
  <2>2. LocalsSet'
    BY DEF TypeOK, LocalsSet, Busy, Preparing, AtConnect, AtFree, Kind
  <2>3. ListExists'
    BY DEF TypeOK, ListExists, AtConnect, Kind, Alive
  <2> QED BY <2>1, <2>2, <2>3
<1>5. CASE FreeRelease(t)
  <2> USE <1>5 DEF FreeRelease, threads
  <2>0. cell' \in [Cell -> CellState] /\ connId' \in [Cell -> Id]
    BY ReleaseType DEF LocalsSet, Busy, AtFree
  <2>1. TypeOK'
    BY <2>0, ReturnType DEF TypeOK
  <2>2. LocalsSet'
    BY DEF TypeOK, LocalsSet, Busy, Preparing, AtConnect, AtFree, Return
  <2>3. ListExists'
    BY DEF TypeOK, ListExists, AtConnect, Return
  <2> QED BY <2>1, <2>2, <2>3
<1> QED BY <1>1, <1>2, <1>3, <1>4, <1>5

\* Every step keeps the types.
LEMMA NextTypeInv == TypeInv /\ [Next]_vars => TypeInv'
<1> SUFFICES ASSUME TypeInv, [Next]_vars PROVE TypeInv'
  OBVIOUS
<1>1. ASSUME NEW t \in App, AppStep(t) PROVE TypeInv'
  BY <1>1, ConnectTypeInv, GetTypeInv, FreeTypeInv DEF AppStep
<1>2. ASSUME NEW t \in App, AppCall(t) PROVE TypeInv'
  BY <1>2, ConnectTypeInv, AccepterTypeInv, GetTypeInv, FreeTypeInv DEF AppCall
<1>3. ASSUME NEW a \in Cell, AccepterStep(a) \/ AccepterEvent(a) PROVE TypeInv'
  BY <1>3, AccepterTypeInv
<1>4. ASSUME NEW c \in Cell, NEW k \in {"tcp", "udp"}, ListenerCancelled(c, k) \/ Disconnect(c, k)
      PROVE  TypeInv'
  BY <1>4, ListenerTypeInv
<1>5. CASE UNCHANGED vars
  BY <1>5 DEF vars, heap, registry, threads, locals, TypeInv, TypeOK, LocalsSet, ListExists,
              Busy, Preparing
<1> QED BY <1>1, <1>2, <1>3, <1>4, <1>5 DEF Next

\* Every variable keeps its type; in particular no thread adds to, or reads,
\* a list that does not exist.
THEOREM TypeAlways == Spec => []TypeOK
<1>1. TypeInv => TypeOK
  BY DEF TypeInv
<1> QED BY <1>1, InitTypeInv, NextTypeInv, PTL DEF Spec

=============================================================================
