-------------------------- MODULE LLNetLifeProofs --------------------------
(***************************************************************************)
(* LLNet for any number of threads, blocks, calls and ids: who owns a      *)
(* block and what threads it has, in each state of its life.               *)
(***************************************************************************)
EXTENDS LLNetProofs

USE BlocksAssumption, NullAssumption, RolesAssumption, MaxIdAssumption

-----------------------------------------------------------------------------
(* The life of a block *)

\* The threads a block in each state may have.
ThreadsFit ==
    \A c \in Cell :
        /\ cell[c] = "unused" => \A k \in Kind : ~Alive(thread[c][k])
        /\ cell[c] \in {"raw", "cs_NOTHING"} => \A k \in Kind : thread[c][k] = "none"
        /\ cell[c] = "cs_ACCEPTER" => thread[c]["tcp"] = "none" /\ thread[c]["udp"] = "none"
        /\ cell[c] = "cs_WORKER" => thread[c]["accepter"] = "none"

\* A connection a thread works on is held by the application, and no other
\* thread works on it.
Owned ==
    /\ \A c \in held : cell[c] \notin {"unused", "raw"}
    /\ \A t \in App : Busy(t) => arg[t] \in held
    /\ \A t, u \in App : Busy(t) /\ Busy(u) /\ arg[t] = arg[u] => t = u

\* How far connect has come is seen in the connection.
ConnectFits ==
    \A t \in App :
        /\ pc[t] \in {"connectList", "connectAdd", "connectId", "connectNet"} =>
             cell[arg[t]] = "cs_NOTHING"
        /\ pc[t] = "connectTcp" => cell[arg[t]] = "cs_WORKER" /\ thread[arg[t]]["tcp"] = "none"
        /\ pc[t] \in {"connectTcp", "connectUdp"} =>
             cell[arg[t]] = "cs_WORKER" /\ thread[arg[t]]["udp"] = "none"

\* The worker an accepter prepares is that accepter's alone.
AccepterFits ==
    /\ \A a \in Cell : cur[a] # NULL <=> Preparing(a)
    /\ \A a \in Cell : thread[a]["accepter"] = "accept" => cell[cur[a]] = "raw"
    /\ \A a \in Cell : Preparing(a) =>
         /\ thread[a]["accepter"] # "accept" => cell[cur[a]] = "cs_WORKER"
         /\ thread[a]["accepter"] # "spawnUdp" => thread[cur[a]]["tcp"] = "none"
         /\ thread[cur[a]]["udp"] = "none"
    /\ \A a, b \in Cell : cur[a] = cur[b] /\ cur[a] # NULL => a = b
    /\ \A a \in Cell, t \in App : pc[t] \in AtConnect /\ cur[a] # NULL => cur[a] # arg[t]

\* How far free has come is seen in the threads of the connection.
FreeFits ==
    \A t \in App :
        /\ pc[t] \in {"cancel", "join"} =>
             \/ target[t] = "accepter" /\ cell[arg[t]] = "cs_ACCEPTER"
             \/ target[t] = "tcp" /\ cell[arg[t]] = "cs_WORKER"
             \/ target[t] = "udp" /\ cell[arg[t]] = "cs_WORKER" /\ thread[arg[t]]["tcp"] = "joined"
        /\ pc[t] = "release" =>
             \/ cell[arg[t]] = "cs_NOTHING"
             \/ cell[arg[t]] = "cs_ACCEPTER" /\ thread[arg[t]]["accepter"] = "joined"
             \/ cell[arg[t]] = "cs_WORKER" /\ thread[arg[t]]["tcp"] = "joined" /\ thread[arg[t]]["udp"] = "joined"

LifeInv == TypeInv /\ ThreadsFit /\ Owned /\ ConnectFits /\ AccepterFits /\ FreeFits

\* connect keeps the life of blocks: it works on a block that is its own, and
\* spawns listeners only after the block is a worker.
LEMMA ConnectLife ==
    ASSUME LifeInv, NEW t \in App,
           \/ \E c \in Cell : ConnectionInit(t, c) \/ ConnectCheck(t, c)
           \/ ConnectList(t) \/ ConnectAdd(t) \/ ConnectId(t)
           \/ ConnectOk(t) \/ ConnectFail(t) \/ ConnectSpawnTcp(t) \/ ConnectSpawnUdp(t)
    PROVE  LifeInv'
<1>0. /\ thread \in [Cell -> [Kind -> Loc]] /\ cell \in [Cell -> CellState]
      /\ cur \in [Cell -> Cell \cup {NULL}] /\ NULL \notin Cell /\ held \subseteq Cell
      /\ pc \in [App -> Pc] /\ arg \in [App -> Cell \cup {NULL}] /\ target \in [App -> Kind]
      /\ LocalsSet /\ ThreadsFit /\ Owned /\ ConnectFits /\ AccepterFits /\ FreeFits
  BY CellFacts DEF LifeInv, TypeInv, TypeOK
<1>a. TypeInv'
  BY NextTypeInv DEF LifeInv, Next, AppStep, AppCall, AccepterStep, AccepterEvent
<1>1. ASSUME NEW c \in Cell, ConnectionInit(t, c) PROVE LifeInv'
  <2> USE <1>1 DEF ConnectionInit, Malloc, locals
  <2>0. \A d \in Cell, i \in Kind :
           thread'[d][i] = IF d = c THEN "none" ELSE thread[d][i]
    BY <1>0 DEF NoThreads
  <2>1. ThreadsFit'
    BY <1>0, <2>0 DEF ThreadsFit
  <2>2. Owned'
    BY <1>0, <2>0 DEF Owned, Busy
  <2>3. ConnectFits'
    BY <1>0, <2>0 DEF ConnectFits
  <2>4. AccepterFits'
    BY <1>0, <2>0 DEF ThreadsFit, ConnectFits, AccepterFits, Kind, Alive, AtConnect, Preparing, MayCall
  <2>5. FreeFits'
    BY <1>0, <2>0 DEF FreeFits
  <2> QED BY <1>a, <2>1, <2>2, <2>3, <2>4, <2>5 DEF LifeInv
<1>2. ASSUME NEW c \in Cell, ConnectCheck(t, c) PROVE LifeInv'
  <2> USE <1>2 DEF ConnectCheck, MayCall, Free, GetPc, heap, threads
  <2>1. ThreadsFit'
    BY <1>0 DEF ThreadsFit
  <2>2. Owned'
    <3>1. \A u \in App : u # t => Busy(u)' = Busy(u) /\ arg'[u] = arg[u]
      BY <1>0 DEF Busy
    <3>2. \A u \in App : Busy(u) => arg[u] # c
      BY <1>0 DEF Busy, AtConnect, AtFree
    <3>3. arg'[t] = c /\ c \in held
      BY <1>0
    <3>4. UNCHANGED <<cell, held>>
      OBVIOUS
    <3> HIDE <1>2
    <3>5. \A u \in App : Busy(u)' => arg'[u] \in held
      BY <1>0, <3>1, <3>3 DEF Owned
    <3>6. \A u, v \in App : Busy(u)' /\ Busy(v)' /\ arg'[u] = arg'[v] => u = v
      BY <1>0, <3>1, <3>2, <3>3 DEF Owned
    <3> QED BY <1>0, <3>4, <3>5, <3>6 DEF Owned
  <2>3. ConnectFits'
    BY <1>0 DEF ConnectFits
  <2>4. AccepterFits'
    BY <1>0 DEF Owned, AccepterFits, Preparing
  <2>5. FreeFits'
    BY <1>0 DEF FreeFits
  <2> QED BY <1>a, <2>1, <2>2, <2>3, <2>4, <2>5 DEF LifeInv
<1>3. CASE ConnectList(t)
  <2> USE <1>3 DEF ConnectList, Goto, heap, threads
  <2>1. ThreadsFit'
    BY <1>0 DEF ThreadsFit
  <2>2. Owned'
    BY <1>0 DEF Owned, Busy, AtConnect
  <2>3. ConnectFits'
    BY <1>0 DEF ConnectFits
  <2>4. AccepterFits'
    BY <1>0 DEF ConnectFits, AccepterFits, Preparing
  <2>5. FreeFits'
    BY <1>0 DEF FreeFits
  <2> QED BY <1>a, <2>1, <2>2, <2>3, <2>4, <2>5 DEF LifeInv
<1>4. CASE ConnectAdd(t)
  <2> USE <1>4 DEF ConnectAdd, Goto, heap, threads
  <2>1. ThreadsFit'
    BY <1>0 DEF ThreadsFit
  <2>2. Owned'
    BY <1>0 DEF Owned, Busy, AtConnect
  <2>3. ConnectFits'
    BY <1>0 DEF ConnectFits
  <2>4. AccepterFits'
    BY <1>0 DEF ConnectFits, AccepterFits, Preparing
  <2>5. FreeFits'
    BY <1>0 DEF FreeFits
  <2> QED BY <1>a, <2>1, <2>2, <2>3, <2>4, <2>5 DEF LifeInv
<1>5. CASE ConnectId(t)
  <2> USE <1>5 DEF ConnectId, Goto, threads
  <2>1. ThreadsFit'
    BY <1>0 DEF ThreadsFit
  <2>2. Owned'
    BY <1>0 DEF Owned, Busy, AtConnect
  <2>3. ConnectFits'
    BY <1>0 DEF ConnectFits
  <2>4. AccepterFits'
    BY <1>0 DEF ConnectFits, AccepterFits, Preparing
  <2>5. FreeFits'
    BY <1>0 DEF FreeFits
  <2> QED BY <1>a, <2>1, <2>2, <2>3, <2>4, <2>5 DEF LifeInv
<1>6. CASE ConnectOk(t)
  <2> USE <1>6 DEF ConnectOk, Goto, threads
  <2>1. ThreadsFit'
    BY <1>0 DEF ThreadsFit, ConnectFits, Kind
  <2>2. Owned'
    BY <1>0 DEF Owned, Busy, AtConnect
  <2>3. ConnectFits'
    BY <1>0 DEF ThreadsFit, Owned, ConnectFits, Kind, Busy, AtConnect
  <2>4. AccepterFits'
    BY <1>0 DEF ThreadsFit, ConnectFits, AccepterFits, Preparing
  <2>5. FreeFits'
    BY <1>0 DEF Owned, FreeFits, Busy, AtConnect, AtFree
  <2> QED BY <1>a, <2>1, <2>2, <2>3, <2>4, <2>5 DEF LifeInv
<1>7. CASE ConnectFail(t)
  <2> USE <1>7 DEF ConnectFail, Return, heap, threads
  <2>1. ThreadsFit'
    BY <1>0 DEF ThreadsFit
  <2>2. Owned'
    BY <1>0 DEF Owned, Busy, AtConnect, AtFree
  <2>3. ConnectFits'
    BY <1>0 DEF ConnectFits
  <2>4. AccepterFits'
    BY <1>0 DEF AccepterFits, Preparing
  <2>5. FreeFits'
    BY <1>0 DEF FreeFits
  <2> QED BY <1>a, <2>1, <2>2, <2>3, <2>4, <2>5 DEF LifeInv
<1>8. CASE ConnectSpawnTcp(t)
  <2> USE <1>8 DEF ConnectSpawnTcp, Goto, heap, Spawn
  <2>0. \A d \in Cell, i \in Kind :
           thread'[d][i] = IF d = arg[t] /\ i = "tcp" THEN "running" ELSE thread[d][i]
    BY <1>0 DEF LocalsSet, Busy, AtConnect, Kind
  <2>1. ThreadsFit'
    BY <1>0, <2>0 DEF ThreadsFit, ConnectFits
  <2>2. Owned'
    BY <1>0, <2>0 DEF Owned, Busy, AtConnect
  <2>3. ConnectFits'
    BY <1>0, <2>0 DEF Owned, ConnectFits, Busy, AtConnect
  <2>4. AccepterFits'
    BY <1>0, <2>0 DEF AccepterFits, AtConnect, Preparing
  <2>5. FreeFits'
    BY <1>0, <2>0 DEF ConnectFits, FreeFits
  <2> QED BY <1>a, <2>1, <2>2, <2>3, <2>4, <2>5 DEF LifeInv
<1>9. CASE ConnectSpawnUdp(t)
  <2> USE <1>9 DEF ConnectSpawnUdp, Return, heap, Spawn
  <2>0. \A d \in Cell, i \in Kind :
           thread'[d][i] = IF d = arg[t] /\ i = "udp" THEN "running" ELSE thread[d][i]
    BY <1>0 DEF LocalsSet, Busy, AtConnect, Kind
  <2>1. ThreadsFit'
    BY <1>0, <2>0 DEF ThreadsFit, ConnectFits
  <2>2. Owned'
    BY <1>0, <2>0 DEF Owned, Busy, AtConnect, AtFree
  <2>3. ConnectFits'
    BY <1>0, <2>0 DEF Owned, ConnectFits, Busy, AtConnect
  <2>4. AccepterFits'
    BY <1>0, <2>0 DEF AccepterFits, AtConnect, Preparing
  <2>5. FreeFits'
    BY <1>0, <2>0 DEF ConnectFits, FreeFits
  <2> QED BY <1>a, <2>1, <2>2, <2>3, <2>4, <2>5 DEF LifeInv
<1> QED BY <1>1, <1>2, <1>3, <1>4, <1>5, <1>6, <1>7, <1>8, <1>9

\* listen and the accepter keep it: the worker an accepter prepares is fresh,
\* and its listeners are created once.
LEMMA AccepterLife ==
    ASSUME LifeInv, NEW a \in Cell,
           \/ \E t \in App : Listen(t, a)
           \/ AccepterStep(a) \/ AccepterEvent(a)
    PROVE  LifeInv'
<1>0. /\ thread \in [Cell -> [Kind -> Loc]] /\ cell \in [Cell -> CellState]
      /\ cur \in [Cell -> Cell \cup {NULL}] /\ NULL \notin Cell /\ held \subseteq Cell
      /\ pc \in [App -> Pc] /\ arg \in [App -> Cell \cup {NULL}] /\ target \in [App -> Kind]
      /\ LocalsSet /\ ThreadsFit /\ Owned /\ ConnectFits /\ AccepterFits /\ FreeFits
  BY CellFacts DEF LifeInv, TypeInv, TypeOK
<1>a. TypeInv'
  BY NextTypeInv DEF LifeInv, Next, AppStep, AppCall, AccepterStep, AccepterEvent
<1>1. ASSUME NEW t \in App, Listen(t, a) PROVE LifeInv'
  <2> USE <1>1 DEF Listen, MayCall, Free, GetPc, locals
  <2>0. \A d \in Cell, i \in Kind :
           thread'[d][i] = IF d = a /\ i = "accepter" THEN "prepare" ELSE thread[d][i]
    BY <1>0 DEF Kind
  <2>1. ThreadsFit'
    BY <1>0, <2>0 DEF ThreadsFit, Kind
  <2>2. Owned'
    BY <1>0, <2>0 DEF Owned, Busy
  <2>3. ConnectFits'
    <3>1. \A u \in App : pc[u] \in AtConnect => arg[u] # a
      BY <1>0 DEF AtConnect
    <3>2. \A d \in Cell : d # a => cell'[d] = cell[d] /\ thread'[d] = thread[d]
      BY <1>0
    <3>3. \A u \in App : Busy(u) => arg[u] \in Cell
      BY <1>0 DEF LocalsSet
    <3> QED BY <1>0, <3>1, <3>2, <3>3 DEF ConnectFits, AtConnect, Busy
  <2>4. AccepterFits'
    BY <1>0, <2>0 DEF ThreadsFit, AccepterFits, Preparing
  <2>5. FreeFits'
    BY <1>0, <2>0 DEF ThreadsFit, Owned, ConnectFits, FreeFits, Kind, Busy, AtConnect, AtFree, Preparing
  <2> QED BY <1>a, <2>1, <2>2, <2>3, <2>4, <2>5 DEF LifeInv
<1>2. ASSUME NEW w \in Cell, AccepterPrepare(a, w) PROVE LifeInv'
  <2> USE <1>2 DEF AccepterPrepare, AccepterAt, Malloc, locals
  <2>0. \A d \in Cell, i \in Kind :
           thread'[d][i] = IF d = a /\ i = "accepter" THEN "accept" ELSE IF d = w THEN "none" ELSE thread[d][i]
    BY <1>0 DEF NoThreads, Kind
  <2>1. ThreadsFit'
    BY <1>0, <2>0 DEF ThreadsFit, Owned, ConnectFits, AccepterFits, Alive
  <2>2. Owned'
    BY <1>0, <2>0 DEF Owned, Busy
  <2>3. ConnectFits'
    BY <1>0, <2>0 DEF Owned, ConnectFits, Busy, AtConnect
  <2>4. AccepterFits'
    <3>a. a # w /\ Preparing(a)'
      BY <1>0, <2>0 DEF ThreadsFit, Kind, Alive, Preparing
    <3>b. \A b \in Cell : cur[b] # w /\ (b # a => cur'[b] = cur[b] /\ (Preparing(b)' <=> Preparing(b)))
      BY <1>0, <2>0, <3>a DEF ThreadsFit, AccepterFits, Kind, Alive, Preparing
    <3>c. \A d \in Cell : d # w => cell'[d] = cell[d]
      BY <1>0
    <3>1. \A b \in Cell : (cur[b] # NULL)' <=> Preparing(b)'
      BY <1>0, <2>0, <3>a, <3>b, <3>c DEF AccepterFits
    <3>2. \A b \in Cell : thread'[b]["accepter"] = "accept" => cell'[cur'[b]] = "raw"
      BY <1>0, <2>0, <3>a, <3>b, <3>c DEF ThreadsFit, AccepterFits, Kind
    <3>3. \A b \in Cell : Preparing(b)' =>
            /\ thread'[b]["accepter"] # "accept" => cell'[cur'[b]] = "cs_WORKER"
            /\ thread'[b]["accepter"] # "spawnUdp" => thread'[cur'[b]]["tcp"] = "none"
            /\ thread'[cur'[b]]["udp"] = "none"
      BY <1>0, <2>0, <3>a, <3>b, <3>c DEF ThreadsFit, AccepterFits, Kind, Alive
    <3>4. \A b, e \in Cell : cur'[b] = cur'[e] /\ cur'[b] # NULL => b = e
      BY <1>0, <2>0, <3>a, <3>b, <3>c DEF AccepterFits
    <3>5. \A b \in Cell, t \in App : pc'[t] \in AtConnect /\ cur'[b] # NULL => cur'[b] # arg'[t]
      BY <1>0, <2>0, <3>a, <3>b, <3>c DEF Owned, AccepterFits, Busy
    <3> QED BY <3>1, <3>2, <3>3, <3>4, <3>5 DEF AccepterFits
  <2>5. FreeFits'
    BY <1>0, <2>0 DEF Owned, FreeFits, Busy, AtFree
  <2> QED BY <1>a, <2>1, <2>2, <2>3, <2>4, <2>5 DEF LifeInv
<1>3. CASE AccepterAccept(a)
  <2> USE <1>3 DEF AccepterAccept, AccepterAt, AccepterGoto, locals
  <2>0. \A d \in Cell, i \in Kind :
           thread'[d][i] = IF d = a /\ i = "accepter" THEN "callback" ELSE thread[d][i]
    BY <1>0 DEF Kind
  <2>1. ThreadsFit'
    BY <1>0, <2>0 DEF ThreadsFit, AccepterFits, Kind, Alive
  <2>2. Owned'
    BY <1>0, <2>0 DEF Owned, AccepterFits, Busy, Preparing
  <2>3. ConnectFits'
    BY <1>0, <2>0 DEF ConnectFits, AccepterFits
  <2>4. AccepterFits'
    BY <1>0, <2>0 DEF AccepterFits, Kind, Preparing
  <2>5. FreeFits'
    BY <1>0, <2>0 DEF AccepterFits, FreeFits
  <2> QED BY <1>a, <2>1, <2>2, <2>3, <2>4, <2>5 DEF LifeInv
<1>4. CASE AccepterFail(a)
  <2> USE <1>4 DEF AccepterFail, AccepterAt, AccepterGoto, locals, Release
  <2>0. \A d \in Cell, i \in Kind :
           thread'[d][i] = IF d = a /\ i = "accepter" THEN "prepare" ELSE thread[d][i]
    BY <1>0 DEF Kind
  <2>1. ThreadsFit'
    BY <1>0, <2>0 DEF ThreadsFit, AccepterFits, Alive
  <2>2. Owned'
    BY <1>0, <2>0 DEF Owned, AccepterFits, Busy
  <2>3. ConnectFits'
    BY <1>0, <2>0 DEF ConnectFits, AccepterFits
  <2>4. AccepterFits'
    BY <1>0, <2>0 DEF AccepterFits, Kind, Preparing
  <2>5. FreeFits'
    BY <1>0, <2>0 DEF AccepterFits, FreeFits
  <2> QED BY <1>a, <2>1, <2>2, <2>3, <2>4, <2>5 DEF LifeInv
<1>5. CASE AccepterCallback(a)
  <2> USE <1>5 DEF AccepterCallback, AccepterAt, AccepterGoto, heap, locals
  <2>0. \A d \in Cell, i \in Kind :
           thread'[d][i] = IF d = a /\ i = "accepter" THEN "register" ELSE thread[d][i]
    BY <1>0 DEF Kind
  <2>1. ThreadsFit'
    BY <1>0, <2>0 DEF ThreadsFit, Alive
  <2>2. Owned'
    BY <1>0, <2>0 DEF Owned, Busy
  <2>3. ConnectFits'
    BY <1>0, <2>0 DEF ConnectFits
  <2>4. AccepterFits'
    BY <1>0, <2>0 DEF AccepterFits, Preparing
  <2>5. FreeFits'
    BY <1>0, <2>0 DEF FreeFits
  <2> QED BY <1>a, <2>1, <2>2, <2>3, <2>4, <2>5 DEF LifeInv
<1>6. CASE AccepterRegister(a)
  <2> USE <1>6 DEF AccepterRegister, AccepterAt, AccepterGoto, heap, locals
  <2>0. \A d \in Cell, i \in Kind :
           thread'[d][i] = IF d = a /\ i = "accepter" THEN "spawnTcp" ELSE thread[d][i]
    BY <1>0 DEF Kind
  <2>1. ThreadsFit'
    BY <1>0, <2>0 DEF ThreadsFit, Alive
  <2>2. Owned'
    BY <1>0, <2>0 DEF Owned, Busy
  <2>3. ConnectFits'
    BY <1>0, <2>0 DEF ConnectFits
  <2>4. AccepterFits'
    BY <1>0, <2>0 DEF AccepterFits, Preparing
  <2>5. FreeFits'
    BY <1>0, <2>0 DEF FreeFits
  <2> QED BY <1>a, <2>1, <2>2, <2>3, <2>4, <2>5 DEF LifeInv
<1>7. CASE AccepterSpawnTcp(a)
  <2> USE <1>7 DEF AccepterSpawnTcp, AccepterAt, heap, locals
  <2>0. \A d \in Cell, i \in Kind :
           thread'[d][i] = IF d = a /\ i = "accepter" THEN "spawnUdp"
                            ELSE IF d = cur[a] /\ i = "tcp" THEN "running" ELSE thread[d][i]
    BY SpawnTcpThreads DEF LifeInv
  <2>1. ThreadsFit'
    BY <1>0, <2>0 DEF ThreadsFit, Owned, AccepterFits, Kind, Alive
  <2>2. Owned'
    BY <1>0, <2>0 DEF Owned, Busy
  <2>3. ConnectFits'
    BY <1>0, <2>0 DEF ThreadsFit, Owned, ConnectFits, AccepterFits, Kind, Busy, AtConnect, AtFree
  <2>4. AccepterFits'
    <3>1. \A b \in Cell : (cur[b] # NULL)' <=> Preparing(b)'
      BY <1>0, <2>0 DEF ConnectFits, AccepterFits, Kind, Preparing
    <3>2. \A b \in Cell : thread'[b]["accepter"] = "accept" => cell'[cur'[b]] = "raw"
      BY <1>0, <2>0 DEF AccepterFits, Kind
    <3>3. \A b \in Cell : Preparing(b)' =>
            /\ thread'[b]["accepter"] # "accept" => cell'[cur'[b]] = "cs_WORKER"
            /\ thread'[b]["accepter"] # "spawnUdp" => thread'[cur'[b]]["tcp"] = "none"
            /\ thread'[cur'[b]]["udp"] = "none"
      <4> SUFFICES ASSUME NEW b \in Cell, Preparing(b)'
                   PROVE  /\ thread'[b]["accepter"] # "accept" => cell'[cur'[b]] = "cs_WORKER"
                          /\ thread'[b]["accepter"] # "spawnUdp" => thread'[cur'[b]]["tcp"] = "none"
                          /\ thread'[cur'[b]]["udp"] = "none"
        OBVIOUS
      <4>1. thread'[b]["accepter"] = IF b = a THEN "spawnUdp" ELSE thread[b]["accepter"]
        BY <2>0 DEF Kind
      <4>2. Preparing(b) /\ UNCHANGED <<cell, cur>> /\ cur[b] \in Cell /\ (b # a => cur[b] # cur[a])
        BY <1>0, <4>1 DEF Preparing, LocalsSet, AccepterFits
      <4>3. /\ thread'[cur[b]]["udp"] = thread[cur[b]]["udp"]
            /\ b # a => thread'[cur[b]]["tcp"] = thread[cur[b]]["tcp"]
        <5>1. "udp" \in Kind /\ "tcp" \in Kind
          BY DEF Kind
        <5>2. cur[b] \in Cell /\ (b # a => cur[b] # cur[a])
          BY <4>2
        <5>3. thread'[cur[b]]["udp"] = thread[cur[b]]["udp"]
          BY ONLY <2>0, <5>1, <5>2
        <5>4. b # a => thread'[cur[b]]["tcp"] = thread[cur[b]]["tcp"]
          BY ONLY <2>0, <5>1, <5>2
        <5> QED BY ONLY <5>3, <5>4
      <4> QED BY <1>0, <4>1, <4>2, <4>3 DEF AccepterFits
    <3>4. \A b, e \in Cell : cur'[b] = cur'[e] /\ cur'[b] # NULL => b = e
      BY <1>0, <2>0 DEF AccepterFits
    <3>5. \A b \in Cell, t \in App : pc'[t] \in AtConnect /\ cur'[b] # NULL => cur'[b] # arg'[t]
      BY <1>0, <2>0 DEF AccepterFits
    <3> QED BY <3>1, <3>2, <3>3, <3>4, <3>5 DEF AccepterFits
  <2>5. FreeFits'
    BY <1>0, <2>0 DEF Owned, ConnectFits, AccepterFits, FreeFits, Busy, AtFree
  <2> QED BY <1>a, <2>1, <2>2, <2>3, <2>4, <2>5 DEF LifeInv
<1>8. CASE AccepterSpawnUdp(a)
  <2> USE <1>8 DEF AccepterSpawnUdp, AccepterAt, heap, locals
  <2>0. \A d \in Cell, i \in Kind :
           thread'[d][i] = IF d = a /\ i = "accepter" THEN "prepare"
                            ELSE IF d = cur[a] /\ i = "udp" THEN "running" ELSE thread[d][i]
    BY SpawnUdpThreads DEF LifeInv
  <2>1. ThreadsFit'
    BY <1>0, <2>0 DEF ThreadsFit, AccepterFits, Kind, Alive
  <2>2. Owned'
    BY <1>0, <2>0 DEF Owned, Busy
  <2>3. ConnectFits'
    BY <1>0, <2>0 DEF Owned, ConnectFits, AccepterFits, Kind, Busy, AtConnect
  <2>4. AccepterFits'
    <3>1. \A b \in Cell : (cur[b] # NULL)' <=> Preparing(b)'
      BY <1>0, <2>0 DEF ThreadsFit, AccepterFits, Kind, Preparing
    <3>2. \A b \in Cell : thread'[b]["accepter"] = "accept" => cell'[cur'[b]] = "raw"
      BY <1>0, <2>0 DEF AccepterFits, Kind
    <3>3. \A b \in Cell : Preparing(b)' =>
            /\ thread'[b]["accepter"] # "accept" => cell'[cur'[b]] = "cs_WORKER"
            /\ thread'[b]["accepter"] # "spawnUdp" => thread'[cur'[b]]["tcp"] = "none"
            /\ thread'[cur'[b]]["udp"] = "none"
      BY <1>0, <2>0 DEF AccepterFits, FreeFits, Kind, Busy, AtConnect, Preparing
    <3>4. \A b, e \in Cell : cur'[b] = cur'[e] /\ cur'[b] # NULL => b = e
      BY <1>0, <2>0 DEF AccepterFits
    <3>5. \A b \in Cell, t \in App : pc'[t] \in AtConnect /\ cur'[b] # NULL => cur'[b] # arg'[t]
      BY <1>0, <2>0 DEF AccepterFits
    <3> QED BY <3>1, <3>2, <3>3, <3>4, <3>5 DEF AccepterFits
  <2>5. FreeFits'
    BY <1>0, <2>0 DEF Owned, AccepterFits, FreeFits, Kind, Busy, AtFree
  <2> QED BY <1>a, <2>1, <2>2, <2>3, <2>4, <2>5 DEF LifeInv
<1>9. CASE AccepterCancelled(a)
  <2> USE <1>9 DEF AccepterCancelled, AccepterCancelPoint, AccepterGoto, heap, locals
  <2>0. \A d \in Cell, i \in Kind :
           thread'[d][i] = IF d = a /\ i = "accepter" THEN "exited" ELSE thread[d][i]
    BY <1>0 DEF Kind
  <2>1. ThreadsFit'
    BY <1>0, <2>0 DEF ThreadsFit, Alive
  <2>2. Owned'
    BY <1>0, <2>0 DEF Owned, Busy
  <2>3. ConnectFits'
    BY <1>0, <2>0 DEF ConnectFits
  <2>4. AccepterFits'
    BY <1>0, <2>0 DEF AccepterFits, Kind, Preparing
  <2>5. FreeFits'
    BY <1>0, <2>0 DEF FreeFits
  <2> QED BY <1>a, <2>1, <2>2, <2>3, <2>4, <2>5 DEF LifeInv
<1> QED
  BY <1>1, <1>2, <1>3, <1>4, <1>5, <1>6, <1>7, <1>8, <1>9 DEF AccepterStep, AccepterEvent

\* free keeps it: a block is released only after its threads are joined.
LEMMA FreeLife ==
    ASSUME LifeInv, NEW t \in App,
           \/ \E c \in Cell : FreeBegin(t, c)
           \/ FreeCancel(t) \/ FreeCancelUnset(t) \/ FreeJoin(t) \/ FreeRelease(t),
           ~early'
    PROVE  LifeInv'
<1>0. /\ thread \in [Cell -> [Kind -> Loc]] /\ cell \in [Cell -> CellState]
      /\ cur \in [Cell -> Cell \cup {NULL}] /\ NULL \notin Cell /\ held \subseteq Cell
      /\ pc \in [App -> Pc] /\ arg \in [App -> Cell \cup {NULL}] /\ target \in [App -> Kind]
      /\ LocalsSet /\ ThreadsFit /\ Owned /\ ConnectFits /\ AccepterFits /\ FreeFits
  BY CellFacts DEF LifeInv, TypeInv, TypeOK
<1>a. TypeInv'
  BY NextTypeInv DEF LifeInv, Next, AppStep, AppCall, AccepterStep, AccepterEvent
<1>1. ASSUME NEW c \in Cell, FreeBegin(t, c) PROVE LifeInv'
  <2> USE <1>1 DEF FreeBegin, Goto, MayCall, Free, GetPc, heap, threads
  <2>1. ThreadsFit'
    BY <1>0 DEF ThreadsFit
  <2>2. Owned'
    <3>1. \A u \in App : u # t => Busy(u)' = Busy(u) /\ arg'[u] = arg[u]
      BY <1>0 DEF Busy
    <3>2. \A u \in App : Busy(u) => arg[u] # c
      BY <1>0 DEF Busy, AtConnect, AtFree
    <3>3. arg'[t] = c /\ c \in held
      BY <1>0
    <3>4. UNCHANGED <<cell, held>>
      OBVIOUS
    <3> HIDE <1>1
    <3>5. \A u \in App : Busy(u)' => arg'[u] \in held
      BY <1>0, <3>1, <3>3 DEF Owned
    <3>6. \A u, v \in App : Busy(u)' /\ Busy(v)' /\ arg'[u] = arg'[v] => u = v
      BY <1>0, <3>1, <3>2, <3>3 DEF Owned
    <3> QED BY <1>0, <3>4, <3>5, <3>6 DEF Owned
  <2>3. ConnectFits'
    BY <1>0 DEF ConnectFits
  <2>4. AccepterFits'
    BY <1>0 DEF AccepterFits, AtConnect, Preparing
  <2>5. FreeFits'
    BY <1>0 DEF Owned, FreeFits, CellState
  <2> QED BY <1>a, <2>1, <2>2, <2>3, <2>4, <2>5 DEF LifeInv
<1>2. CASE FreeCancel(t)
  <2> USE <1>2 DEF FreeCancel, Goto, heap
  <2>1. ThreadsFit'
    BY <1>0 DEF ThreadsFit
  <2>2. Owned'
    BY <1>0 DEF Owned, Busy, AtFree
  <2>3. ConnectFits'
    BY <1>0 DEF ConnectFits
  <2>4. AccepterFits'
    BY <1>0 DEF AccepterFits, AtConnect, Preparing
  <2>5. FreeFits'
    BY <1>0 DEF FreeFits
  <2> QED BY <1>a, <2>1, <2>2, <2>3, <2>4, <2>5 DEF LifeInv
<1>3. CASE FreeCancelUnset(t)
  <2> USE <1>3 DEF FreeCancelUnset, Goto, threads
  <2>1. ThreadsFit'
    BY <1>0 DEF ThreadsFit
  <2>2. Owned'
    BY <1>0 DEF Owned, Busy, AtFree
  <2>3. ConnectFits'
    BY <1>0 DEF ConnectFits
  <2>4. AccepterFits'
    BY <1>0 DEF AccepterFits, AtConnect, Preparing
  <2>5. FreeFits'
    BY <1>0 DEF FreeFits
  <2> QED BY <1>a, <2>1, <2>2, <2>3, <2>4, <2>5 DEF LifeInv
<1>4. CASE FreeJoin(t)
  <2> USE <1>4 DEF FreeJoin, NextTarget, Goto, heap
  <2>0. \A d \in Cell, i \in Kind :
           thread'[d][i] = IF d = arg[t] /\ i = target[t] THEN "joined" ELSE thread[d][i]
    BY <1>0 DEF LocalsSet, Busy, AtFree, Loc
  <2>1. ThreadsFit'
    BY <1>0, <2>0 DEF ThreadsFit, Alive
  <2>2. Owned'
    BY <1>0, <2>0 DEF Owned, Busy, AtFree
  <2>3. ConnectFits'
    BY <1>0, <2>0 DEF ConnectFits
  <2>4. AccepterFits'
    BY <1>0, <2>0 DEF AccepterFits, AtConnect, Preparing
  <2>5. FreeFits'
    BY <1>0, <2>0 DEF Owned, FreeFits, Busy, AtFree
  <2> QED BY <1>a, <2>1, <2>2, <2>3, <2>4, <2>5 DEF LifeInv
<1>5. CASE FreeRelease(t)
  <2> USE <1>5 DEF FreeRelease, Release, Return, threads
  <2>1. ThreadsFit'
    BY <1>0 DEF ThreadsFit, FreeFits, Kind, Alive
  <2>2. Owned'
    BY <1>0 DEF Owned, Busy, AtConnect, AtFree
  <2>3. ConnectFits'
    BY <1>0 DEF Owned, ConnectFits, Busy, AtConnect, AtFree
  <2>4. AccepterFits'
    BY <1>0 DEF ThreadsFit, AccepterFits, FreeFits, Kind, Preparing
  <2>5. FreeFits'
    BY <1>0 DEF Owned, FreeFits, Busy, AtFree
  <2> QED BY <1>a, <2>1, <2>2, <2>3, <2>4, <2>5 DEF LifeInv
<1> QED BY <1>1, <1>2, <1>3, <1>4, <1>5

\* A listener that ends disturbs nothing, as only joined threads let free go on.
LEMMA ListenerLife ==
    ASSUME LifeInv, NEW c \in Cell, NEW k \in {"tcp", "udp"}, ListenerCancelled(c, k) \/ Disconnect(c, k)
    PROVE  LifeInv'
<1>0. /\ thread \in [Cell -> [Kind -> Loc]] /\ cell \in [Cell -> CellState]
      /\ cur \in [Cell -> Cell \cup {NULL}] /\ NULL \notin Cell /\ held \subseteq Cell
      /\ pc \in [App -> Pc] /\ arg \in [App -> Cell \cup {NULL}] /\ target \in [App -> Kind]
      /\ LocalsSet /\ ThreadsFit /\ Owned /\ ConnectFits /\ AccepterFits /\ FreeFits
  BY CellFacts DEF LifeInv, TypeInv, TypeOK
<1>a. TypeInv'
  BY NextTypeInv DEF LifeInv, Next, AppStep, AppCall, AccepterStep, AccepterEvent
<1>b. k \in Kind /\ k # "accepter"
  BY DEF Kind
<1>1. LifeInv'
  <2> USE DEF ListenerCancelled, Disconnect, heap, locals
  <2>0. \A d \in Cell, i \in Kind :
           thread'[d][i] = IF d = c /\ i = k THEN "exited" ELSE thread[d][i]
    BY <1>0 DEF Kind
  <2>1. ThreadsFit'
    BY <1>0, <2>0 DEF ThreadsFit, Kind, Alive
  <2>2. Owned'
    BY <1>0, <2>0 DEF Owned, Busy
  <2>3. ConnectFits'
    <3>1. thread[c][k] = "running"
      OBVIOUS
    <3>2. \A d \in Cell, i \in Kind : thread[d][i] = "none" => thread'[d][i] = "none"
      BY <2>0, <3>1
    <3>3. \A u \in App : pc[u] \in AtConnect => arg[u] \in Cell
      BY <1>0 DEF LocalsSet, Busy
    <3>4. UNCHANGED <<cell, pc, arg>> /\ "tcp" \in Kind /\ "udp" \in Kind
      BY DEF Kind
    <3> QED BY <1>0, <3>2, <3>3, <3>4 DEF ConnectFits, AtConnect
  <2>4. AccepterFits'
    <3>1. \A b \in Cell : (cur[b] # NULL)' <=> Preparing(b)'
      BY <1>0, <1>b, <2>0 DEF AccepterFits, Kind, Preparing
    <3>2. \A b \in Cell : thread'[b]["accepter"] = "accept" => cell'[cur'[b]] = "raw"
      BY <1>0, <1>b, <2>0 DEF AccepterFits, Kind
    <3>3. \A b \in Cell : Preparing(b)' =>
            /\ thread'[b]["accepter"] # "accept" => cell'[cur'[b]] = "cs_WORKER"
            /\ thread'[b]["accepter"] # "spawnUdp" => thread'[cur'[b]]["tcp"] = "none"
            /\ thread'[cur'[b]]["udp"] = "none"
      BY <1>0, <1>b, <2>0 DEF Owned, AccepterFits, Kind, Preparing
    <3>4. \A b, e \in Cell : cur'[b] = cur'[e] /\ cur'[b] # NULL => b = e
      BY <1>0, <1>b, <2>0 DEF AccepterFits
    <3>5. \A b \in Cell, t \in App : pc'[t] \in AtConnect /\ cur'[b] # NULL => cur'[b] # arg'[t]
      BY <1>0, <1>b, <2>0 DEF AccepterFits
    <3> QED BY <3>1, <3>2, <3>3, <3>4, <3>5 DEF AccepterFits
  <2>5. FreeFits'
    BY <1>0, <2>0 DEF ThreadsFit, Owned, ConnectFits, FreeFits, Kind, Alive, Busy, AtFree
  <2> QED BY <1>a, <2>1, <2>2, <2>3, <2>4, <2>5 DEF LifeInv
<1> QED BY <1>1

\* get keeps it: it changes no block and no thread.
LEMMA GetLife ==
    ASSUME LifeInv, NEW t \in App,
           \/ \E i \in 1..MaxId : GetBegin(t, i)
           \/ GetSize(t) \/ GetElem(t) \/ GetElemGone(t) \/ GetReturn(t)
    PROVE  LifeInv'
<1>0. /\ thread \in [Cell -> [Kind -> Loc]] /\ cell \in [Cell -> CellState]
      /\ cur \in [Cell -> Cell \cup {NULL}] /\ NULL \notin Cell /\ held \subseteq Cell
      /\ pc \in [App -> Pc] /\ arg \in [App -> Cell \cup {NULL}] /\ target \in [App -> Kind]
      /\ LocalsSet /\ ThreadsFit /\ Owned /\ ConnectFits /\ AccepterFits /\ FreeFits
  BY CellFacts DEF LifeInv, TypeInv, TypeOK
<1>a. TypeInv'
  BY NextTypeInv DEF LifeInv, Next, AppStep, AppCall, AccepterStep, AccepterEvent
<1>1. ASSUME NEW i \in 1..MaxId, GetBegin(t, i) PROVE LifeInv'
  <2> USE <1>1 DEF GetBegin, MayCall, heap, threads
  <2>1. ThreadsFit'
    BY <1>0 DEF ThreadsFit
  <2>2. Owned'
    BY <1>0 DEF Owned, Busy, AtConnect, AtFree
  <2>3. ConnectFits'
    BY <1>0 DEF ConnectFits
  <2>4. AccepterFits'
    BY <1>0 DEF AccepterFits, AtConnect, Preparing
  <2>5. FreeFits'
    BY <1>0 DEF FreeFits
  <2> QED BY <1>a, <2>1, <2>2, <2>3, <2>4, <2>5 DEF LifeInv
<1>2. CASE GetSize(t) \/ GetElemGone(t)
  <2> USE <1>2 DEF GetSize, GetElemGone, Goto, heap, threads
  <2>1. ThreadsFit'
    BY <1>0 DEF ThreadsFit
  <2>2. Owned'
    <3>1. \A u \in App : Busy(u)' => Busy(u) /\ arg'[u] = arg[u]
      BY <1>0 DEF Busy, AtConnect, AtFree
    <3>2. UNCHANGED <<cell, held, thread, cur>>
      OBVIOUS
    <3> HIDE <1>2
    <3> QED BY <1>0, <3>1, <3>2 DEF Owned
  <2>3. ConnectFits'
    BY <1>0 DEF ConnectFits
  <2>4. AccepterFits'
    BY <1>0 DEF AccepterFits, AtConnect, Preparing
  <2>5. FreeFits'
    BY <1>0 DEF FreeFits
  <2> QED BY <1>a, <2>1, <2>2, <2>3, <2>4, <2>5 DEF LifeInv
<1>3. CASE GetElem(t)
  <2> USE <1>3 DEF GetElem, Goto, heap, threads
  <2>1. ThreadsFit'
    BY <1>0 DEF ThreadsFit
  <2>2. Owned'
    <3>1. \A u \in App : Busy(u)' = Busy(u) /\ (Busy(u) => arg'[u] = arg[u])
      BY <1>0 DEF Busy, AtConnect, AtFree
    <3> QED BY <1>0, <3>1 DEF Owned
  <2>3. ConnectFits'
    BY <1>0 DEF ConnectFits
  <2>4. AccepterFits'
    BY <1>0 DEF AccepterFits, AtConnect, Preparing
  <2>5. FreeFits'
    BY <1>0 DEF FreeFits
  <2> QED BY <1>a, <2>1, <2>2, <2>3, <2>4, <2>5 DEF LifeInv
<1>4. CASE GetReturn(t)
  <2> USE <1>4 DEF GetReturn, Return, heap, threads
  <2>1. ThreadsFit'
    BY <1>0 DEF ThreadsFit
  <2>2. Owned'
    BY <1>0 DEF Owned, Busy, AtConnect, AtFree
  <2>3. ConnectFits'
    BY <1>0 DEF ConnectFits
  <2>4. AccepterFits'
    BY <1>0 DEF AccepterFits, Preparing
  <2>5. FreeFits'
    BY <1>0 DEF FreeFits
  <2> QED BY <1>a, <2>1, <2>2, <2>3, <2>4, <2>5 DEF LifeInv
<1> QED BY <1>1, <1>2, <1>3, <1>4

\* In the beginning no block is in use.
LEMMA InitLife == Init => LifeInv
<1> SUFFICES ASSUME Init PROVE LifeInv
  OBVIOUS
<1>1. ThreadsFit /\ Owned /\ ConnectFits /\ FreeFits
  BY DEF Init, ThreadsFit, Owned, ConnectFits, FreeFits, Alive, Busy, AtConnect, AtFree
<1>2. AccepterFits
  BY DEF Init, AccepterFits, Preparing, AtConnect, Kind
<1> QED BY <1>1, <1>2, InitTypeInv DEF LifeInv

\* A step that does not free a worker early keeps the life of blocks.
LEMMA NextLife == LifeInv /\ [Next]_vars /\ ~early' => LifeInv'
<1> SUFFICES ASSUME LifeInv, [Next]_vars, ~early' PROVE LifeInv'
  OBVIOUS
<1>1. ASSUME NEW t \in App, AppStep(t) PROVE LifeInv'
  BY <1>1, ConnectLife, GetLife, FreeLife DEF AppStep
<1>2. ASSUME NEW t \in App, AppCall(t) PROVE LifeInv'
  BY <1>2, ConnectLife, AccepterLife, GetLife, FreeLife DEF AppCall
<1>3. ASSUME NEW a \in Cell, AccepterStep(a) \/ AccepterEvent(a) PROVE LifeInv'
  BY <1>3, AccepterLife
<1>4. ASSUME NEW c \in Cell, NEW k \in {"tcp", "udp"}, ListenerCancelled(c, k) \/ Disconnect(c, k)
      PROVE  LifeInv'
  BY <1>4, ListenerLife
<1>5. CASE UNCHANGED vars
  <2>1. TypeInv'
    BY NextTypeInv DEF LifeInv
  <2>2. UNCHANGED <<cell, thread, cur, held, pc, arg, target>>
    BY <1>5 DEF vars, heap, threads, locals
  <2>3. (ThreadsFit /\ Owned /\ ConnectFits /\ FreeFits)'
    BY <2>2 DEF LifeInv, ThreadsFit, Owned, ConnectFits, FreeFits, Busy
  <2>4. AccepterFits'
    BY <2>2 DEF LifeInv, AccepterFits, Preparing
  <2> QED BY <2>1, <2>3, <2>4 DEF LifeInv
<1> QED BY <1>1, <1>2, <1>3, <1>4, <1>5 DEF Next

\* What a thread has been freed from under stays so.
LEMMA EarlyStays == TypeInv /\ [Next]_vars /\ early => early'
<1> SUFFICES ASSUME TypeInv, [Next]_vars, early PROVE early'
  OBVIOUS
<1>1. ASSUME NEW t \in App, AppStep(t) \/ AppCall(t) PROVE early'
  BY <1>1 DEF AppStep, AppCall, ConnectList, ConnectAdd, ConnectId, ConnectOk, ConnectFail, ConnectSpawnTcp,
     ConnectSpawnUdp, GetSize, GetElem, GetElemGone, GetReturn, FreeCancel, FreeCancelUnset, FreeJoin,
     FreeRelease, ConnectionInit, ConnectCheck, Listen, FreeBegin, GetBegin, TakeId, heap
<1>2. ASSUME NEW a \in Cell, AccepterStep(a) \/ AccepterEvent(a) PROVE early'
  BY <1>2 DEF AccepterStep, AccepterEvent, AccepterPrepare, AccepterCallback, AccepterRegister,
     AccepterSpawnTcp, AccepterSpawnUdp, AccepterCancelled, AccepterAccept, AccepterFail, TakeId, heap
<1>3. ASSUME NEW c \in Cell, NEW k \in {"tcp", "udp"}, ListenerCancelled(c, k) \/ Disconnect(c, k)
      PROVE  early'
  BY <1>3 DEF ListenerCancelled, Disconnect, heap
<1>4. CASE UNCHANGED vars
  BY <1>4 DEF vars, heap
<1> QED BY <1>1, <1>2, <1>3, <1>4 DEF Next

\* When llnet_connection_free has given a block back, no thread uses it, unless
\* a worker was freed before its threads existed.
THEOREM NoListenerAfterFreeAlways == Spec => []NoListenerAfterFree
<1> DEFINE I == TypeInv /\ (early \/ LifeInv)
<1>1. Init => I
  BY InitTypeInv, InitLife
<1>2. I /\ [Next]_vars => I'
  BY NextTypeInv, EarlyStays, NextLife
<1>3. I => NoListenerAfterFree
  BY DEF LifeInv, ThreadsFit, NoListenerAfterFree, FreedIsLeft
<1> QED BY <1>1, <1>2, <1>3, PTL DEF Spec

-----------------------------------------------------------------------------
(* Connection ids *)

\* Ids are handed out once: blocks that have one differ in it, and the next is
\* above them all.
IdsDistinct ==
    /\ \A c \in Cell : connId[c] < nextId
    /\ \A c, d \in Cell : connId[c] = connId[d] /\ connId[c] # 0 => c = d

\* A block has an id before it becomes a worker, and until it is freed.
IdsGiven ==
    /\ \A c \in Cell : cell[c] = "cs_WORKER" => connId[c] # 0
    /\ \A t \in App : pc[t] \in {"connectNet", "connectTcp", "connectUdp"} => connId[arg[t]] # 0
    /\ \A a \in Cell : Preparing(a) => connId[cur[a]] # 0

IdInv == TypeInv /\ IdsDistinct /\ IdsGiven

\* The id that is taken is new.
LEMMA TakeIdDistinct ==
    ASSUME TypeInv, IdsDistinct, NEW c \in Cell, TakeId(c)
    PROVE  /\ IdsDistinct' /\ connId'[c] # 0
           /\ \A d \in Cell : connId[d] # 0 => connId'[d] # 0
<1>1. nextId \in Nat \ {0} /\ connId \in [Cell -> Nat]
  BY DEF TypeInv, TypeOK, Id
<1>2. nextId' = nextId + 1 /\ \A d \in Cell : connId'[d] = IF d = c THEN nextId ELSE connId[d]
  BY <1>1 DEF TakeId
<1>3. \A d \in Cell : connId[d] < nextId /\ connId[d] \in Nat
  BY <1>1 DEF IdsDistinct
<1>4. \A d, e \in Cell : connId[d] = connId[e] /\ connId[d] # 0 => d = e
  BY DEF IdsDistinct
<1>5. ASSUME NEW d \in Cell PROVE connId'[d] < nextId'
  BY <1>1, <1>2, <1>3
<1>6. ASSUME NEW d \in Cell, NEW e \in Cell, connId'[d] = connId'[e], connId'[d] # 0 PROVE d = e
  BY <1>1, <1>2, <1>3, <1>4, <1>6
<1>7. IdsDistinct'
  BY <1>5, <1>6 DEF IdsDistinct
<1> QED BY <1>1, <1>2, <1>7

\* Only TakeId gives an id, and it is taken away only from a block that is freed.
LEMMA IdsStay ==
    ASSUME IdInv, [Next]_vars
    PROVE  IdsDistinct' /\ \A c \in Cell : connId[c] # 0 /\ cell'[c] # "unused" => connId'[c] # 0
<1>0. /\ nextId \in Nat \ {0} /\ connId \in [Cell -> Id] /\ cell \in [Cell -> CellState]
      /\ LocalsSet /\ IdsDistinct /\ NoId = 0
  BY DEF IdInv, TypeInv, TypeOK, NoId
<1>1. CASE UNCHANGED <<connId, nextId>>
  BY <1>1 DEF IdInv, IdsDistinct
<1>2. ASSUME NEW c \in Cell, TakeId(c)
      PROVE  IdsDistinct' /\ \A d \in Cell : connId[d] # 0 => connId'[d] # 0
  BY <1>2, TakeIdDistinct DEF IdInv
<1>3. ASSUME NEW c \in Cell, Release(c), UNCHANGED nextId
      PROVE  IdsDistinct' /\ \A d \in Cell : connId[d] # 0 /\ cell'[d] # "unused" => connId'[d] # 0
  <2>1. \A d \in Cell : connId'[d] = IF d = c THEN 0 ELSE connId[d]
    BY <1>0, <1>3 DEF Release
  <2>2. cell'[c] = "unused"
    BY <1>0, <1>3 DEF Release
  <2> QED BY <1>0, <1>3, <2>1, <2>2 DEF IdsDistinct
<1>4. ASSUME NEW t \in App, AppStep(t)
      PROVE  \/ UNCHANGED <<connId, nextId>>
             \/ \E c \in Cell : TakeId(c) \/ (Release(c) /\ UNCHANGED nextId)
  <2>1. CASE ConnectId(t)
    BY <1>0, <2>1 DEF ConnectId, LocalsSet, Busy, AtConnect
  <2>2. CASE FreeRelease(t)
    BY <1>0, <2>2 DEF FreeRelease, LocalsSet, Busy, AtFree
  <2>3. CASE ~ConnectId(t) /\ ~FreeRelease(t)
    BY <1>4, <2>3 DEF AppStep, ConnectList, ConnectAdd, ConnectOk, ConnectFail, ConnectSpawnTcp,
       ConnectSpawnUdp, GetSize, GetElem, GetElemGone, GetReturn, FreeCancel, FreeCancelUnset,
       FreeJoin, heap
  <2> QED BY <2>1, <2>2, <2>3
<1>5. ASSUME NEW t \in App, AppCall(t) PROVE UNCHANGED <<connId, nextId>>
  BY <1>5 DEF AppCall, ConnectionInit, ConnectCheck, Listen, FreeBegin, GetBegin, heap
<1>6. ASSUME NEW a \in Cell, AccepterStep(a) \/ AccepterEvent(a)
      PROVE  \/ UNCHANGED <<connId, nextId>>
             \/ \E c \in Cell : TakeId(c) \/ (Release(c) /\ UNCHANGED nextId)
  <2>1. CASE AccepterFail(a)
    BY <1>0, <2>1 DEF AccepterFail, AccepterAt, LocalsSet, Preparing
  <2>2. CASE ~AccepterFail(a)
    BY <1>6, <2>2 DEF AccepterStep, AccepterEvent, AccepterPrepare, AccepterCallback, AccepterRegister,
       AccepterSpawnTcp, AccepterSpawnUdp, AccepterCancelled, AccepterAccept, heap
  <2> QED BY <2>1, <2>2
<1>7. ASSUME NEW c \in Cell, NEW k \in {"tcp", "udp"}, ListenerCancelled(c, k) \/ Disconnect(c, k)
      PROVE  UNCHANGED <<connId, nextId>>
  BY <1>7 DEF ListenerCancelled, Disconnect, heap
<1>8. CASE UNCHANGED vars
  BY <1>8, <1>1 DEF vars, heap
<1> QED BY <1>1, <1>2, <1>3, <1>4, <1>5, <1>6, <1>7, <1>8 DEF Next

\* Who needs an id has one.
LEMMA IdsGivenNext ==
    ASSUME IdInv, LifeInv', [Next]_vars
    PROVE  IdsGiven'
<1> DEFINE P == {"connectNet", "connectTcp", "connectUdp"}
<1>0. /\ \A c \in Cell : connId[c] # 0 /\ cell'[c] # "unused" => connId'[c] # 0
      /\ \A c \in Cell : cell[c] = "cs_WORKER" => connId[c] # 0
      /\ \A t \in App : pc[t] \in P => connId[arg[t]] # 0 /\ arg[t] \in Cell
      /\ \A a \in Cell : Preparing(a) => connId[cur[a]] # 0 /\ cur[a] \in Cell
  BY IdsStay DEF IdInv, IdsGiven, TypeInv, LocalsSet, Busy, AtConnect
\* Whoever works on a block keeps it from being free.
<1>b. /\ \A t \in App : pc'[t] \in P => cell'[arg'[t]] # "unused"
      /\ \A a \in Cell : Preparing(a)' => cell'[cur'[a]] # "unused"
  BY DEF LifeInv, ConnectFits, AccepterFits, Preparing
<1>1. \A c \in Cell : cell'[c] = "cs_WORKER" => connId'[c] # 0
  <2> SUFFICES ASSUME NEW c \in Cell, cell'[c] = "cs_WORKER", cell[c] # "cs_WORKER"
               PROVE  connId[c] # 0
    BY <1>0
  <2>1. cell \in [Cell -> CellState]
    BY DEF IdInv, TypeInv, TypeOK
  <2>2. ASSUME NEW t \in App, AppStep(t) PROVE connId[c] # 0
    <3>1. CASE ConnectOk(t)
      BY <1>0, <2>1, <3>1 DEF ConnectOk
    <3>2. CASE ~ConnectOk(t)
      BY <2>1, <2>2, <3>2 DEF AppStep, ConnectList, ConnectAdd, ConnectId, ConnectFail, ConnectSpawnTcp,
         ConnectSpawnUdp, GetSize, GetElem, GetElemGone, GetReturn, FreeCancel, FreeCancelUnset,
         FreeJoin, FreeRelease, heap, NextTarget, Release
    <3> QED BY <3>1, <3>2
  <2>3. ASSUME NEW t \in App, AppCall(t) PROVE FALSE
    BY <2>1, <2>3 DEF AppCall, ConnectionInit, ConnectCheck, Listen, FreeBegin, GetBegin, heap, Malloc
  <2>4. ASSUME NEW a \in Cell, AccepterStep(a) \/ AccepterEvent(a) PROVE connId[c] # 0
    <3>1. CASE AccepterAccept(a)
      BY <1>0, <2>1, <3>1 DEF AccepterAccept, AccepterAt, Preparing
    <3>2. CASE ~AccepterAccept(a)
      BY <2>1, <2>4, <3>2 DEF AccepterStep, AccepterEvent, AccepterPrepare, AccepterCallback,
         AccepterRegister, AccepterSpawnTcp, AccepterSpawnUdp, AccepterCancelled, AccepterFail, heap, Malloc, Release
    <3> QED BY <3>1, <3>2
  <2>5. ASSUME NEW d \in Cell, NEW k \in {"tcp", "udp"}, ListenerCancelled(d, k) \/ Disconnect(d, k)
        PROVE  FALSE
    BY <2>5 DEF ListenerCancelled, Disconnect, heap
  <2>6. CASE UNCHANGED vars
    BY <2>6 DEF vars, heap
  <2> QED BY <2>2, <2>3, <2>4, <2>5, <2>6 DEF Next
<1>2. \A t \in App : pc'[t] \in P => connId'[arg'[t]] # 0
  <2> SUFFICES ASSUME NEW t \in App, pc'[t] \in P
               PROVE  connId'[arg'[t]] # 0
    OBVIOUS
  <2>1. pc \in [App -> Pc] /\ arg \in [App -> Cell \cup {NULL}]
    BY DEF IdInv, TypeInv, TypeOK
  <2>2. ASSUME NEW u \in App, ConnectId(u) PROVE connId'[arg'[t]] # 0
    <3>1. CASE u = t
      BY <2>2, <3>1, TakeIdDistinct DEF ConnectId, IdInv, TypeInv, LocalsSet, Busy, AtConnect
    <3>2. CASE u # t
      BY <1>0, <1>b, <2>1, <2>2, <3>2 DEF ConnectId, Goto
    <3> QED BY <3>1, <3>2
  <2>3. ASSUME NEW u \in App, AppStep(u) \/ AppCall(u), ~ConnectId(u)
        PROVE  pc[t] \in P /\ arg'[t] = arg[t]
    <3>1. CASE AppStep(u)
      BY <2>1, <2>3, <3>1 DEF AppStep, ConnectList, ConnectAdd, ConnectOk, ConnectFail, ConnectSpawnTcp,
         ConnectSpawnUdp, GetSize, GetElem, GetElemGone, GetReturn, FreeCancel, FreeCancelUnset,
         FreeJoin, FreeRelease, Goto, Return, NextTarget
    <3>2. CASE AppCall(u)
      BY <2>1, <3>2 DEF AppCall, ConnectionInit, ConnectCheck, Listen, FreeBegin, GetBegin, Goto, locals, MayCall
    <3> QED BY <2>3, <3>1, <3>2
  <2>4. ASSUME NEW a \in Cell, AccepterStep(a) \/ AccepterEvent(a) PROVE pc[t] \in P /\ arg'[t] = arg[t]
    BY <2>4 DEF AccepterStep, AccepterEvent, AccepterPrepare, AccepterCallback, AccepterRegister,
       AccepterSpawnTcp, AccepterSpawnUdp, AccepterCancelled, AccepterAccept, AccepterFail, locals
  <2>5. ASSUME NEW d \in Cell, NEW k \in {"tcp", "udp"}, ListenerCancelled(d, k) \/ Disconnect(d, k)
        PROVE  pc[t] \in P /\ arg'[t] = arg[t]
    BY <2>5 DEF ListenerCancelled, Disconnect, locals
  <2>6. CASE UNCHANGED vars
    BY <1>0, <1>b, <2>6 DEF vars, locals
  <2> QED BY <1>0, <1>b, <2>2, <2>3, <2>4, <2>5, <2>6 DEF Next
<1>3. \A a \in Cell : Preparing(a)' => connId'[cur'[a]] # 0
  <2> SUFFICES ASSUME NEW a \in Cell, Preparing(a)'
               PROVE  connId'[cur'[a]] # 0
    OBVIOUS
  <2>1. thread \in [Cell -> [Kind -> Loc]] /\ cur \in [Cell -> Cell \cup {NULL}] /\ "accepter" \in Kind
    BY DEF IdInv, TypeInv, TypeOK, Kind
  <2>2. ASSUME NEW b \in Cell, NEW w \in Cell, AccepterPrepare(b, w) PROVE connId'[cur'[a]] # 0
    <3>1. CASE a = b
      BY <2>1, <2>2, <3>1, TakeIdDistinct DEF AccepterPrepare, IdInv
    <3>2. CASE a # b
      <4>1. Preparing(a) /\ cur'[a] = cur[a]
        BY <2>1, <2>2, <3>2 DEF AccepterPrepare, Preparing, NoThreads
      <4> QED BY <1>0, <1>b, <4>1
    <3> QED BY <3>1, <3>2
  <2>3. ASSUME NEW b \in Cell, AccepterSpawnTcp(b) PROVE Preparing(a) /\ cur'[a] = cur[a]
    <3>1. thread'[a]["accepter"] = IF a = b THEN "spawnUdp" ELSE thread[a]["accepter"]
      BY <2>1, <2>3, SpawnTcpThreads DEF IdInv
    <3> QED BY <2>3, <3>1 DEF AccepterSpawnTcp, AccepterAt, Preparing
  <2>4. ASSUME NEW b \in Cell, AccepterSpawnUdp(b) PROVE Preparing(a) /\ cur'[a] = cur[a]
    <3>1. thread'[a]["accepter"] = IF a = b THEN "prepare" ELSE thread[a]["accepter"]
      BY <2>1, <2>4, SpawnUdpThreads DEF IdInv
    <3> QED BY <2>1, <2>4, <3>1 DEF AccepterSpawnUdp, Preparing
  <2>5. ASSUME NEW b \in Cell, AccepterAccept(b) \/ AccepterFail(b) \/ AccepterCallback(b)
                               \/ AccepterRegister(b) \/ AccepterCancelled(b)
        PROVE  Preparing(a) /\ cur'[a] = cur[a]
    BY <2>1, <2>5 DEF AccepterAccept, AccepterFail, AccepterCallback, AccepterRegister,
       AccepterCancelled, AccepterCancelPoint, AccepterAt, AccepterGoto, Preparing
  <2>6. ASSUME NEW u \in App, AppStep(u) PROVE Preparing(a) /\ cur'[a] = cur[a]
    <3>1. CASE ConnectSpawnTcp(u) \/ ConnectSpawnUdp(u)
      BY <2>1, <3>1 DEF ConnectSpawnTcp, ConnectSpawnUdp, Spawn, Preparing
    <3>2. CASE FreeJoin(u)
      <4>1. thread'[a]["accepter"] \in {thread[a]["accepter"], "joined"}
        BY <2>1, <3>2 DEF FreeJoin
      <4> QED BY <3>2, <4>1 DEF FreeJoin, Preparing
    <3>3. CASE ~(ConnectSpawnTcp(u) \/ ConnectSpawnUdp(u) \/ FreeJoin(u))
      <4>1. UNCHANGED <<thread, cur>>
        BY <2>6, <3>3 DEF AppStep, ConnectList, ConnectAdd, ConnectId, ConnectOk, ConnectFail,
           GetSize, GetElem, GetElemGone, GetReturn, FreeCancel, FreeCancelUnset, FreeRelease, threads
      <4> QED BY <4>1 DEF Preparing
    <3> QED BY <3>1, <3>2, <3>3
  <2>7. ASSUME NEW u \in App, AppCall(u) PROVE Preparing(a) /\ cur'[a] = cur[a]
    BY <2>1, <2>7 DEF AppCall, ConnectionInit, ConnectCheck, Listen, FreeBegin, GetBegin, threads,
       NoThreads, Preparing
  <2>8. ASSUME NEW d \in Cell, NEW k \in {"tcp", "udp"}, ListenerCancelled(d, k) \/ Disconnect(d, k)
        PROVE  Preparing(a) /\ cur'[a] = cur[a]
    <3>1. thread'[a]["accepter"] = thread[a]["accepter"]
      <4>1. k \in Kind /\ k # "accepter"
        BY DEF Kind
      <4>2. thread' = [thread EXCEPT ![d][k] = "exited"]
        BY <2>8 DEF ListenerCancelled, Disconnect
      <4> QED BY <2>1, <4>1, <4>2
    <3> QED BY <2>8, <3>1 DEF ListenerCancelled, Disconnect, Preparing
  <2>9. CASE UNCHANGED vars
    <3>1. Preparing(a) /\ UNCHANGED <<cur, connId>>
      BY <2>9 DEF vars, heap, threads, Preparing
    <3> QED BY <1>0, <3>1
  <2> QED
    BY <1>0, <1>b, <2>2, <2>3, <2>4, <2>5, <2>6, <2>7, <2>8, <2>9 DEF Next, AccepterStep, AccepterEvent
<1> QED BY <1>1, <1>2, <1>3 DEF IdsGiven

\* No id is given in the initial state.
LEMMA InitIdInv == Init => IdInv
<1> SUFFICES ASSUME Init PROVE IdInv
  OBVIOUS
<1>1. IdsDistinct
  BY DEF Init, IdsDistinct, NoId
<1>2. IdsGiven
  BY DEF Init, IdsGiven, Preparing, Kind
<1> QED BY <1>1, <1>2, InitTypeInv DEF IdInv

\* Both go on together.
LEMMA NextIdLife == IdInv /\ LifeInv /\ [Next]_vars /\ ~early' => IdInv' /\ LifeInv'
BY NextLife, NextTypeInv, IdsStay, IdsGivenNext DEF IdInv

\* No two workers have the same id, whichever threads create them.
THEOREM UniqueIdsAlways == Spec => []UniqueIds
<1> DEFINE I == TypeInv /\ (early \/ (IdInv /\ LifeInv))
<1>1. Init => I
  BY InitTypeInv, InitIdInv, InitLife
<1>2. I /\ [Next]_vars => I'
  BY NextTypeInv, EarlyStays, NextIdLife
<1>3. I => UniqueIds
  BY DEF IdInv, IdsDistinct, IdsGiven, UniqueIds
<1> QED BY <1>1, <1>2, <1>3, PTL DEF Spec

-----------------------------------------------------------------------------
(* The list *)

InList(c) == \E n \in DOMAIN connections : connections[n] = c

\* A block is in the list before it is served.
Registered ==
    /\ \A t \in App : pc[t] \in {"connectId", "connectNet", "connectTcp", "connectUdp"} => InList(arg[t])
    /\ \A a \in Cell : thread[a]["accepter"] \in {"spawnTcp", "spawnUdp"} => InList(cur[a])
    /\ \A c \in Cell, k \in {"tcp", "udp"} : thread[c][k] = "running" => InList(c)

\* That holds until the list is replaced.
ListInv == LifeInv /\ (~replaced => Registered)

\* An append keeps what is in the list, and adds the block.
LEMMA RegisterAdds ==
    ASSUME connections \in Seq(Cell), NEW c \in Cell, Register(c)
    PROVE  InList(c)' /\ \A d \in Cell : InList(d) => InList(d)'
<1>1. /\ Len(connections') = Len(connections) + 1
      /\ \A n \in 1..Len(connections) : connections'[n] = connections[n]
      /\ connections'[Len(connections) + 1] = c
      /\ connections' \in Seq(Cell)
  BY AppendProperties DEF Register
<1>2. /\ DOMAIN connections = 1..Len(connections) /\ Len(connections) \in Nat
      /\ DOMAIN connections' = 1..Len(connections')
  BY <1>1, LenProperties
<1>3. InList(c)'
  BY <1>1, <1>2 DEF InList
<1>4. ASSUME NEW d \in Cell, InList(d) PROVE InList(d)'
  BY <1>1, <1>2, <1>4 DEF InList
<1> QED BY <1>3, <1>4

\* The first list is made before anything could be in it; any other one
\* replaces a list.
LEMMA NewListEmpty ==
    ASSUME LifeInv, NewList, ~replaced'
    PROVE  /\ \A t \in App : pc[t] \notin AtConnect \ {"connectList"}
           /\ \A c \in Cell, k \in Kind : ~Alive(thread[c][k])
BY DEF NewList, LifeInv, TypeInv, ListExists

\* What is served stays in the list, through every step that does not replace it.
LEMMA RegisteredNext ==
    ASSUME ListInv, [Next]_vars, ~replaced'
    PROVE  Registered'
<1> DEFINE P == {"connectId", "connectNet", "connectTcp", "connectUdp"}
           Q == {"spawnTcp", "spawnUdp"}
<1>0. /\ thread \in [Cell -> [Kind -> Loc]] /\ cur \in [Cell -> Cell \cup {NULL}]
      /\ pc \in [App -> Pc] /\ arg \in [App -> Cell \cup {NULL}] /\ LocalsSet
      /\ "tcp" \in Kind /\ "udp" \in Kind /\ "accepter" \in Kind /\ NULL \notin Cell
  BY CellFacts DEF ListInv, LifeInv, TypeInv, TypeOK, Kind
\* A step that keeps the list serves only what is in it.
<1>1. ASSUME ~replaced, UNCHANGED connections,
             \A t \in App : pc'[t] \in P => pc[t] \in P /\ arg'[t] = arg[t],
             \A a \in Cell : thread'[a]["accepter"] \in Q => thread[a]["accepter"] \in Q /\ cur'[a] = cur[a],
             \A c \in Cell, k \in {"tcp", "udp"} : thread'[c][k] = "running" =>
                \/ thread[c][k] = "running"
                \/ \E t \in App : pc[t] \in P /\ arg[t] = c
                \/ \E a \in Cell : thread[a]["accepter"] \in Q /\ cur[a] = c
      PROVE  Registered'
  <2>1. \A c : InList(c)' <=> InList(c)
    BY <1>1 DEF InList
  <2> QED BY <1>1, <2>1 DEF ListInv, Registered
<1>2. ASSUME NEW t \in App, AppStep(t) PROVE Registered'
  <2>1. CASE ConnectList(t)
    <3>1. /\ \A u \in App : pc[u] \notin AtConnect \ {"connectList"}
          /\ \A c \in Cell, k \in Kind : ~Alive(thread[c][k])
      BY <2>1, NewListEmpty DEF ConnectList, ListInv
    <3>2. \A u \in App : pc'[u] \notin P
      BY <1>0, <2>1, <3>1 DEF ConnectList, Goto, AtConnect
    <3>3. UNCHANGED thread
      BY <2>1 DEF ConnectList, threads
    <3> QED BY <1>0, <3>1, <3>2, <3>3 DEF Registered, Alive
  <2>2. CASE ConnectAdd(t)
    <3>1. connections \in Seq(Cell) /\ arg[t] \in Cell
      BY <1>0, <2>2 DEF ListInv, LifeInv, TypeInv, TypeOK, ListExists, LocalsSet, ConnectAdd, Busy, AtConnect
    <3>2. InList(arg[t])' /\ \A d \in Cell : InList(d) => InList(d)'
      BY <2>2, <3>1, RegisterAdds DEF ConnectAdd
    <3>3. UNCHANGED <<arg, thread, cur, replaced>> /\ \A u \in App : pc'[u] \in P => pc[u] \in P \/ u = t
      BY <1>0, <2>2 DEF ConnectAdd, Goto, Register, threads
    <3>4. \A u \in App : pc[u] \in P => arg[u] \in Cell
      BY <1>0 DEF LocalsSet, Busy, AtConnect
    <3>5. \A a \in Cell : thread[a]["accepter"] \in Q => cur[a] \in Cell
      BY <1>0 DEF LocalsSet, Preparing
    <3> QED BY <3>2, <3>3, <3>4, <3>5 DEF ListInv, Registered
  <2>3. CASE ConnectSpawnTcp(t) \/ ConnectSpawnUdp(t)
    <3>1. /\ UNCHANGED <<connections, replaced, cur>> /\ pc[t] \in P
          /\ \A u \in App : pc'[u] \in P => pc[u] \in P /\ arg'[u] = arg[u]
      BY <1>0, <2>3 DEF ConnectSpawnTcp, ConnectSpawnUdp, Goto, Return, registry
    <3>2. arg[t] \in Cell
      BY <1>0, <3>1 DEF LocalsSet, Busy, AtConnect
    <3>3. PICK k \in {"tcp", "udp"} : thread' = [thread EXCEPT ![arg[t]][k] = "running"]
      BY <2>3 DEF ConnectSpawnTcp, ConnectSpawnUdp, Spawn
    <3>4. \A d \in Cell, i \in Kind : thread'[d][i] = IF d = arg[t] /\ i = k THEN "running" ELSE thread[d][i]
      BY <1>0, <3>2, <3>3
    <3>5. \A a \in Cell : thread'[a]["accepter"] = thread[a]["accepter"]
      BY <1>0, <3>4
    <3> QED BY <1>0, <1>1, <3>1, <3>4, <3>5
  <2>4. CASE FreeJoin(t)
    <3>1. /\ UNCHANGED <<connections, replaced, cur, arg>>
          /\ \A u \in App : pc'[u] \in P => pc[u] \in P
      BY <1>0, <2>4 DEF FreeJoin, Goto, registry, NextTarget
    <3>2. \A d \in Cell, i \in Kind : thread'[d][i] \in {thread[d][i], "joined"}
      BY <1>0, <2>4 DEF FreeJoin
    <3>3. \A a \in Cell : thread'[a]["accepter"] \in Q => thread[a]["accepter"] \in Q
      BY <1>0, <3>2
    <3>4. \A d \in Cell, k \in {"tcp", "udp"} : thread'[d][k] = "running" => thread[d][k] = "running"
      BY <1>0, <3>2
    <3> QED BY <1>1, <3>1, <3>3, <3>4
  <2>5. CASE ~(ConnectList(t) \/ ConnectAdd(t) \/ ConnectSpawnTcp(t) \/ ConnectSpawnUdp(t) \/ FreeJoin(t))
    <3>1. UNCHANGED <<thread, cur, connections, replaced>>
      BY <1>2, <2>5 DEF AppStep, ConnectId, ConnectOk, ConnectFail, GetSize, GetElem, GetElemGone, GetReturn,
         FreeCancel, FreeCancelUnset, FreeRelease, threads, registry
    <3>2. \A u \in App : pc'[u] \in P => pc[u] \in P \cup {"connectId"} /\ arg'[u] = arg[u]
      BY <1>0, <1>2, <2>5 DEF AppStep, ConnectId, ConnectOk, ConnectFail, GetSize, GetElem, GetElemGone,
         GetReturn, FreeCancel, FreeCancelUnset, FreeRelease, Goto, Return, NextTarget
    <3> QED BY <1>1, <3>1, <3>2
  <2> QED BY <2>1, <2>2, <2>3, <2>4, <2>5
<1>3. ASSUME NEW t \in App, AppCall(t) PROVE Registered'
  <2>1. ASSUME NEW c \in Cell, Listen(t, c) PROVE Registered'
    <3>1. /\ \A u \in App : pc[u] \notin AtConnect \ {"connectList"}
          /\ \A d \in Cell, k \in Kind : ~Alive(thread[d][k])
      BY <2>1, NewListEmpty DEF Listen, ListInv
    <3>2. \A u \in App : pc'[u] \notin P
      BY <2>1, <3>1 DEF Listen, locals, AtConnect
    <3>3. \A d \in Cell, i \in Kind : thread'[d][i] \in {thread[d][i], "prepare"}
      BY <1>0, <2>1 DEF Listen
    <3>4. \A d \in Cell, i \in Kind : thread'[d][i] \notin Q \cup {"running"}
      BY <3>1, <3>3 DEF Alive
    <3> QED BY <1>0, <3>2, <3>4 DEF Registered
  <2>2. ASSUME NEW c \in Cell, ConnectionInit(t, c) PROVE Registered'
    <3>1. UNCHANGED <<pc, arg, cur, connections, replaced>>
      BY <2>2 DEF ConnectionInit, registry, locals
    <3>2. \A d \in Cell, i \in Kind : thread'[d][i] \in {thread[d][i], "none"}
      BY <1>0, <2>2 DEF ConnectionInit, NoThreads
    <3>3. \A a \in Cell : thread'[a]["accepter"] \in Q => thread[a]["accepter"] \in Q
      BY <1>0, <3>2
    <3>4. \A d \in Cell, k \in {"tcp", "udp"} : thread'[d][k] = "running" => thread[d][k] = "running"
      BY <1>0, <3>2
    <3> QED BY <1>1, <3>1, <3>3, <3>4
  <2>3. CASE \/ \E c \in Cell : ConnectCheck(t, c) \/ FreeBegin(t, c)
             \/ \E i \in 1..MaxId : GetBegin(t, i)
    <3>1. UNCHANGED <<thread, cur, connections, replaced>>
      BY <2>3 DEF ConnectCheck, FreeBegin, GetBegin, threads, registry
    <3>2. \A u \in App : pc'[u] \in P => pc[u] \in P /\ arg'[u] = arg[u]
      BY <1>0, <2>3 DEF ConnectCheck, FreeBegin, GetBegin, Goto
    <3> QED BY <1>1, <3>1, <3>2
  <2> QED BY <1>3, <2>1, <2>2, <2>3 DEF AppCall
<1>4. ASSUME NEW a \in Cell, AccepterStep(a) \/ AccepterEvent(a) PROVE Registered'
  <2>1. CASE AccepterRegister(a)
    <3>1. connections \in Seq(Cell) /\ cur[a] \in Cell
      BY <1>0, <2>1 DEF ListInv, LifeInv, TypeInv, TypeOK, ListExists, LocalsSet, AccepterRegister,
         AccepterAt, Preparing, Alive
    <3>2. InList(cur[a])' /\ \A d \in Cell : InList(d) => InList(d)'
      BY <2>1, <3>1, RegisterAdds DEF AccepterRegister
    <3>3. UNCHANGED <<arg, pc, cur, replaced>>
      BY <2>1 DEF AccepterRegister, Register, locals
    <3>4. \A d \in Cell, i \in Kind :
             thread'[d][i] = IF d = a /\ i = "accepter" THEN "spawnTcp" ELSE thread[d][i]
      BY <1>0, <2>1 DEF AccepterRegister, AccepterGoto
    <3>5. \A u \in App : pc[u] \in P => arg[u] \in Cell
      BY <1>0 DEF LocalsSet, Busy, AtConnect
    <3>6. \A b \in Cell : thread[b]["accepter"] \in Q => cur[b] \in Cell
      BY <1>0 DEF LocalsSet, Preparing
    <3>7. \A b \in Cell : thread'[b]["accepter"] \in Q => InList(cur[b])'
      BY <1>0, <3>2, <3>3, <3>4, <3>6 DEF ListInv, Registered
    <3>8. \A d \in Cell, k \in {"tcp", "udp"} : thread'[d][k] = "running" => InList(d)'
      BY <1>0, <3>2, <3>3, <3>4 DEF ListInv, Registered
    <3>9. \A u \in App : pc[u] \in P => InList(arg[u])'
      BY <3>2, <3>3, <3>5 DEF ListInv, Registered
    <3> QED BY <3>3, <3>7, <3>8, <3>9 DEF Registered
  <2>2. CASE AccepterSpawnTcp(a)
    <3>1. \A d \in Cell, i \in Kind :
             thread'[d][i] = IF d = a /\ i = "accepter" THEN "spawnUdp"
                             ELSE IF d = cur[a] /\ i = "tcp" THEN "running" ELSE thread[d][i]
      BY <2>2, SpawnTcpThreads DEF ListInv, LifeInv
    <3>2. UNCHANGED <<pc, arg, cur, connections, replaced>> /\ thread[a]["accepter"] \in Q
      BY <2>2 DEF AccepterSpawnTcp, AccepterAt, registry, locals
    <3>3. \A b \in Cell : thread'[b]["accepter"] \in Q => thread[b]["accepter"] \in Q
      BY <1>0, <3>1, <3>2
    <3>4. \A d \in Cell, k \in {"tcp", "udp"} :
             thread'[d][k] = "running" => thread[d][k] = "running" \/ d = cur[a]
      BY <1>0, <3>1
    <3> QED BY <1>1, <3>2, <3>3, <3>4
  <2>3. CASE AccepterSpawnUdp(a)
    <3>1. \A d \in Cell, i \in Kind :
             thread'[d][i] = IF d = a /\ i = "accepter" THEN "prepare"
                             ELSE IF d = cur[a] /\ i = "udp" THEN "running" ELSE thread[d][i]
      BY <2>3, SpawnUdpThreads DEF ListInv, LifeInv
    <3>2. UNCHANGED <<pc, arg, connections, replaced>> /\ thread[a]["accepter"] \in Q
      BY <2>3 DEF AccepterSpawnUdp, AccepterAt, registry, locals
    <3>3. \A b \in Cell : thread'[b]["accepter"] \in Q => thread[b]["accepter"] \in Q /\ b # a
      BY <1>0, <3>1, <3>2
    <3>4. \A d \in Cell, k \in {"tcp", "udp"} :
             thread'[d][k] = "running" => thread[d][k] = "running" \/ d = cur[a]
      BY <1>0, <3>1
    <3>5. \A b \in Cell : b # a => cur'[b] = cur[b]
      BY <1>0, <2>3 DEF AccepterSpawnUdp
    <3> QED BY <1>1, <3>2, <3>3, <3>4, <3>5
  <2>4. ASSUME NEW w \in Cell, AccepterPrepare(a, w) PROVE Registered'
    <3>1. \A d \in Cell, i \in Kind :
             thread'[d][i] = IF d = a /\ i = "accepter" THEN "accept" ELSE IF d = w THEN "none" ELSE thread[d][i]
      BY <1>0, <2>4 DEF AccepterPrepare, NoThreads
    <3>2. UNCHANGED <<pc, arg, connections, replaced>>
      BY <2>4 DEF AccepterPrepare, registry, locals
    <3>3. \A b \in Cell : thread'[b]["accepter"] \in Q => thread[b]["accepter"] \in Q /\ b # a
      BY <1>0, <3>1
    <3>4. \A d \in Cell, k \in {"tcp", "udp"} : thread'[d][k] = "running" => thread[d][k] = "running"
      BY <1>0, <3>1
    <3>5. \A b \in Cell : b # a => cur'[b] = cur[b]
      BY <1>0, <2>4 DEF AccepterPrepare
    <3> QED BY <1>1, <3>2, <3>3, <3>4, <3>5
  <2>5. CASE AccepterAccept(a) \/ AccepterFail(a) \/ AccepterCallback(a) \/ AccepterCancelled(a)
    <3>1. PICK l \in {"callback", "prepare", "register", "exited"} : AccepterGoto(a, l)
      BY <2>5 DEF AccepterAccept, AccepterFail, AccepterCallback, AccepterCancelled
    <3>2. \A d \in Cell, i \in Kind : thread'[d][i] = IF d = a /\ i = "accepter" THEN l ELSE thread[d][i]
      BY <1>0, <3>1 DEF AccepterGoto
    <3>3. UNCHANGED <<pc, arg, connections, replaced>>
      BY <2>5 DEF AccepterAccept, AccepterFail, AccepterCallback, AccepterCancelled, registry, locals
    <3>4. \A b \in Cell : thread'[b]["accepter"] \in Q => thread[b]["accepter"] \in Q /\ b # a
      BY <1>0, <3>2
    <3>5. \A d \in Cell, k \in {"tcp", "udp"} : thread'[d][k] = "running" => thread[d][k] = "running"
      BY <1>0, <3>2
    <3>6. \A b \in Cell : b # a => cur'[b] = cur[b]
      BY <1>0, <2>5 DEF AccepterAccept, AccepterFail, AccepterCallback, AccepterCancelled
    <3> QED BY <1>1, <3>3, <3>4, <3>5, <3>6
  <2> QED BY <1>4, <2>1, <2>2, <2>3, <2>4, <2>5 DEF AccepterStep, AccepterEvent
<1>5. ASSUME NEW c \in Cell, NEW k \in {"tcp", "udp"}, ListenerCancelled(c, k) \/ Disconnect(c, k)
      PROVE  Registered'
  <2>1. \A d \in Cell, i \in Kind : thread'[d][i] = IF d = c /\ i = k THEN "exited" ELSE thread[d][i]
    BY <1>0, <1>5 DEF ListenerCancelled, Disconnect
  <2>2. UNCHANGED <<pc, arg, cur, connections, replaced>>
    BY <1>5 DEF ListenerCancelled, Disconnect, registry, locals
  <2>3. \A b \in Cell : thread'[b]["accepter"] \in Q => thread[b]["accepter"] \in Q
    BY <1>0, <2>1
  <2>4. \A d \in Cell, j \in {"tcp", "udp"} : thread'[d][j] = "running" => thread[d][j] = "running"
    BY <1>0, <2>1
  <2> QED BY <1>1, <2>2, <2>3, <2>4
<1>6. CASE UNCHANGED vars
  <2>1. UNCHANGED <<pc, arg, thread, cur, connections, replaced>>
    BY <1>6 DEF vars, threads, registry, locals
  <2> QED BY <1>1, <2>1
<1> QED BY <1>2, <1>3, <1>4, <1>5, <1>6 DEF Next

\* A worker that is served is in the list with an id no other entry that holds
\* one has, as long as the list is not replaced.
THEOREM HandlerCanFindAlways == Spec => []HandlerCanFind
<1> DEFINE I == TypeInv /\ (early \/ (ListInv /\ IdInv))
<1>1. Init => I
  <2>1. Init => Registered
    BY DEF Init, Registered, Kind
  <2> QED BY <2>1, InitTypeInv, InitLife, InitIdInv DEF ListInv
<1>2. I /\ [Next]_vars => I'
  <2> SUFFICES ASSUME I, [Next]_vars, ~early' PROVE ListInv' /\ IdInv'
    BY NextTypeInv
  <2>1. ListInv /\ IdInv
    BY EarlyStays
  <2>2. LifeInv' /\ IdInv'
    BY <2>1, NextIdLife DEF ListInv
  <2> QED BY <2>1, <2>2, RegisteredNext DEF ListInv
<1>3. I => HandlerCanFind
  <2> SUFFICES ASSUME ListInv, IdInv, NEW c \in Cell, NEW k \in {"tcp", "udp"}, thread[c][k] = "running", ~replaced
               PROVE  /\ connId[c] # NoId
                      /\ \E n \in DOMAIN connections : connections[n] = c
                      /\ \A n \in DOMAIN connections :
                            connId[connections[n]] = connId[c] => connections[n] = c
    BY DEF HandlerCanFind
  <2>1. connections # NULL /\ cell[c] = "cs_WORKER"
    <3>1. k \in Kind /\ Alive(thread[c][k]) /\ thread[c][k] # "none" /\ k # "accepter"
      BY DEF Kind, Alive
    <3>2. connections # NULL /\ cell[c] \in CellState
      BY <3>1 DEF ListInv, LifeInv, TypeInv, TypeOK, ListExists
    <3>3. cell[c] \notin {"unused", "raw", "cs_NOTHING", "cs_ACCEPTER"}
      BY <3>1 DEF ListInv, LifeInv, ThreadsFit
    <3> QED BY <3>2, <3>3 DEF CellState
  <2>2. \A n \in DOMAIN connections : connections[n] \in Cell
    BY <2>1, ElementOfSeq, LenProperties DEF ListInv, LifeInv, TypeInv, TypeOK
  <2>3. InList(c)
    BY DEF ListInv, Registered
  <2>4. connId[c] # 0
    BY <2>1 DEF IdInv, IdsGiven
  <2> QED BY <2>2, <2>3, <2>4 DEF InList, IdInv, IdsDistinct, NoId
<1> QED BY <1>1, <1>2, <1>3, PTL DEF Spec

-----------------------------------------------------------------------------
(* Who is served, and who is found *)

\* The worker c is being set up, by connect or by an accepter, and its
\* listeners are still to be created.
SetUp(c) ==
    \/ \E t \in App : pc[t] = "connectNet" /\ arg[t] = c
    \/ \E a \in Cell : thread[a]["accepter"] \in {"accept", "callback", "register"} /\ cur[a] = c

\* The thread that put c in the list is now creating its listeners.
Spawning(c) ==
    \/ \E t \in App : pc[t] \in {"connectTcp", "connectUdp"} /\ arg[t] = c
    \/ \E a \in Cell : thread[a]["accepter"] \in {"spawnTcp", "spawnUdp"} /\ cur[a] = c

Served(c) == thread[c]["tcp"] # "none" /\ thread[c]["udp"] # "none"

\* Where a listed worker stands.  An accepter registers its worker last, so
\* that it can be cancelled before it without leaving anything in the list.
ServedFits ==
    /\ \A c \in listed : cell[c] \notin {"unused", "raw"}
    /\ \A c \in listed : cell[c] = "cs_WORKER" => Served(c) \/ Spawning(c)
    /\ \A a \in Cell : thread[a]["accepter"] \in {"accept", "callback", "register"} => cur[a] \notin listed
    /\ \A t \in App : pc[t] = "connectUdp" => thread[arg[t]]["tcp"] # "none"
    /\ \A a \in Cell : thread[a]["accepter"] = "spawnUdp" => thread[cur[a]]["tcp"] # "none"

ServedInv == LifeInv /\ ServedFits

\* What is listed has an entry.
ListedIn == \A c \in listed : connections # NULL /\ InList(c)

Scanning(t) == pc[t] \in {"getSize", "getElem"}

\* Until get is called its loop counter is zero.
CountersReset == \A t \in App : pc[t] = "idle" => idx[t] = 0

\* Once the worker a caller looks up has lost its place or its life, it does
\* not come back with the same id.
DueOnce ==
    \A t \in App : Scanning(t) /\ due[t] # NULL =>
        /\ 0 < want[t] /\ want[t] < nextId
        /\ connId[due[t]] = want[t] => ~SetUp(due[t]) /\ cell[due[t]] # "raw"

\* The entry of the worker that is looked up is ahead of the scan.
Ahead ==
    \A t \in App : Scanning(t) /\ StillDue(t) =>
        \E n \in DOMAIN connections : n > idx[t] /\ connections[n] = due[t]

GetInv == ServedInv /\ IdInv /\ ListedIn /\ CountersReset /\ DueOnce /\ Ahead


\* A step that lists nothing, sets up no other worker and loses no listener
\* keeps who is served.
LEMMA ServedFrame ==
    ASSUME ServedInv,
           listed' \subseteq listed,
           \A c \in listed' : cell'[c] = cell[c],
           \A c \in Cell, k \in {"tcp", "udp"} :
              cell[c] = "cs_WORKER" /\ thread'[c][k] = "none" => thread[c][k] = "none",
           \A a \in Cell :
              /\ thread'[a]["accepter"] \in {"accept", "callback", "register"} =>
                   thread[a]["accepter"] \in {"accept", "callback", "register"} /\ cur'[a] = cur[a]
              /\ thread[a]["accepter"] \in {"spawnTcp", "spawnUdp"} =>
                   thread'[a]["accepter"] = thread[a]["accepter"] /\ cur'[a] = cur[a]
              /\ thread'[a]["accepter"] = "spawnUdp" => thread[a]["accepter"] = "spawnUdp",
           \A t \in App :
              /\ pc[t] \in {"connectTcp", "connectUdp"} => pc'[t] = pc[t] /\ arg'[t] = arg[t]
              /\ pc'[t] = "connectUdp" => pc[t] = "connectUdp"
    PROVE  ServedFits'
<1>0. listed \subseteq Cell
  BY DEF ServedInv, LifeInv, TypeInv, TypeOK
<1>1. \A c \in listed' : cell'[c] \notin {"unused", "raw"}
  BY DEF ServedInv, ServedFits
<1>2. \A c \in listed' : cell'[c] = "cs_WORKER" => Served(c)' \/ Spawning(c)'
  <2> SUFFICES ASSUME NEW c \in listed', cell'[c] = "cs_WORKER" PROVE Served(c)' \/ Spawning(c)'
    OBVIOUS
  <2>1. c \in Cell /\ cell[c] = "cs_WORKER" /\ (Served(c) \/ Spawning(c))
    BY <1>0 DEF ServedInv, ServedFits
  <2>2. Served(c) => Served(c)'
    BY <2>1 DEF Served
  <2>3. Spawning(c) => Spawning(c)'
    BY <2>1 DEF Spawning
  <2> QED BY <2>1, <2>2, <2>3
<1>3. \A a \in Cell : thread'[a]["accepter"] \in {"accept", "callback", "register"} => cur'[a] \notin listed'
  BY DEF ServedInv, ServedFits
<1>4. \A t \in App : pc'[t] = "connectUdp" => thread'[arg'[t]]["tcp"] # "none"
  BY DEF ServedInv, ServedFits, LifeInv, ConnectFits, TypeInv, LocalsSet, Busy, AtConnect
<1>5. \A a \in Cell : thread'[a]["accepter"] = "spawnUdp" => thread'[cur'[a]]["tcp"] # "none"
  BY DEF ServedInv, ServedFits, LifeInv, AccepterFits, TypeInv, LocalsSet, Preparing
<1> QED BY <1>1, <1>2, <1>3, <1>4, <1>5 DEF ServedFits

\* connect keeps it: it creates the listeners of a worker it has listed.
LEMMA ConnectServed ==
    ASSUME ServedInv, NEW t \in App,
           ConnectAdd(t) \/ ConnectOk(t) \/ ConnectSpawnTcp(t) \/ ConnectSpawnUdp(t)
    PROVE  ServedFits'
<1>0. /\ thread \in [Cell -> [Kind -> Loc]] /\ cell \in [Cell -> CellState]
      /\ cur \in [Cell -> Cell \cup {NULL}] /\ NULL \notin Cell /\ listed \subseteq Cell
      /\ pc \in [App -> Pc] /\ arg \in [App -> Cell \cup {NULL}]
      /\ "tcp" \in Kind /\ "udp" \in Kind /\ "accepter" \in Kind
      /\ LocalsSet /\ ThreadsFit /\ Owned /\ ConnectFits /\ AccepterFits /\ ServedFits
  BY CellFacts DEF ServedInv, LifeInv, TypeInv, TypeOK, Kind
<1>b. arg[t] \in Cell /\ \A u \in App : u # t /\ Busy(u) => arg[u] # arg[t]
  BY <1>0 DEF Owned, LocalsSet, Busy, AtConnect, ConnectAdd, ConnectOk, ConnectSpawnTcp, ConnectSpawnUdp
<1>c. \A a \in Cell : Preparing(a) => cur[a] \in Cell /\ cur[a] # arg[t]
  BY <1>0 DEF LocalsSet, AccepterFits, AtConnect, ConnectAdd, ConnectOk, ConnectSpawnTcp, ConnectSpawnUdp
<1>1. CASE ConnectAdd(t)
  <2> USE <1>1 DEF ConnectAdd, Register, Goto, heap, threads
  <2>1. \A c \in Cell : (Served(c) <=> Served(c)') /\ (Spawning(c) <=> Spawning(c)')
    BY <1>0 DEF Served, Spawning
  <2>2. cell[arg[t]] = "cs_NOTHING"
    BY <1>0 DEF ConnectFits
  <2>3. \A a \in Cell : thread'[a]["accepter"] \in {"accept", "callback", "register"} => cur'[a] \notin listed'
    BY <1>0, <1>c DEF ServedFits, Preparing
  <2> QED BY <1>0, <1>b, <2>1, <2>2, <2>3 DEF ServedFits
<1>2. CASE ConnectOk(t)
  <2> USE <1>2 DEF ConnectOk, Goto, registry, threads
  <2>1. \A c \in Cell : (Served(c) <=> Served(c)') /\ (Spawning(c) => Spawning(c)')
    BY <1>0 DEF Served, Spawning
  <2>2. Spawning(arg[t])'
    BY <1>0 DEF Spawning
  <2>3. \A u \in App : pc'[u] = "connectUdp" => pc[u] = "connectUdp"
    BY <1>0
  <2> QED BY <1>0, <1>b, <2>1, <2>2, <2>3 DEF ServedFits
<1>3. CASE ConnectSpawnTcp(t)
  <2> USE <1>3 DEF ConnectSpawnTcp, Goto, Spawn, registry, heap
  <2>0. \A d \in Cell, i \in Kind :
           thread'[d][i] = IF d = arg[t] /\ i = "tcp" THEN "running" ELSE thread[d][i]
    BY <1>0, <1>b
  <2>1. \A c \in Cell : (Served(c) => Served(c)') /\ (Spawning(c) => Spawning(c)')
    BY <1>0, <2>0 DEF Served, Spawning
  <2>2. \A u \in App : pc'[u] = "connectUdp" => thread'[arg'[u]]["tcp"] # "none"
    BY <1>0, <1>b, <2>0 DEF ServedFits, LocalsSet, Busy, AtConnect
  <2>3. \A a \in Cell : thread'[a]["accepter"] = "spawnUdp" => thread'[cur'[a]]["tcp"] # "none"
    BY <1>0, <1>c, <2>0 DEF ServedFits, Preparing
  <2> QED BY <1>0, <2>0, <2>1, <2>2, <2>3 DEF ServedFits
<1>4. CASE ConnectSpawnUdp(t)
  <2> USE <1>4 DEF ConnectSpawnUdp, Return, Spawn, registry, heap
  <2>0. \A d \in Cell, i \in Kind :
           thread'[d][i] = IF d = arg[t] /\ i = "udp" THEN "running" ELSE thread[d][i]
    BY <1>0, <1>b
  <2>1. \A c \in Cell : Served(c) => Served(c)'
    BY <1>0, <2>0 DEF Served
  <2>2. \A c \in Cell : c = arg[t] => Served(c)'
    BY <1>0, <1>b, <2>0 DEF Served, ServedFits
  <2>3. \A c \in Cell : Spawning(c) => Spawning(c)' \/ c = arg[t]
    BY <1>0, <2>0 DEF Spawning
  <2>4. \A u \in App : pc'[u] = "connectUdp" => thread'[arg'[u]]["tcp"] # "none"
    BY <1>0, <1>b, <2>0 DEF ServedFits, LocalsSet, Busy, AtConnect
  <2>5. \A a \in Cell : thread'[a]["accepter"] = "spawnUdp" => thread'[cur'[a]]["tcp"] # "none"
    BY <1>0, <1>c, <2>0 DEF ServedFits, Preparing
  <2> QED BY <1>0, <2>0, <2>1, <2>2, <2>3, <2>4, <2>5 DEF ServedFits
<1> QED BY <1>1, <1>2, <1>3, <1>4

\* The accepter keeps it: its worker is new to the list when it registers it.
LEMMA AccepterServed ==
    ASSUME ServedInv, NEW a \in Cell,
           \/ \E w \in Cell : AccepterPrepare(a, w)
           \/ AccepterRegister(a) \/ AccepterSpawnTcp(a) \/ AccepterSpawnUdp(a)
    PROVE  ServedFits'
<1>0. /\ thread \in [Cell -> [Kind -> Loc]] /\ cell \in [Cell -> CellState]
      /\ cur \in [Cell -> Cell \cup {NULL}] /\ NULL \notin Cell /\ listed \subseteq Cell
      /\ pc \in [App -> Pc] /\ arg \in [App -> Cell \cup {NULL}]
      /\ "tcp" \in Kind /\ "udp" \in Kind /\ "accepter" \in Kind
      /\ LocalsSet /\ ThreadsFit /\ Owned /\ ConnectFits /\ AccepterFits /\ ServedFits
  BY CellFacts DEF ServedInv, LifeInv, TypeInv, TypeOK, Kind
<1>1. ASSUME NEW w \in Cell, AccepterPrepare(a, w) PROVE ServedFits'
  <2> USE <1>1 DEF AccepterPrepare, AccepterAt, Malloc, registry, locals
  <2>0. \A d \in Cell, i \in Kind :
           thread'[d][i] = IF d = a /\ i = "accepter" THEN "accept" ELSE IF d = w THEN "none" ELSE thread[d][i]
    BY <1>0 DEF NoThreads
  <2>a. cell[w] = "unused"
    OBVIOUS
  <2>b. /\ \A c \in Cell : c # w => cell'[c] = cell[c]
        /\ \A b \in Cell : b # a => cur'[b] = cur[b]
    BY <1>0
  <2>1. /\ w \notin listed /\ w # a
        /\ \A c \in Cell : c # w => cell'[c] = cell[c]
        /\ \A b \in Cell : b # a => cur'[b] = cur[b]
    BY <1>0, <2>a, <2>b DEF ServedFits, ThreadsFit, Alive
  <2>2. /\ \A t \in App : pc[t] \in {"connectTcp", "connectUdp"} => arg[t] \in Cell /\ arg[t] # w
        /\ \A b \in Cell : thread[b]["accepter"] \in {"spawnTcp", "spawnUdp"} => cur[b] \in Cell /\ cur[b] # w /\ b # a /\ b # w
    BY <1>0 DEF ConnectFits, AccepterFits, LocalsSet, Busy, AtConnect, Preparing, ThreadsFit, Alive
  <2>3. \A c \in listed : (Served(c) => Served(c)') /\ (Spawning(c) => Spawning(c)')
    BY <1>0, <2>0, <2>1, <2>2 DEF Served, Spawning
  <2>4. \A b \in Cell : thread'[b]["accepter"] \in {"accept", "callback", "register"} => cur'[b] \notin listed'
    BY <1>0, <2>0, <2>1 DEF ServedFits
  <2>5. \A t \in App : pc'[t] = "connectUdp" => thread'[arg'[t]]["tcp"] # "none"
    BY <1>0, <2>0, <2>2 DEF ServedFits
  <2>6. \A b \in Cell : thread'[b]["accepter"] = "spawnUdp" => thread'[cur'[b]]["tcp"] # "none"
    BY <1>0, <2>0, <2>1, <2>2 DEF ServedFits
  <2> QED BY <1>0, <2>1, <2>3, <2>4, <2>5, <2>6 DEF ServedFits
<1>2. CASE AccepterRegister(a)
  <2> USE <1>2 DEF AccepterRegister, AccepterAt, AccepterGoto, Register, heap, locals
  <2>0. \A d \in Cell, i \in Kind :
           thread'[d][i] = IF d = a /\ i = "accepter" THEN "spawnTcp" ELSE thread[d][i]
    BY <1>0
  <2>1. \A c \in Cell : (Served(c) => Served(c)') /\ (Spawning(c) => Spawning(c)')
    BY <1>0, <2>0 DEF Served, Spawning
  <2>2. cur[a] \in Cell /\ Spawning(cur[a])' /\ cell[cur[a]] = "cs_WORKER"
    BY <1>0, <2>0 DEF Spawning, LocalsSet, AccepterFits, Preparing
  <2>3. \A b \in Cell : thread'[b]["accepter"] \in {"accept", "callback", "register"} => cur'[b] \notin listed'
    BY <1>0, <2>0 DEF ServedFits, AccepterFits, Preparing
  <2>4. \A t \in App : pc'[t] = "connectUdp" => thread'[arg'[t]]["tcp"] # "none"
    BY <1>0, <2>0 DEF ServedFits, LocalsSet, Busy, AtConnect
  <2>5. \A b \in Cell : thread'[b]["accepter"] = "spawnUdp" => thread'[cur'[b]]["tcp"] # "none"
    BY <1>0, <2>0 DEF ServedFits, LocalsSet, Preparing
  <2> QED BY <1>0, <2>1, <2>2, <2>3, <2>4, <2>5 DEF ServedFits
<1>3. CASE AccepterSpawnTcp(a)
  <2> USE <1>3 DEF AccepterSpawnTcp, AccepterAt, heap, registry, locals
  <2>0. \A d \in Cell, i \in Kind :
           thread'[d][i] = IF d = a /\ i = "accepter" THEN "spawnUdp"
                            ELSE IF d = cur[a] /\ i = "tcp" THEN "running" ELSE thread[d][i]
    BY SpawnTcpThreads DEF ServedInv, LifeInv
  <2>a. \A b \in Cell : thread'[b]["accepter"] = IF b = a THEN "spawnUdp" ELSE thread[b]["accepter"]
    BY <1>0, <2>0
  <2>1. \A c \in Cell : (Served(c) => Served(c)') /\ (Spawning(c) => Spawning(c)')
    <3>1. \A c \in Cell : Served(c) => Served(c)'
      BY <1>0, <2>0 DEF Served
    <3>2. \A c \in Cell : Spawning(c) => Spawning(c)'
      BY <2>a DEF Spawning
    <3> QED BY <3>1, <3>2
  <2>2. \A b \in Cell : thread'[b]["accepter"] \in {"accept", "callback", "register"} => cur'[b] \notin listed'
    BY <1>0, <2>0 DEF ServedFits
  <2>3. \A t \in App : pc'[t] = "connectUdp" => thread'[arg'[t]]["tcp"] # "none"
    BY <1>0, <2>0 DEF ServedFits, LocalsSet, Busy, AtConnect
  <2>4. \A b \in Cell : thread'[b]["accepter"] = "spawnUdp" => thread'[cur'[b]]["tcp"] # "none"
    BY <1>0, <2>0 DEF ServedFits, LocalsSet, Preparing
  <2> QED BY <1>0, <2>1, <2>2, <2>3, <2>4 DEF ServedFits
<1>4. CASE AccepterSpawnUdp(a)
  <2> USE <1>4 DEF AccepterSpawnUdp, AccepterAt, heap, registry, locals
  <2>0. \A d \in Cell, i \in Kind :
           thread'[d][i] = IF d = a /\ i = "accepter" THEN "prepare"
                            ELSE IF d = cur[a] /\ i = "udp" THEN "running" ELSE thread[d][i]
    BY SpawnUdpThreads DEF ServedInv, LifeInv
  <2>1. \A c \in Cell : Served(c) => Served(c)'
    BY <1>0, <2>0, SMTT(40) DEF Served
  <2>2. \A c \in Cell : c = cur[a] => Served(c)'
    BY <1>0, <2>0 DEF Served, ServedFits
  <2>3. \A b \in Cell : b # a => cur'[b] = cur[b]
    BY <1>0
  <2>4. \A c \in Cell : Spawning(c) => Spawning(c)' \/ c = cur[a]
    BY <1>0, <2>0, <2>3 DEF Spawning
  <2>5. \A b \in Cell : thread'[b]["accepter"] \in {"accept", "callback", "register"} => cur'[b] \notin listed'
    BY <1>0, <2>0, <2>3 DEF ServedFits
  <2>6. \A t \in App : pc'[t] = "connectUdp" => thread'[arg'[t]]["tcp"] # "none"
    BY <1>0, <2>0 DEF ServedFits, LocalsSet, Busy, AtConnect
  <2>7. \A b \in Cell : thread'[b]["accepter"] = "spawnUdp" => thread'[cur'[b]]["tcp"] # "none"
    <3> SUFFICES ASSUME NEW b \in Cell, thread'[b]["accepter"] = "spawnUdp"
                 PROVE  thread'[cur'[b]]["tcp"] # "none"
      OBVIOUS
    <3>1. b # a /\ thread[b]["accepter"] = "spawnUdp"
      BY <1>0, <2>0
    <3>2. cur'[b] = cur[b] /\ cur[b] \in Cell /\ thread[cur[b]]["tcp"] # "none"
      BY <1>0, <2>3, <3>1 DEF ServedFits, LocalsSet, Preparing
    <3> QED BY <1>0, <2>0, <3>2
  <2> QED BY <1>0, <2>1, <2>2, <2>4, <2>5, <2>6, <2>7 DEF ServedFits
<1> QED BY <1>1, <1>2, <1>3, <1>4

\* Every other step is one of the frame.
LEMMA ServedNext == ServedInv /\ [Next]_vars /\ ~early' => ServedInv'
<1> SUFFICES ASSUME ServedInv, [Next]_vars, ~early' PROVE ServedFits'
  BY NextLife DEF ServedInv
<1>0. /\ thread \in [Cell -> [Kind -> Loc]] /\ cell \in [Cell -> CellState]
      /\ cur \in [Cell -> Cell \cup {NULL}] /\ NULL \notin Cell /\ listed \subseteq Cell
      /\ pc \in [App -> Pc] /\ arg \in [App -> Cell \cup {NULL}]
      /\ "tcp" \in Kind /\ "udp" \in Kind /\ "accepter" \in Kind
      /\ LocalsSet /\ ThreadsFit /\ Owned /\ ConnectFits /\ AccepterFits /\ FreeFits /\ ServedFits
  BY CellFacts DEF ServedInv, LifeInv, TypeInv, TypeOK, Kind
\* A step of a call that creates no thread and lists nothing.
<1>1. ASSUME listed' \subseteq listed, \A c \in listed' : cell'[c] = cell[c],
             UNCHANGED <<thread, cur>>,
             \A t \in App :
                /\ pc[t] \in {"connectTcp", "connectUdp"} => pc'[t] = pc[t] /\ arg'[t] = arg[t]
                /\ pc'[t] = "connectUdp" => pc[t] = "connectUdp"
      PROVE  ServedFits'
  BY <1>0, <1>1, ServedFrame
<1>2. ASSUME NEW t \in App, AppStep(t) PROVE ServedFits'
  <2>1. CASE ConnectAdd(t) \/ ConnectOk(t) \/ ConnectSpawnTcp(t) \/ ConnectSpawnUdp(t)
    BY <2>1, ConnectServed
  <2>2. CASE ConnectList(t)
    BY <1>0, <1>1, <2>2 DEF ConnectList, NewList, Goto, heap, threads
  <2>3. CASE ConnectId(t) \/ ConnectFail(t)
    BY <1>0, <1>1, <2>3 DEF ConnectId, ConnectFail, Goto, Return, heap, registry, threads
  <2>4. CASE GetSize(t) \/ GetElem(t) \/ GetElemGone(t) \/ GetReturn(t)
    BY <1>0, <1>1, <2>4 DEF GetSize, GetElem, GetElemGone, GetReturn, Goto, Return, heap, registry, threads
  <2>5. CASE FreeCancel(t) \/ FreeCancelUnset(t)
    BY <1>0, <1>1, <2>5 DEF FreeCancel, FreeCancelUnset, Goto, heap, registry, threads
  <2>6. CASE FreeJoin(t)
    <3>1. \A d \in Cell, i \in Kind :
             thread'[d][i] = IF d = arg[t] /\ i = target[t] THEN "joined" ELSE thread[d][i]
      BY <1>0, <2>6 DEF FreeJoin
    <3>2. thread[arg[t]][target[t]] = "exited"
      BY <2>6 DEF FreeJoin
    <3>3. /\ UNCHANGED <<listed, cell, cur, arg>>
          /\ \A u \in App : pc[u] \in {"connectTcp", "connectUdp"} => pc'[u] = pc[u]
          /\ \A u \in App : pc'[u] = "connectUdp" => pc[u] = "connectUdp"
      BY <1>0, <2>6 DEF FreeJoin, Goto, heap, registry, NextTarget
    <3>4. \A c \in Cell, k \in {"tcp", "udp"} : thread'[c][k] = "none" => thread[c][k] = "none"
      BY <1>0, <3>1
    <3>5. \A a \in Cell :
             \/ thread'[a]["accepter"] = thread[a]["accepter"]
             \/ thread[a]["accepter"] = "exited" /\ thread'[a]["accepter"] = "joined"
      BY <1>0, <3>1, <3>2
    <3> QED BY <1>0, <3>3, <3>4, <3>5, ServedFrame
  <2>7. CASE FreeRelease(t)
    BY <1>0, <1>1, <2>7 DEF FreeRelease, Return, threads, Release
  <2> QED BY <1>2, <2>1, <2>2, <2>3, <2>4, <2>5, <2>6, <2>7 DEF AppStep
<1>3. ASSUME NEW t \in App, AppCall(t) PROVE ServedFits'
  <2>1. ASSUME NEW c \in Cell, ConnectionInit(t, c) PROVE ServedFits'
    <3>1. \A d \in Cell, i \in Kind : thread'[d][i] = IF d = c THEN "none" ELSE thread[d][i]
      BY <1>0, <2>1 DEF ConnectionInit, NoThreads
    <3>2. cell[c] = "unused" /\ c \notin listed /\ ~Alive(thread[c]["accepter"])
      BY <1>0, <2>1 DEF ConnectionInit, Malloc, ServedFits, ThreadsFit
    <3>3. /\ UNCHANGED <<listed, cur, pc, arg>>
          /\ \A d \in Cell : d # c => cell'[d] = cell[d]
      BY <1>0, <2>1 DEF ConnectionInit, Malloc, registry, locals
    <3> QED BY <1>0, <3>1, <3>2, <3>3, ServedFrame, SMTT(40) DEF Alive
  <2>2. ASSUME NEW c \in Cell, Listen(t, c) PROVE ServedFits'
    <3>1. \A d \in Cell, i \in Kind :
             thread'[d][i] = IF d = c /\ i = "accepter" THEN "prepare" ELSE thread[d][i]
      BY <1>0, <2>2 DEF Listen
    <3>2. listed' = {} /\ thread[c]["accepter"] = "none" /\ UNCHANGED <<cur, pc, arg>>
      BY <1>0, <2>2 DEF Listen, NewList, ThreadsFit, locals
    <3> QED BY <1>0, <3>1, <3>2, ServedFrame
  <2>3. CASE \/ \E c \in Cell : ConnectCheck(t, c) \/ FreeBegin(t, c)
             \/ \E i \in 1..MaxId : GetBegin(t, i)
    BY <1>0, <1>1, <2>3 DEF ConnectCheck, FreeBegin, GetBegin, MayCall, Goto, heap, registry, threads
  <2> QED BY <1>3, <2>1, <2>2, <2>3 DEF AppCall
<1>4. ASSUME NEW a \in Cell, AccepterStep(a) \/ AccepterEvent(a) PROVE ServedFits'
  <2>1. CASE \/ \E w \in Cell : AccepterPrepare(a, w)
             \/ AccepterRegister(a) \/ AccepterSpawnTcp(a) \/ AccepterSpawnUdp(a)
    BY <2>1, AccepterServed
  <2>2. CASE AccepterAccept(a) \/ AccepterFail(a) \/ AccepterCallback(a) \/ AccepterCancelled(a)
    <3>1. PICK l \in {"callback", "prepare", "register", "exited"} :
             AccepterGoto(a, l) /\ (l \in {"callback", "register"} => cur' = cur)
      BY <2>2 DEF AccepterAccept, AccepterFail, AccepterCallback, AccepterCancelled
    <3>2. \A d \in Cell, i \in Kind : thread'[d][i] = IF d = a /\ i = "accepter" THEN l ELSE thread[d][i]
      BY <1>0, <3>1 DEF AccepterGoto
    <3>3. /\ thread[a]["accepter"] \in {"accept", "callback"}
          /\ UNCHANGED <<listed, pc, arg>> /\ cur[a] \notin listed
          /\ \A b \in Cell : b # a => cur'[b] = cur[b]
          /\ \A d \in Cell : d # cur[a] => cell'[d] = cell[d]
      BY <1>0, <2>2 DEF AccepterAccept, AccepterFail, AccepterCallback, AccepterCancelled, AccepterCancelPoint,
         AccepterAt, ServedFits, heap, registry, locals, Release
    <3>4. \A c \in Cell, k \in {"tcp", "udp"} : thread'[c][k] = thread[c][k]
      BY <1>0, <3>2
    <3>5. \A b \in Cell : thread'[b]["accepter"] = IF b = a THEN l ELSE thread[b]["accepter"]
      BY <1>0, <3>2
    <3>6. \A b \in Cell :
            /\ thread'[b]["accepter"] \in {"accept", "callback", "register"} =>
                 thread[b]["accepter"] \in {"accept", "callback", "register"} /\ cur'[b] = cur[b]
            /\ thread[b]["accepter"] \in {"spawnTcp", "spawnUdp"} =>
                 thread'[b]["accepter"] = thread[b]["accepter"] /\ cur'[b] = cur[b]
            /\ thread'[b]["accepter"] = "spawnUdp" => thread[b]["accepter"] = "spawnUdp"
      BY <3>1, <3>3, <3>5
    <3> QED BY <1>0, <3>3, <3>4, <3>6, ServedFrame
  <2> QED BY <1>4, <2>1, <2>2 DEF AccepterStep, AccepterEvent
<1>5. ASSUME NEW c \in Cell, NEW k \in {"tcp", "udp"}, ListenerCancelled(c, k) \/ Disconnect(c, k)
      PROVE  ServedFits'
  <2>1. \A d \in Cell, i \in Kind : thread'[d][i] = IF d = c /\ i = k THEN "exited" ELSE thread[d][i]
    BY <1>0, <1>5 DEF ListenerCancelled, Disconnect
  <2>2. UNCHANGED <<pc, arg, cur, cell, listed>>
    BY <1>5 DEF ListenerCancelled, Disconnect, heap, registry, locals
  <2>3. \A d \in Cell, i \in {"tcp", "udp"} : thread'[d][i] = "none" => thread[d][i] = "none"
    BY <1>0, <2>1
  <2>4. \A b \in Cell : thread'[b]["accepter"] = thread[b]["accepter"]
    BY <1>0, <2>1
  <2> QED BY <1>0, <2>2, <2>3, <2>4, ServedFrame
<1>6. CASE UNCHANGED vars
  BY <1>0, <1>1, <1>6 DEF vars, heap, threads, registry, locals
<1> QED BY <1>2, <1>3, <1>4, <1>5, <1>6 DEF Next

\* A worker that get can find has both its listeners, unless the thread that
\* listed it is still creating them.
THEOREM RegisteredAreServedAlways == Spec => []RegisteredAreServed
<1>1. Init => ServedInv
  <2>1. Init => ServedFits
    BY DEF Init, ServedFits, Kind
  <2> QED BY <2>1, InitLife DEF ServedInv
<1> DEFINE I == TypeInv /\ (early \/ ServedInv)
<1>2. I => RegisteredAreServed
  BY DEF ServedInv, ServedFits, Served, Spawning, RegisteredAreServed, InTransit, GetPc
<1>3. Init => I
  BY <1>1, InitTypeInv
<1>4. I /\ [Next]_vars => I'
  BY NextTypeInv, EarlyStays, ServedNext
<1> QED BY <1>2, <1>3, <1>4, PTL DEF Spec

\* The step lists c, which connect or an accepter has worked on.
Lists(c) ==
    /\ connections \in Seq(Cell)
    /\ Register(c)
    /\ UNCHANGED cell
    /\ \/ SetUp(c)
       \/ \E t \in App : pc[t] = "connectAdd" /\ arg[t] = c

\* A step adds an entry at the end of the list, or replaces the list by an
\* empty one, or leaves its entries alone.
LEMMA ListSteps ==
    ASSUME TypeInv, [Next]_vars
    PROVE  \/ UNCHANGED connections /\ listed' \subseteq listed
           \/ connections' = <<>> /\ listed' = {}
           \/ \E c \in Cell : Lists(c)
<1>0. /\ listed \subseteq Cell /\ connections \in Seq(Cell) \cup {NULL}
      /\ LocalsSet /\ ListExists /\ "accepter" \in Kind
  BY DEF TypeInv, TypeOK, Kind
<1>1. ASSUME NEW t \in App, AppStep(t) \/ AppCall(t),
             ~ConnectAdd(t), ~ConnectList(t), \A c \in Cell : ~Listen(t, c)
      PROVE  UNCHANGED connections /\ listed' \subseteq listed
  BY <1>1 DEF AppStep, AppCall, ConnectId, ConnectOk, ConnectFail, ConnectSpawnTcp,
     ConnectSpawnUdp, GetSize, GetElem, GetElemGone, GetReturn, FreeCancel, FreeCancelUnset,
     FreeJoin, FreeRelease, ConnectionInit, ConnectCheck, FreeBegin, GetBegin, registry
<1>2. ASSUME NEW t \in App, ConnectList(t) \/ \E c \in Cell : Listen(t, c)
      PROVE  connections' = <<>> /\ listed' = {}
  BY <1>2 DEF ConnectList, Listen, NewList
<1>3. ASSUME NEW t \in App, ConnectAdd(t)
      PROVE  arg[t] \in Cell /\ Lists(arg[t])
  BY <1>0, <1>3 DEF ConnectAdd, Lists, LocalsSet, ListExists, Busy, AtConnect, heap
<1>4. ASSUME NEW a \in Cell, AccepterRegister(a)
      PROVE  cur[a] \in Cell /\ Lists(cur[a])
  BY <1>0, <1>4 DEF AccepterRegister, AccepterAt, Lists, LocalsSet, ListExists, Preparing, Alive, SetUp, heap
<1>5. ASSUME NEW a \in Cell, AccepterStep(a) \/ AccepterEvent(a), ~AccepterRegister(a)
      PROVE  UNCHANGED <<connections, listed>>
  BY <1>5 DEF AccepterStep, AccepterEvent, AccepterPrepare, AccepterCallback, AccepterSpawnTcp,
     AccepterSpawnUdp, AccepterCancelled, AccepterAccept, AccepterFail, registry
<1>6. ASSUME NEW c \in Cell, NEW k \in {"tcp", "udp"}, ListenerCancelled(c, k) \/ Disconnect(c, k)
      PROVE  UNCHANGED <<connections, listed>>
  BY <1>6 DEF ListenerCancelled, Disconnect, registry
<1>7. CASE UNCHANGED vars
  BY <1>7 DEF vars, registry
<1> QED BY <1>1, <1>2, <1>3, <1>4, <1>5, <1>6, <1>7 DEF Next

\* An id that is taken is the next one, and a block that is freed has none.
LEMMA IdSteps ==
    ASSUME IdInv, [Next]_vars
    PROVE  /\ nextId \in Nat /\ nextId' \in Nat /\ nextId <= nextId'
           /\ \A c \in Cell : connId'[c] \in {connId[c], nextId, 0}
<1>0. nextId \in Nat /\ connId \in [Cell -> Id] /\ LocalsSet
  BY DEF IdInv, TypeInv, TypeOK
<1> DEFINE Takes == UNCHANGED <<connId, nextId>> \/ \E c \in Cell : TakeId(c) \/ (Release(c) /\ UNCHANGED nextId)
<1>1. Takes
  <2>1. ASSUME NEW t \in App, AppStep(t) \/ AppCall(t)
        PROVE  Takes
    <3>1. ConnectId(t) => arg[t] \in Cell /\ TakeId(arg[t])
      BY <1>0 DEF ConnectId, LocalsSet, Busy, AtConnect
    <3>2. FreeRelease(t) => arg[t] \in Cell /\ Release(arg[t]) /\ UNCHANGED nextId
      BY <1>0 DEF FreeRelease, LocalsSet, Busy, AtFree
    <3> QED
      BY <2>1, <3>1, <3>2 DEF AppStep, AppCall, ConnectList, ConnectAdd, ConnectOk, ConnectFail, ConnectSpawnTcp,
         ConnectSpawnUdp, GetSize, GetElem, GetElemGone, GetReturn, FreeCancel, FreeCancelUnset,
         FreeJoin, ConnectionInit, ConnectCheck, Listen, FreeBegin, GetBegin, heap
  <2>2. ASSUME NEW a \in Cell, AccepterStep(a) \/ AccepterEvent(a)
        PROVE  Takes
    <3>1. AccepterFail(a) => cur[a] \in Cell /\ Release(cur[a]) /\ UNCHANGED nextId
      BY <1>0 DEF AccepterFail, AccepterAt, LocalsSet, Preparing
    <3> QED BY <2>2, <3>1 DEF AccepterStep, AccepterEvent, AccepterPrepare, AccepterCallback, AccepterRegister,
       AccepterSpawnTcp, AccepterSpawnUdp, AccepterCancelled, AccepterAccept, heap
  <2>3. ASSUME NEW c \in Cell, NEW k \in {"tcp", "udp"}, ListenerCancelled(c, k) \/ Disconnect(c, k)
        PROVE  UNCHANGED <<connId, nextId>>
    BY <2>3 DEF ListenerCancelled, Disconnect, heap
  <2>4. CASE UNCHANGED vars
    BY <2>4 DEF vars, heap
  <2> QED BY <2>1, <2>2, <2>3, <2>4 DEF Next
<1>2. CASE UNCHANGED <<connId, nextId>>
  BY <1>0, <1>2
<1>3. ASSUME NEW c \in Cell, TakeId(c)
      PROVE  nextId' = nextId + 1 /\ \A d \in Cell : connId'[d] = connId[d] \/ connId'[d] = nextId
  BY <1>0, <1>3 DEF TakeId
<1>4. ASSUME NEW c \in Cell, Release(c) PROVE \A d \in Cell : connId'[d] \in {connId[d], 0}
  BY <1>0, <1>4 DEF Release, NoId
<1> QED BY <1>0, <1>1, <1>2, <1>3, <1>4

\* A block is set up with a new id, and becomes a worker only when it has been
\* set up.
LEMMA SetUpSteps ==
    ASSUME ServedInv, [Next]_vars, NEW c \in Cell
    PROVE  /\ SetUp(c)' \/ cell'[c] = "raw" => SetUp(c) \/ cell[c] = "raw" \/ connId'[c] = nextId
           /\ cell'[c] = "cs_WORKER" => cell[c] = "cs_WORKER" \/ SetUp(c)
<1>0. /\ thread \in [Cell -> [Kind -> Loc]] /\ cell \in [Cell -> CellState]
      /\ cur \in [Cell -> Cell \cup {NULL}] /\ connId \in [Cell -> Id]
      /\ pc \in [App -> Pc] /\ arg \in [App -> Cell \cup {NULL}]
      /\ "tcp" \in Kind /\ "udp" \in Kind /\ "accepter" \in Kind
      /\ LocalsSet /\ ThreadsFit
  BY DEF ServedInv, LifeInv, TypeInv, TypeOK, Kind
\* A step that moves no thread into the setting up of a connection.
<1>1. ASSUME \A d \in Cell : cell'[d] \in {"raw", "cs_WORKER"} => cell'[d] = cell[d],
             \A t \in App : pc'[t] = "connectNet" => pc[t] = "connectNet" /\ arg'[t] = arg[t],
             \A a \in Cell : thread'[a]["accepter"] \in {"accept", "callback", "register"} =>
                thread[a]["accepter"] \in {"accept", "callback", "register"} /\ cur'[a] = cur[a]
      PROVE  /\ SetUp(c)' \/ cell'[c] = "raw" => SetUp(c) \/ cell[c] = "raw"
             /\ cell'[c] = "cs_WORKER" => cell[c] = "cs_WORKER"
  BY <1>1 DEF SetUp
<1>2. ASSUME NEW t \in App, AppStep(t)
      PROVE  /\ SetUp(c)' \/ cell'[c] = "raw" => SetUp(c) \/ cell[c] = "raw" \/ connId'[c] = nextId
             /\ cell'[c] = "cs_WORKER" => cell[c] = "cs_WORKER" \/ SetUp(c)
  <2>1. CASE ConnectId(t)
    <3>1. arg[t] \in Cell /\ connId'[arg[t]] = nextId
      BY <1>0, <2>1 DEF ConnectId, TakeId, LocalsSet, Busy, AtConnect
    <3>2. SetUp(c)' => SetUp(c) \/ c = arg[t]
      BY <1>0, <2>1 DEF ConnectId, Goto, SetUp, threads
    <3>3. UNCHANGED cell
      BY <2>1 DEF ConnectId
    <3> QED BY <3>1, <3>2, <3>3
  <2>2. CASE ConnectOk(t)
    <3>1. SetUp(c)' => SetUp(c)
      BY <1>0, <2>2 DEF ConnectOk, Goto, SetUp, threads
    <3>2. cell'[c] = cell[c] \/ (c = arg[t] /\ cell'[c] = "cs_WORKER" /\ SetUp(c))
      BY <1>0, <2>2 DEF ConnectOk, SetUp
    <3> QED BY <3>1, <3>2
  <2>3. CASE ConnectList(t) \/ ConnectAdd(t) \/ ConnectFail(t)
    BY <1>0, <1>1, <2>3 DEF ConnectList, ConnectAdd, ConnectFail, Goto, Return, heap, threads
  <2>4. CASE ConnectSpawnTcp(t) \/ ConnectSpawnUdp(t)
    <3>a. PICK k \in {"tcp", "udp"} : thread' = [thread EXCEPT ![arg[t]][k] = "running"]
      BY <2>4 DEF ConnectSpawnTcp, ConnectSpawnUdp, Spawn
    <3>1. \A a \in Cell : thread'[a]["accepter"] = thread[a]["accepter"]
      BY <1>0, <3>a
    <3>2. /\ UNCHANGED <<cell, cur>>
          /\ \A u \in App : pc'[u] = "connectNet" => pc[u] = "connectNet" /\ arg'[u] = arg[u]
      BY <1>0, <2>4 DEF ConnectSpawnTcp, ConnectSpawnUdp, Goto, Return, heap
    <3> QED BY <1>1, <3>1, <3>2
  <2>5. CASE GetSize(t) \/ GetElem(t) \/ GetElemGone(t) \/ GetReturn(t)
    BY <1>0, <1>1, <2>5 DEF GetSize, GetElem, GetElemGone, GetReturn, Goto, Return, heap, threads
  <2>6. CASE FreeCancel(t) \/ FreeCancelUnset(t) \/ FreeRelease(t)
    BY <1>0, <1>1, <2>6 DEF FreeCancel, FreeCancelUnset, FreeRelease, Goto, Return, heap, threads, Release, NextTarget
  <2>7. CASE FreeJoin(t)
    <3>1. \A a \in Cell : thread'[a]["accepter"] \in {"joined", thread[a]["accepter"]}
      BY <1>0, <2>7 DEF FreeJoin
    <3> QED BY <1>0, <1>1, <2>7, <3>1 DEF FreeJoin, Goto, heap, NextTarget
  <2> QED BY <1>2, <2>1, <2>2, <2>3, <2>4, <2>5, <2>6, <2>7 DEF AppStep
<1>3. ASSUME NEW t \in App, AppCall(t)
      PROVE  /\ SetUp(c)' \/ cell'[c] = "raw" => SetUp(c) \/ cell[c] = "raw"
             /\ cell'[c] = "cs_WORKER" => cell[c] = "cs_WORKER"
  <2>1. ASSUME NEW d \in Cell, ConnectionInit(t, d) \/ Listen(t, d)
        PROVE  \A a \in Cell : thread'[a]["accepter"] \in {"none", "prepare", thread[a]["accepter"]}
    BY <1>0, <2>1 DEF ConnectionInit, Listen, NoThreads
  <2>2. ASSUME NEW d \in Cell, ConnectionInit(t, d) \/ Listen(t, d)
        PROVE  /\ \A e \in Cell : cell'[e] \in {"raw", "cs_WORKER"} => cell'[e] = cell[e]
               /\ UNCHANGED <<cur, pc, arg>>
    BY <1>0, <2>2 DEF ConnectionInit, Listen, Malloc, locals
  <2>3. CASE \/ \E d \in Cell : ConnectCheck(t, d) \/ FreeBegin(t, d)
             \/ \E i \in 1..MaxId : GetBegin(t, i)
    BY <1>0, <1>1, <2>3 DEF ConnectCheck, FreeBegin, GetBegin, Goto, heap, threads
  <2> QED BY <1>1, <1>3, <2>1, <2>2, <2>3 DEF AppCall
<1>4. ASSUME NEW a \in Cell, AccepterStep(a) \/ AccepterEvent(a)
      PROVE  /\ SetUp(c)' \/ cell'[c] = "raw" => SetUp(c) \/ cell[c] = "raw" \/ connId'[c] = nextId
             /\ cell'[c] = "cs_WORKER" => cell[c] = "cs_WORKER" \/ SetUp(c)
  <2>1. ASSUME NEW w \in Cell, AccepterPrepare(a, w)
        PROVE  /\ SetUp(c)' \/ cell'[c] = "raw" => SetUp(c) \/ cell[c] = "raw" \/ connId'[c] = nextId
               /\ cell'[c] = "cs_WORKER" => cell[c] = "cs_WORKER" \/ SetUp(c)
    <3>1. \A d \in Cell, i \in Kind :
             thread'[d][i] = IF d = a /\ i = "accepter" THEN "accept" ELSE IF d = w THEN "none" ELSE thread[d][i]
      BY <1>0, <2>1 DEF AccepterPrepare, NoThreads
    <3>2. /\ connId'[w] = nextId /\ cell'[w] = "raw" /\ cur'[a] = w /\ UNCHANGED <<pc, arg>>
          /\ \A d \in Cell : d # w => cell'[d] = cell[d]
          /\ \A b \in Cell : b # a => cur'[b] = cur[b]
      BY <1>0, <2>1 DEF AccepterPrepare, Malloc, TakeId, locals
    <3>3. SetUp(c)' => SetUp(c) \/ c = w
      BY <1>0, <3>1, <3>2 DEF SetUp
    <3> QED BY <3>2, <3>3
  <2>2. CASE AccepterAccept(a) \/ AccepterCallback(a)
    <3>1. PICK l \in {"callback", "register"} : AccepterGoto(a, l)
      BY <2>2 DEF AccepterAccept, AccepterCallback
    <3>2. \A b \in Cell : thread'[b]["accepter"] = IF b = a THEN l ELSE thread[b]["accepter"]
      BY <1>0, <3>1 DEF AccepterGoto
    <3>3. /\ UNCHANGED <<pc, arg, cur>> /\ thread[a]["accepter"] \in {"accept", "callback"}
          /\ cell'[c] = cell[c] \/ (c = cur[a] /\ cell'[c] = "cs_WORKER")
      BY <1>0, <2>2 DEF AccepterAccept, AccepterCallback, AccepterAt, heap, locals
    <3> QED BY <3>2, <3>3 DEF SetUp
  <2>3. CASE AccepterFail(a) \/ AccepterCancelled(a) \/ AccepterRegister(a)
    <3>1. PICK l \in {"prepare", "exited", "spawnTcp"} : AccepterGoto(a, l)
      BY <2>3 DEF AccepterFail, AccepterCancelled, AccepterRegister
    <3>2. \A b \in Cell : thread'[b]["accepter"] = IF b = a THEN l ELSE thread[b]["accepter"]
      BY <1>0, <3>1 DEF AccepterGoto
    <3>3. /\ UNCHANGED <<pc, arg>> /\ \A b \in Cell : b # a => cur'[b] = cur[b]
          /\ \A d \in Cell : cell'[d] \in {"raw", "cs_WORKER"} => cell'[d] = cell[d]
      BY <1>0, <2>3 DEF AccepterFail, AccepterCancelled, AccepterRegister, heap, locals, Release
    <3> QED BY <1>1, <3>2, <3>3
  <2>4. CASE AccepterSpawnTcp(a)
    <3>1. \A b \in Cell : thread'[b]["accepter"] = IF b = a THEN "spawnUdp" ELSE thread[b]["accepter"]
      BY <1>0, <2>4, SpawnTcpThreads DEF ServedInv, LifeInv
    <3>2. UNCHANGED <<cell, cur, pc, arg>>
      BY <2>4 DEF AccepterSpawnTcp, heap, locals
    <3> QED BY <1>1, <3>1, <3>2
  <2>5. CASE AccepterSpawnUdp(a)
    <3>1. \A b \in Cell : thread'[b]["accepter"] = IF b = a THEN "prepare" ELSE thread[b]["accepter"]
      BY <1>0, <2>5, SpawnUdpThreads DEF ServedInv, LifeInv
    <3>2. \A b \in Cell : b # a => cur'[b] = cur[b]
      BY <1>0, <2>5 DEF AccepterSpawnUdp
    <3>3. UNCHANGED <<cell, pc, arg>>
      BY <2>5 DEF AccepterSpawnUdp, heap, locals
    <3> QED BY <1>1, <3>1, <3>2, <3>3
  <2> QED BY <1>4, <2>1, <2>2, <2>3, <2>4, <2>5 DEF AccepterStep, AccepterEvent
<1>5. ASSUME NEW d \in Cell, NEW k \in {"tcp", "udp"}, ListenerCancelled(d, k) \/ Disconnect(d, k)
      PROVE  (SetUp(c)' => SetUp(c)) /\ UNCHANGED cell
  <2>1. \A b \in Cell : thread'[b]["accepter"] = thread[b]["accepter"]
    BY <1>0, <1>5 DEF ListenerCancelled, Disconnect
  <2> QED BY <1>5, <2>1 DEF ListenerCancelled, Disconnect, SetUp, heap, locals
<1>6. CASE UNCHANGED vars
  BY <1>6 DEF vars, heap, threads, locals, SetUp
<1> QED BY <1>2, <1>3, <1>4, <1>5, <1>6 DEF Next

\* Until get is called its loop counter is zero.
LEMMA CountersNext ==
    ASSUME TypeInv, CountersReset, [Next]_vars
    PROVE  CountersReset'
<1>0. pc \in [App -> Pc] /\ idx \in [App -> Nat]
  BY DEF TypeInv, TypeOK
<1>1. ASSUME NEW t \in App, Return(t) PROVE CountersReset'
  BY <1>0, <1>1 DEF CountersReset, Return
<1>2. ASSUME NEW t \in App, NEW l \in Pc \ {"idle"}, Goto(t, l), \A u \in App : u # t => idx'[u] = idx[u]
      PROVE  CountersReset'
  BY <1>0, <1>2 DEF CountersReset, Goto
<1>3. ASSUME UNCHANGED <<pc, idx>> PROVE CountersReset'
  BY <1>3 DEF CountersReset
<1>4. ASSUME NEW t \in App, AppStep(t) PROVE CountersReset'
  <2>1. CASE ConnectFail(t) \/ ConnectSpawnUdp(t) \/ GetReturn(t) \/ FreeRelease(t)
    BY <1>1, <2>1 DEF ConnectFail, ConnectSpawnUdp, GetReturn, FreeRelease
  <2>2. CASE \/ ConnectList(t) \/ ConnectAdd(t) \/ ConnectId(t) \/ ConnectOk(t) \/ ConnectSpawnTcp(t)
             \/ FreeCancel(t) \/ FreeCancelUnset(t) \/ FreeJoin(t)
    <3>1. \E l \in Pc \ {"idle"} : Goto(t, l)
      BY <2>2 DEF ConnectList, ConnectAdd, ConnectId, ConnectOk, ConnectSpawnTcp, FreeCancel, FreeCancelUnset,
         FreeJoin, Pc, NextTarget
    <3>2. UNCHANGED idx
      BY <2>2 DEF ConnectList, ConnectAdd, ConnectId, ConnectOk, ConnectSpawnTcp, FreeCancel, FreeCancelUnset,
         FreeJoin
    <3> QED BY <1>2, <3>1, <3>2
  <2>3. CASE GetSize(t) \/ GetElem(t) \/ GetElemGone(t)
    <3>1. \E l \in Pc \ {"idle"} : Goto(t, l)
      BY <2>3 DEF GetSize, GetElem, GetElemGone, Pc
    <3>2. \A u \in App : u # t => idx'[u] = idx[u]
      BY <1>0, <2>3 DEF GetSize, GetElem, GetElemGone
    <3> QED BY <1>2, <3>1, <3>2
  <2> QED BY <1>4, <2>1, <2>2, <2>3 DEF AppStep
<1>5. ASSUME NEW t \in App, AppCall(t) PROVE CountersReset'
  <2>1. CASE \E c \in Cell : ConnectionInit(t, c) \/ Listen(t, c)
    BY <1>3, <2>1 DEF ConnectionInit, Listen, locals
  <2>2. CASE \/ \E c \in Cell : ConnectCheck(t, c) \/ FreeBegin(t, c)
             \/ \E i \in 1..MaxId : GetBegin(t, i)
    <3>1. \E l \in Pc \ {"idle"} : Goto(t, l)
      BY <2>2 DEF ConnectCheck, FreeBegin, GetBegin, Goto, Pc
    <3>2. UNCHANGED idx
      BY <2>2 DEF ConnectCheck, FreeBegin, GetBegin
    <3> QED BY <1>2, <3>1, <3>2
  <2> QED BY <1>5, <2>1, <2>2 DEF AppCall
<1>6. ASSUME NEW a \in Cell, AccepterStep(a) \/ AccepterEvent(a) PROVE CountersReset'
  BY <1>3, <1>6 DEF AccepterStep, AccepterEvent, AccepterPrepare, AccepterCallback, AccepterRegister,
     AccepterSpawnTcp, AccepterSpawnUdp, AccepterCancelled, AccepterAccept, AccepterFail, locals
<1>7. ASSUME NEW c \in Cell, NEW k \in {"tcp", "udp"}, ListenerCancelled(c, k) \/ Disconnect(c, k)
      PROVE  CountersReset'
  BY <1>3, <1>7 DEF ListenerCancelled, Disconnect, locals
<1>8. CASE UNCHANGED vars
  BY <1>3, <1>8 DEF vars, locals
<1> QED BY <1>4, <1>5, <1>6, <1>7, <1>8 DEF Next

\* A thread that scans goes on with the same worker; it has compared the
\* entries it has passed, or has just begun.
LEMMA ScanSteps ==
    ASSUME TypeInv, CountersReset, [Next]_vars, NEW u \in App, Scanning(u)'
    PROVE  \/ /\ Scanning(u) /\ due'[u] = due[u] /\ want'[u] = want[u]
              /\ \/ idx'[u] = idx[u]
                 \/ /\ idx'[u] = idx[u] + 1 /\ idx[u] < Len(connections)
                    /\ Reads(connections[idx[u] + 1]) # {want[u]}
           \/ \E i \in 1..MaxId : GetBegin(u, i) /\ want'[u] = i /\ idx'[u] = 0 /\ connections # NULL
                 /\ due'[u] = IF Findable(i) = {} THEN NULL ELSE CHOOSE c \in Findable(i) : TRUE
<1>0. /\ pc \in [App -> Pc] /\ idx \in [App -> Nat] /\ due \in [App -> Cell \cup {NULL}]
      /\ want \in [App -> Id]
  BY DEF TypeInv, TypeOK
<1> DEFINE Same == Scanning(u) /\ due'[u] = due[u] /\ want'[u] = want[u] /\ idx'[u] = idx[u]
<1>1. ASSUME NEW t \in App, AppStep(t), ~GetElem(t) \/ u # t PROVE Same
  <2>1. CASE u = t
    <3>1. GetSize(t)
      BY <1>0, <1>1, <2>1 DEF Scanning, AppStep, ConnectList, ConnectAdd, ConnectId, ConnectOk, ConnectFail,
         ConnectSpawnTcp, ConnectSpawnUdp, GetElemGone, GetReturn, FreeCancel, FreeCancelUnset,
         FreeJoin, FreeRelease, Goto, Return, NextTarget
    <3> QED BY <2>1, <3>1 DEF GetSize, Scanning
  <2>2. CASE u # t
    <3>1. pc'[u] = pc[u]
      BY <1>0, <1>1, <2>2 DEF AppStep, ConnectList, ConnectAdd, ConnectId, ConnectOk, ConnectFail,
         ConnectSpawnTcp, ConnectSpawnUdp, GetSize, GetElem, GetElemGone, GetReturn, FreeCancel, FreeCancelUnset,
         FreeJoin, FreeRelease, Goto, Return, NextTarget
    <3>2. due'[u] = due[u] /\ want'[u] = want[u] /\ idx'[u] = idx[u]
      BY <1>0, <1>1, <2>2 DEF AppStep, ConnectList, ConnectAdd, ConnectId, ConnectOk, ConnectFail,
         ConnectSpawnTcp, ConnectSpawnUdp, GetSize, GetElem, GetElemGone, GetReturn, FreeCancel, FreeCancelUnset,
         FreeJoin, FreeRelease, Return
    <3> QED BY <3>1, <3>2 DEF Scanning
  <2> QED BY <2>1, <2>2
<1>2. ASSUME GetElem(u)
      PROVE  /\ Scanning(u) /\ due'[u] = due[u] /\ want'[u] = want[u] /\ idx'[u] = idx[u] + 1
             /\ idx[u] < Len(connections) /\ Reads(connections[idx[u] + 1]) # {want[u]}
  <2>1. PICK id \in Reads(connections[idx[u] + 1]) :
           IF id = want[u] THEN Goto(u, "found") ELSE idx' = [idx EXCEPT ![u] = @ + 1]
    BY <1>2 DEF GetElem
  <2>2. pc'[u] # "found"
    BY DEF Scanning
  <2>3. id # want[u]
    BY <1>0, <2>1, <2>2 DEF Goto
  <2>4. Reads(connections[idx[u] + 1]) # {want[u]}
    BY <2>3
  <2>5. idx'[u] = idx[u] + 1
    BY <1>0, <2>1, <2>3
  <2> QED BY <1>0, <1>2, <2>4, <2>5 DEF GetElem, Scanning
<1>3. ASSUME NEW t \in App, AppCall(t), \A i \in 1..MaxId : ~GetBegin(t, i) \/ u # t PROVE Same
  <2>1. ASSUME NEW c \in Cell, ConnectionInit(t, c) \/ Listen(t, c) PROVE Same
    BY <2>1 DEF ConnectionInit, Listen, locals, Scanning
  <2>2. ASSUME NEW c \in Cell, ConnectCheck(t, c) \/ FreeBegin(t, c) PROVE Same
    BY <1>0, <2>2 DEF ConnectCheck, FreeBegin, Goto, Scanning
  <2>3. ASSUME NEW i \in 1..MaxId, GetBegin(t, i), u # t PROVE Same
    BY <1>0, <2>3 DEF GetBegin, Scanning
  <2> QED BY <1>3, <2>1, <2>2, <2>3 DEF AppCall
<1>4. ASSUME NEW i \in 1..MaxId, GetBegin(u, i)
      PROVE  /\ want'[u] = i /\ idx'[u] = 0 /\ connections # NULL
             /\ due'[u] = IF Findable(i) = {} THEN NULL ELSE CHOOSE c \in Findable(i) : TRUE
  <2>1. connections # NULL
    BY <1>0, <1>4 DEF GetBegin, Scanning
  <2>2. pc[u] = "idle" /\ idx' = idx
    BY <1>4 DEF GetBegin, MayCall
  <2>3. want'[u] = i
    BY <1>0, <1>4 DEF GetBegin
  <2>4. due'[u] = IF Findable(i) = {} THEN NULL ELSE CHOOSE c \in Findable(i) : TRUE
    BY <1>0, <1>4 DEF GetBegin
  <2> QED BY <2>1, <2>2, <2>3, <2>4 DEF CountersReset
<1>5. ASSUME \/ \E a \in Cell : AccepterStep(a) \/ AccepterEvent(a)
             \/ \E c \in Cell, k \in {"tcp", "udp"} : ListenerCancelled(c, k) \/ Disconnect(c, k)
             \/ UNCHANGED vars
      PROVE  Same
  <2>1. UNCHANGED locals
    BY <1>5 DEF AccepterStep, AccepterEvent, AccepterPrepare, AccepterCallback, AccepterRegister,
       AccepterSpawnTcp, AccepterSpawnUdp, AccepterCancelled, AccepterAccept, AccepterFail,
       ListenerCancelled, Disconnect, vars
  <2> QED BY <2>1 DEF locals, Scanning
<1> QED BY <1>1, <1>2, <1>3, <1>4, <1>5 DEF Next

\* What is listed keeps its entry, or is no longer listed.
LEMMA ListedInNext ==
    ASSUME TypeInv, ListedIn, [Next]_vars
    PROVE  ListedIn'
<1>0. listed \subseteq Cell /\ <<>> \in Seq(Cell)
  BY CellFacts DEF TypeInv, TypeOK
<1>1. CASE UNCHANGED connections /\ listed' \subseteq listed
  BY <1>1 DEF ListedIn, InList
<1>2. CASE listed' = {}
  BY <1>2 DEF ListedIn
<1>3. ASSUME NEW c \in Cell, Lists(c) PROVE ListedIn'
  <2>1. InList(c)' /\ \A d \in Cell : InList(d) => InList(d)'
    BY <1>3, RegisterAdds DEF Lists
  <2>2. connections' # NULL /\ listed' = listed \cup {c}
    BY <1>0, <1>3, RegisterType DEF Lists, Register
  <2> QED BY <1>0, <2>1, <2>2 DEF ListedIn
<1> QED BY <1>1, <1>2, <1>3, ListSteps

\* Who can be found with an id that was handed out before, could be found
\* before the step, or was being set up.
LEMMA FindableBefore ==
    ASSUME ServedInv, IdInv, [Next]_vars, NEW i \in Nat \ {0}, i < nextId, NEW c \in Findable(i)'
    PROVE  c \in Findable(i) \/ (SetUp(c) /\ connId[c] = i)
<1>0. c \in listed' /\ cell'[c] = "cs_WORKER" /\ connId'[c] = i /\ c \in Cell
  BY NextTypeInv DEF Findable, ServedInv, LifeInv, TypeInv, TypeOK
<1>1. connId[c] = i
  BY <1>0, IdSteps
<1>2. cell[c] = "cs_WORKER" \/ SetUp(c)
  BY <1>0, SetUpSteps
<1>3. c \in listed \/ SetUp(c)
  <2>0. TypeInv
    BY DEF IdInv
  <2>1. CASE listed' \subseteq listed \/ listed' = {}
    BY <1>0, <2>1
  <2>2. ASSUME NEW d \in Cell, Lists(d)
        PROVE  c \in listed \/ SetUp(c)
    <3>1. c \in listed \/ c = d
      BY <1>0, <2>2 DEF Lists, Register
    <3>2. c = d => SetUp(c)
      BY <1>0, <2>2 DEF Lists, ServedInv, LifeInv, ConnectFits
    <3> QED BY <3>1, <3>2
  <2> QED BY <2>0, <2>1, <2>2, ListSteps
<1> QED BY <1>1, <1>2, <1>3 DEF Findable

\* A worker that can be found is not being set up.
LEMMA FindableNotSetUp ==
    ASSUME ServedInv, NEW i, NEW c \in Findable(i)
    PROVE  c \in Cell /\ ~SetUp(c) /\ cell[c] = "cs_WORKER" /\ c \in listed /\ connId[c] = i
BY DEF Findable, SetUp, ServedInv, ServedFits, LifeInv, ConnectFits, TypeInv, TypeOK

\* What get begins with.
LEMMA BeginDue ==
    ASSUME ServedInv, IdInv, NEW i \in 1..MaxId,
           NEW c, c = (IF Findable(i) = {} THEN NULL ELSE CHOOSE d \in Findable(i) : TRUE), c # NULL
    PROVE  c \in Findable(i) /\ i < nextId
<1>1. c \in Findable(i)
  OBVIOUS
<1> QED BY <1>1, FindableNotSetUp DEF IdInv, IdsDistinct

\* Before a step too, the worker that is looked up after it was not being set
\* up with the id that is looked for.
LEMMA DueSoFar ==
    ASSUME GetInv, [Next]_vars, NEW u \in App, Scanning(u)', NEW c \in Cell, c = due'[u], NEW w, w = want'[u]
    PROVE  0 < w /\ w < nextId /\ (connId[c] = w => ~SetUp(c) /\ cell[c] # "raw")
<1>0. TypeInv /\ CountersReset /\ NULL \notin Cell
  BY CellFacts DEF GetInv, ServedInv, LifeInv
<1>1. CASE Scanning(u) /\ due'[u] = due[u] /\ want'[u] = want[u]
  BY <1>0, <1>1 DEF GetInv, DueOnce
<1>2. ASSUME NEW i \in 1..MaxId, want'[u] = i,
             due'[u] = IF Findable(i) = {} THEN NULL ELSE CHOOSE d \in Findable(i) : TRUE
      PROVE  0 < w /\ w < nextId /\ (connId[c] = w => ~SetUp(c) /\ cell[c] # "raw")
  <2>1. c \in Findable(i) /\ i < nextId
    BY <1>0, <1>2, BeginDue DEF GetInv
  <2> QED BY <1>2, <2>1, FindableNotSetUp DEF GetInv
<1> QED BY <1>0, <1>1, <1>2, ScanSteps

\* A worker that has lost its place or its life does not come back with its id.
LEMMA DueOnceNext ==
    ASSUME GetInv, [Next]_vars
    PROVE  DueOnce'
<1> SUFFICES ASSUME NEW u \in App, Scanning(u)', due'[u] # NULL, NEW c, c = due'[u], NEW w, w = want'[u]
             PROVE  /\ 0 < w /\ w < nextId'
                    /\ connId'[c] = w => ~SetUp(c)' /\ cell'[c] # "raw"
  BY DEF DueOnce
<1>0. TypeInv /\ CountersReset /\ TypeInv'
  BY NextTypeInv DEF GetInv, ServedInv, LifeInv
<1>1. c \in Cell /\ w \in Nat /\ nextId \in Nat /\ nextId' \in Nat /\ nextId <= nextId'
  BY <1>0, IdSteps DEF GetInv, TypeInv, TypeOK, Id
<1>2. 0 < w /\ w < nextId /\ (connId[c] = w => ~SetUp(c) /\ cell[c] # "raw")
  BY <1>0, <1>1, DueSoFar
<1>3. ASSUME connId'[c] = w PROVE ~SetUp(c)' /\ cell'[c] # "raw"
  <2>1. connId'[c] # nextId /\ connId[c] = w
    BY <1>1, <1>2, <1>3, IdSteps DEF GetInv
  <2>2. SetUp(c)' \/ cell'[c] = "raw" => SetUp(c) \/ cell[c] = "raw" \/ connId'[c] = nextId
    BY <1>1, SetUpSteps DEF GetInv
  <2> QED BY <1>2, <2>1, <2>2
<1> QED BY <1>1, <1>2, <1>3

\* The entry that is looked for stays ahead of the scan.
LEMMA AheadNext ==
    ASSUME GetInv, [Next]_vars
    PROVE  Ahead'
<1> SUFFICES ASSUME NEW u \in App, Scanning(u)', StillDue(u)', NEW c, c = due'[u], NEW w, w = want'[u]
             PROVE  \E n \in DOMAIN connections' : n > idx'[u] /\ connections'[n] = c
  BY DEF Ahead
<1>0. TypeInv /\ TypeOK /\ CountersReset /\ TypeInv' /\ NULL \notin Cell
  BY NextTypeInv, CellFacts DEF GetInv, ServedInv, LifeInv, TypeInv
<1>1. c \in Findable(w)' /\ c \in Cell /\ w \in Nat /\ idx[u] \in Nat
  <2>1. c \in Findable(w)'
    BY DEF StillDue, Findable
  <2> QED BY <1>0, <2>1 DEF Findable, TypeInv, TypeOK, Id
<1>2. 0 < w /\ w < nextId /\ (connId[c] = w => ~SetUp(c))
  BY <1>1, DueSoFar
<1>3. c \in Findable(w)
  BY <1>1, <1>2, FindableBefore DEF GetInv
<1>4. connections \in Seq(Cell) /\ connId[c] = w /\ c \in listed
  BY <1>0, <1>3 DEF Findable, GetInv, ListedIn, TypeOK
\* Before the step the entry is ahead of the new place.
<1>5. \E n \in DOMAIN connections : n > idx'[u] /\ connections[n] = c
  <2>1. CASE Scanning(u) /\ due'[u] = due[u] /\ want'[u] = want[u]
             /\ (idx'[u] = idx[u] \/ (idx'[u] = idx[u] + 1 /\ idx[u] < Len(connections)
                                      /\ Reads(connections[idx[u] + 1]) # {want[u]}))
    <3>1. PICK n \in DOMAIN connections : n > idx[u] /\ connections[n] = c
      BY <1>3, <2>1 DEF GetInv, Ahead, StillDue
    <3>2. n \in Nat
      BY <1>4, LenProperties
    <3>b. Reads(c) = {w}
      BY <1>1, <1>2, <1>4 DEF Reads, NoId
    <3>3. n > idx'[u]
      BY <1>1, <1>4, <2>1, <3>b, <3>1, <3>2
    <3> QED BY <3>1, <3>3
  <2>2. CASE idx'[u] = 0
    <3>1. PICK n \in DOMAIN connections : connections[n] = c
      BY <1>4 DEF GetInv, ListedIn, InList
    <3>2. n \in Nat /\ n > 0
      BY <1>4, <3>1, LenProperties
    <3> QED BY <2>2, <3>1, <3>2
  <2> QED BY <1>0, <2>1, <2>2, ScanSteps
<1>6. CASE UNCHANGED connections
  BY <1>5, <1>6
<1>7. CASE listed' = {}
  BY <1>1, <1>7 DEF Findable
<1>8. ASSUME NEW d \in Cell, Lists(d)
      PROVE  \E n \in DOMAIN connections' : n > idx'[u] /\ connections'[n] = c
  <2>1. PICK n \in DOMAIN connections : n > idx'[u] /\ connections[n] = c
    BY <1>5
  <2>2. n \in DOMAIN connections' /\ connections'[n] = connections[n]
    BY <1>4, <1>8, AppendProperties, LenProperties DEF Lists, Register
  <2> QED BY <2>1, <2>2
<1> QED BY <1>0, <1>6, <1>7, <1>8, ListSteps

\* Who takes a get to its answer is its own thread.
LEMMA GetOutcome ==
    ASSUME TypeOK, [Next]_vars, NEW t \in App, pc[t] = "getSize", pc'[t] = "notFound"
    PROVE  GetSize(t)
<1>0. pc \in [App -> Pc]
  BY DEF TypeOK
<1>1. ASSUME NEW u \in App, AppStep(u) PROVE GetSize(t)
  BY <1>0, <1>1 DEF AppStep, ConnectList, ConnectAdd, ConnectId, ConnectOk, ConnectFail,
     ConnectSpawnTcp, ConnectSpawnUdp, GetSize, GetElem, GetElemGone, GetReturn, FreeCancel, FreeCancelUnset,
     FreeJoin, FreeRelease, NextTarget, Goto, Return
<1>2. ASSUME NEW u \in App, AppCall(u) PROVE FALSE
  BY <1>0, <1>2 DEF AppCall, ConnectionInit, ConnectCheck, Listen, FreeBegin, GetBegin, MayCall, Goto, locals
<1>3. ASSUME \/ \E a \in Cell : AccepterStep(a) \/ AccepterEvent(a)
             \/ \E c \in Cell, k \in {"tcp", "udp"} : ListenerCancelled(c, k) \/ Disconnect(c, k)
             \/ UNCHANGED vars
      PROVE  FALSE
  BY <1>3 DEF AccepterStep, AccepterEvent, AccepterPrepare, AccepterCallback, AccepterRegister,
     AccepterSpawnTcp, AccepterSpawnUdp, AccepterCancelled, AccepterAccept, AccepterFail,
     ListenerCancelled, Disconnect, vars, locals
<1> QED BY <1>1, <1>2, <1>3 DEF Next

\* get does not give up on a worker that is in the list from its call to then.
THEOREM GetFindsAlways == Spec => GetFindsRegistered
<1> DEFINE I == TypeInv /\ (early \/ GetInv)
<1>1. Init => I
  <2>1. Init => ServedFits /\ ListedIn /\ CountersReset /\ DueOnce /\ Ahead
    BY DEF Init, ServedFits, ListedIn, CountersReset, DueOnce, Ahead, Scanning, Kind
  <2> QED BY <2>1, InitTypeInv, InitLife, InitIdInv DEF GetInv, ServedInv
<1>2. I /\ [Next]_vars => I'
  <2> SUFFICES ASSUME I, [Next]_vars, ~early' PROVE GetInv'
    BY NextTypeInv
  <2>0. GetInv
    BY EarlyStays
  <2>1. ServedInv' /\ IdInv'
    BY <2>0, ServedNext, NextIdLife DEF GetInv, ServedInv
  <2>2. ListedIn' /\ CountersReset'
    BY <2>0, ListedInNext, CountersNext DEF GetInv, IdInv
  <2> QED BY <2>0, <2>1, <2>2, DueOnceNext, AheadNext DEF GetInv
<1> DEFINE Finds(t) == pc[t] = "getSize" /\ pc'[t] = "notFound" => early \/ ~StillDue(t)
<1>3. I /\ [Next]_vars => \A t \in App : Finds(t)
  <2> SUFFICES ASSUME GetInv, [Next]_vars, NEW t \in App,
                      pc[t] = "getSize", pc'[t] = "notFound", StillDue(t)
               PROVE  FALSE
    OBVIOUS
  <2>0. TypeOK /\ pc \in [App -> Pc] /\ idx \in [App -> Nat] /\ connections \in Seq(Cell)
    BY DEF GetInv, IdInv, TypeInv, TypeOK, ListExists
  <2>1. GetSize(t)
    BY <2>0, GetOutcome
  <2>2. idx[t] >= Len(connections)
    BY <2>0, <2>1, LenProperties DEF GetSize, Goto
  <2>3. PICK n \in DOMAIN connections : n > idx[t]
    BY DEF GetInv, Ahead, Scanning
  <2> QED BY <2>0, <2>2, <2>3, LenProperties
<1>4. I /\ [Next]_vars => [\A t \in App : Finds(t)]_vars
  BY <1>3
<1> QED BY <1>1, <1>2, <1>4, PTL DEF Spec, GetFindsRegistered

=============================================================================
