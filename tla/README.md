# Verification of the 2020 core code

This directory holds TLA+ models of the core code of the robot and field
control system: its network layer, its collections and its I2C bus. The models are checked
with TLC; every invariant and every action property that the runs check is also proved with TLAPS. Paths such as `network/lowlevel.c` are
relative to `src/`.

## 1. The system

The repository is a C library. The field management system, the robots and
the driver stations are other programs that link it; `doc/ControlProtocol`
describes the messages they exchange. The library has no main loop: what runs
concurrently are the application's own threads, the threads that
`network/lowlevel.c` creates, and the peer at the other end of a socket.

| part | source | state | operations |
|---|---|---|---|
| connection life cycle | `network/lowlevel.c` | the global list `connections`, `next_connection_id` and its mutex; per connection `state`, `connection_id`, sockets, two listener threads or an accepter thread | `llnet_connection_init`, `_get`, `_connect`, `_listen`, `_free`, the accepter thread |
| TCP data path | `network/lowlevel.c` | the byte stream; the packet being read; `tcp_status`; `*rc` and `*finished` of a send thread | `llnet_connection_send`, `_send_thread`, `_llnet_pckt_send`, `_llnet_listener_tcp` |
| UDP data path | `network/lowlevel.c` | datagrams; `other_addr`; `udp_status` | the same calls with `np_UDP`, `_llnet_listener_udp` |
| array list | `collections/arraylist.c` | an array, its length and allocated size, `err`, a recursive mutex | add, get, remove, size, free |
| linked list | `collections/linkedlist.c` | doubly linked nodes, `first`, `last`, `err`, a recursive mutex | add, get, remove, size, free |
| list, stack | `collections/list.c`, `stack.c` | the `impl` field of the handle | the calls of the list it selects; push, pop, peek |
| queue | `collections/queue.c` | a linked list and a condition variable | enqueue, dequeue, peek, block |
| hash table | `collections/hashtable.c` | key and value arrays, count, hash functions; no lock | put, get, remove, replace, contains, keys |
| packet handlers, net utilities | `network/packethandlers.c`, `netutils.c` | heap: raw and unpacked packets, lists of keys and of key-value pairs | unpack and destroy for nine packet types |
| message handler | `network/messagehandler.c` | a stub, in no build target | |
| I2C bus | `i2c/i2cUtils.c` | a file descriptor, the slave the kernel has selected on it, and a copy of that, `currentSlave` | create, initSlave, read and write of bytes, words and buffers, destroy |
| constants, debug, tests | `network/packet.h`, `game`, `serial`, `utils`, `test` | none | |

How they interact. An application thread calls the `llnet` API. `listen` starts
an accepter thread, which creates a worker connection for each client, calls
the application back (`on_connect`), adds the worker to `connections` and starts
a TCP and a UDP listener thread for it; `connect` does the same in the caller's
thread for the client's side. A listener cuts the stream into packets and calls
the application back (`on_packet`) with the connection's id, which the
application turns into a connection with `llnet_connection_get`; the callback
owns the packet and passes it to an unpack function of `packethandlers.c`, which frees it and
returns an unpacked packet that somebody destroys later. The list
`connections` is an array list and is shared by all of these threads; its mutex
protects one call, not a sequence of calls. `free` cancels and joins the
threads of a connection and frees the structure.

Hard behaviours, in order of weight:

1. interleavings of application threads, accepters and listeners over a list
   and an id counter that are locked call by call, while structures are freed;
2. cancellation of a thread that is half-way through setting up a connection;
3. a byte stream that is split and cut where the code does not expect it, and
   is written by several threads;
4. calls of the collections that are legal one by one and break an internal
   structure together (probe runs, growing, middle insertion);
5. waiting on a condition variable with several consumers;
6. packets whose length does not fit what was received, or what their type needs, and
   parsers with many allocations, each of which may fail;
7. a bus on which selecting a slave and talking to it are separate system calls.

What makes each part correct:

- life cycle: ids are unique; the entry of a connection that is served is in the list with its id,
  and a get for it does not give up; what get can find is served; free leaves no
  thread behind and returns;
- data path: packets come out whole, once, in order; the end of a connection is
  noticed; a send thread reports before it says that it has finished;
- collections: each call does to the abstract list, map or queue what its
  header says, under failing allocations too;
- queue: a consumer that blocks while there are elements does not block for ever;
- packets: a handler reads inside the payload, gets on in it with each turn of a loop, finds every
  entry of a list once, and frees what it must on every path;
- I2C: a transfer goes to the slave its caller named, and results tell what happened.

The hazards of the code are listed, each at its line, in `PROJECT.json`.

## 2. The modules

| module | models | role |
|---|---|---|
| `LLNet` | `network/lowlevel.c`, life cycle | state machine of all threads |
| `MCLLNet` | | TLC instance: the programs that use the API |
| `LLNetProofs`, `LLNetLifeProofs` | | theorems about `LLNet` |
| `TCPStream` | `network/lowlevel.c`, TCP data path | state machine of senders, stream, listener |
| `PacketChannel` | | abstract: packets delivered once and in order |
| `MCTCPStream` | | TLC instance |
| `TCPStreamProofs` | | theorems about `TCPStream` |
| `PacketHandlers` | `network/packethandlers.c`, `netutils.c` | actions of one handler on the heap |
| `PacketReceiver` | `network/lowlevel.c`, UDP listener, and the application | composes them: listener, network, handler, consumer |
| `MCPacketReceiver`, `PacketProofs` | | TLC instance: the packets; theorems about `PacketReceiver` |
| `AbstractList` | `collections/list.h` | abstract: a sequence, with its errors |
| `ArrayList` | `collections/arraylist.c` | implements `AbstractList` |
| `LinkedList` | `collections/linkedlist.c` | a heap of nodes, compared with `AbstractList` |
| `ListDispatch` | `collections/list.c`, `stack.c`, `queue.c` | composes the two lists under one handle |
| `MCListDispatch`, `ListProofs` | | TLC instance, theorems about both lists, the stack and the queue |
| `Queue` | `collections/queue.c` | threads over an `AbstractList` and a condition variable |
| `MCQueue`, `QueueProofs` | | TLC instance, theorems |
| `AbstractMap` | `collections/hashtable.h` | abstract: a finite map |
| `HashTable` | `collections/hashtable.c` | compared with `AbstractMap` |
| `MCHashTable`, `HashTableProofs` | | TLC instance, theorems |
| `I2CBus` | `i2c/i2cUtils.c` | threads on one bus |
| `MCI2CBus`, `I2CProofs` | | TLC instance, theorems |

### LLNet

A process is a thread: an application thread `t` (with `pc[t]` and its locals
`arg`, `target`, `want`, `idx`), the accepter thread of an accepter connection,
the two listeners of a worker (`thread[c][kind]`). A step is what a thread does
between two accesses to memory another thread uses: one call of the array list,
the critical section of the id counter, the change of `state`, one
`pthread_create`, `pthread_cancel` or `pthread_join`. So `connect` is
`ConnectCheck`, `ConnectList`, `ConnectAdd`, `ConnectId`, `ConnectOk` or
`ConnectFail`, `ConnectSpawnTcp`, `ConnectSpawnUdp`, in the order of the code.

Memory is a heap of `Blocks` blocks. What a block holds after it was freed is not the connection's:
`Release` takes its id away (`NoId`), and a read of an id that no `TakeId` has written since can find
any (`Reads`). So the entry that `free` leaves in the list, and the one that `connect` makes before it
assigns the id, may look like any connection to get. `malloc` may return a freed block again. The
history variables are `listed` (blocks that were added to the current list in
their current life), `replaced` (the list has been overwritten), `due` (the
worker that was in the list with the id when get was called) and `early` (a worker was freed before
its listeners were created).

A worker can be freed from `on_connect` on, when the accepter has not assigned its two `pthread_t`
yet. `FreeCancelUnset` is what `pthread_cancel` and `pthread_join` may do with what the fields hold: follow a
wild pointer, or fail, which nobody looks at, so that free goes on and releases the block in which
the accepter then creates both listeners. From then on `early` is TRUE and the safety properties
claim nothing. A third possibility, that the field holds the `pthread_t` of another live thread, which
is then cancelled and joined, is left out.

Choices: `realloc` in connect and listen keeps the block; a bind failure in
listen and a failing `malloc` or `socket` end the process and are left out;
`arraylist_add` does not run out of memory; reading a local pointer or an
`int` is atomic; a read of a freed block, or of an id that is not assigned, finds something and does
not cost the process. A NULL pointer that is used leads to `pc = "fault"`; a wild one may.
The caller's contract, guard `Free`, is that two application threads do not
connect, listen or free one connection at the same time. Cancellation is
deferred, as the code asks for: a thread with a pending cancel ends at `accept`,
`read`, `recvfrom` or in a callback that contains a cancellation point.

### TCPStream and PacketChannel

A byte is a pair of a packet and an offset. `SendWrite` appends a whole packet
in one step, as the code hands the buffer to one `write`. The peer may close at any
time (`Close`) and what is cut off is lost. The listener goes through `header`,
`stamp`, `data` and `handler`. `Takes` says how many bytes a `read` returns: any
positive number, except that fields in the constant `Whole` come in one piece.
The code has a loop only for the data and assumes whole header words (its comment
"assume no errors"), so the runs set `Whole = {"header", "stamp"}`.
A call on a connection that is no worker yet is refused (`SendRefused`): it stores an error in `*rc` and
never sets `*finished`; no line of the repository says that it does. When the stream ends inside the
data, `ReadDataEnd` frees the packet and the handler is called with it; `Handle` then returns, or
the process is lost (`lpc = "fault"`), since the handlers of this library read the packet and free it again.
`tlv->data` holds, for each place, the offset of the byte that is in it, which is
how `ReadData` shows that every read writes to the start of the buffer.

### PacketHandlers and PacketReceiver

One end of a connection: a listener, which allocates a packet (`Begin`), receives into it and
calls the handler of its type; the handler; and a consumer. The handler of a type is the
sequence of what it does (`unpackDebug == <<"base", "data", "arbitrary", "release">>`), and each
element of it is an action in which every allocation may fail. An object on the heap is
the slot of its packet and what it is; what belongs to an element of a list is named by the place
of the element. So freeing twice, using what is not there, and leaking are visible. An element
that could not be added to its list is out of reach: it stays on the heap as `Obj(slot, "lost")`, and `lost`
says so. A payload is its length, what of it was received, and where the entries of a list in
it begin and end; the value of a byte matters only in the length of an entry (`LengthFrom`,
with `char` signed or not). A parser at a byte where no entry begins (`Astray`), a copy beyond the
payload, a read of a fixed field beyond it (`FieldsOutside`), a use of a freed packet (`UseFreed`), a copy to
NULL and a use of a NULL list end the behaviour with a `fault`. A read of fixed fields beyond the payload may
also find memory of the program and go unnoticed (`AllocateData`); `unset` says which parts of
a packet come from bytes that were not received.

`PacketReceiver` has packets from TCP (how they are read is `TCPStream`): whole ones, ones that came in
pieces, of which only as many bytes are written as the longest has (`TCPReceive`, bounded by `Piece`), and
ones that were freed because the stream ended inside them (`TCPReceiveCut`). Or it has the UDP
listener on a network that loses, duplicates and reorders datagrams, and in which other
programs send some of any size. Addresses are named after the end whose TCP socket has them;
`BoundTo` is what the code binds the UDP socket of an end to.

### ArrayList and AbstractList

Every call holds the mutex from its first access to its last, so it is one
step, and the interleavings of callers are interleavings of calls. `AbstractList`
is a sequence with the error codes of `list.h`, failures of memory included. One
of them, `RemoveUnpaid`, is what the code does when the shrinking realloc fails:
the element is gone and NULL is returned.

### ListDispatch

One handle: an array list, a linked list, a stack or a queue (`impl`). It EXTENDS `ArrayList`, has the
variables of a linked list beside it (an INSTANCE of `LinkedList`), and each call of `list.c` is
the disjunction of the calls it selects. So the properties of both lists are checked
through the calls that applications use, and through those of `linkedlist.h` that `list.h` lacks.
A stack is a handle that is used through `stack.h` only, and a queue one that is used through `queue.h`
only, its condition variable left aside.

### LinkedList

`heap` maps the addresses that are allocated to nodes; a freed address may be
allocated again, so a dangling pointer can come to point to a new node. A loop
over the nodes is a recursive function from the number of its steps to the node it
has reached (`Walk`), which tells a walk that ends at NULL from one that goes
round and one that reaches a freed node. `InsertBetween` is the middle
insertion as written, and everything that can follow from the broken links is in
the state graph: a later call may still work, go round for ever with the mutex
(`Endless`), use freed memory or NULL (`Fault`), or return with the mutex locked
(`InsertLocked`). The last three end the behaviour, and `linkedlist_free` does; hence
`CHECK_DEADLOCK FALSE`. The history variable `between` records that an element was
inserted between two others; what the list promises is stated until then.

### Queue

`Queue` takes its list to be an `AbstractList`, which `KeepsOrder` of `ListDispatch` justifies: on the
linked list, each call of a queue is the step that `Queue` has for it. So
`queue_enqueue` is `List!AddPos(0, e)`, `queue_dequeue` the removal of the last position,
and `queue_block` looks with `List!Get(0)`. The mutex needs no variable: a call of the
list is one step, and so is the test in `queue_block` with the
`pthread_cond_wait` that releases the mutex. `Signal` is a step of its own, after
the mutex has been released. The set of waiting threads is the wait set of the
condition variable; a signal wakes one of them (POSIX: at least one), and a thread may
wake without one. Producers and consumers are the application: a consumer
dequeues when `queue_block` returns, or polls, so a dequeue may come too late.

### HashTable and AbstractMap

The table is not locked, and a call is one step. `Stops` and `StopSlot` define where a
probe ends; `Rehash` is a recursive function over the old slots and keeps the
old count, as the code does; `UsedSlot` gives the order in which it and `getKeys` come to the keys. `(mem * 7) \div 10` and `(mem * 27) \div 10` equal the
truncated products with the float 0.7 that the code computes, for all sizes below
200000. `ret` is the last call, by name, with what it returned, and `StepsLikeMap` compares both and the
map with a step of `AbstractMap`. The key of a call is not part of it: a get of one key that returned the
value of another would pass. (So it is with the position of a get in `ImplementsList` and
`StepsLikeList`.) An access that would kill the process returns `Fault`, `Destroy` frees the table, and both end the
behaviour, hence `CHECK_DEADLOCK FALSE`. The history variable `broken` records
that a key was removed while the slot after it was in use; the refinement of
the map is stated until then; `Overcounted` is what size and isEmpty say after a rehash.

### I2CBus

A step of a thread is one system call (`ioctl`, `read`, `write`) or one access to
`bus->currentSlave`. `Script` gives the transfers of each call: the register, then the data; before
each the thread compares the copy with its own slave (`Check`) and selects it if they differ
(`Ioctl`, `Assign`). `selected` is the kernel's. Transfers return any count that read and write
may return. The history variable `torn` records that the last selection crossed that of another
slave by another thread; `disturbed[t]` that another slave has been selected since thread `t` looked, or was being selected then.

## 3. The runs

| run | cfg | shows | states |
|---|---|---|---|
| `llnet` | `MCLLNet.cfg` | 5 invariants, `GetFindsRegistered`, `FreeReturns` | 215,137 |
| `llnet_stale` | `LLNetStale.cfg` | violation of `GetReturnsLive` | |
| `tcp` | `MCTCPStream.cfg` | 4 invariants, `DeliversInOrder`, `EveryPacketArrives`, `CloseIsNoticed` | 72,655 |
| `tcp_split` | `TCPSplit.cfg` | violation of `DeliveredIntact` | |
| `packets` | `MCPacketReceiver.cfg` | 5 invariants on memory and parsing, `ParserAdvances`, `HandlerReturns` | 320,448 |
| `udp_own` | `UDPOwn.cfg` | violation of `HeardFromOthers` | |
| `lists` | `MCListDispatch.cfg` | `ArrayList` implements `AbstractList`; `WellLinked`, `EndsWell`, `StepsLikeList`; `KeepsOrder` | 48,369 |
| `linkedlist_insert` | `LinkedListInsert.cfg` | violation of `InsertsAnywhere` | |
| `hashtable` | `MCHashTable.cfg` | `CountCovers`, `RoomLeft`, `StepsLikeMap` | 7,269 |
| `hashtable_finds` | `HashTableFinds.cfg` | violation of `FindsMapped` | |
| `queue` | `MCQueue.cfg` | `FirstInFirstOut`, `ElementsHaveThreads`, `ElementsAreTaken` | 20,436 |
| `i2c` | `MCI2CBus.cfg` | `SelectionAgrees`, `ReachesSlave`, `ResultsAreTrue` | 323,420 |

Bounds and why they are enough.

- `llnet`: two application threads, four blocks, three ids and four programs
  (`Roles`): a server that listens once and frees twice, one that frees once while the other
  thread calls get, a client that connects twice and frees twice, and a program whose one thread
  listens while the other connects; in the last two a thread calls get as well. That is the least in which a freed
  block is reused while its entry is still listed, a get scans while the list
  grows or is replaced, an accepter is cancelled half-way, and a failed connect is
  retried. The accepter's loop is bounded by `MaxId`. Deadlock is not checked, since
  a program that has made its calls stops.
- `tcp`: packets of three, one and no data bytes, words of one byte, two
  senders. Three bytes give every way of splitting that matters: one, two and
  three pieces, the last two of different sizes. Everything comes to a stop when all
  has been sent, so deadlock is not checked.
- `packets`: two packets at once, so that one is kept while another is unpacked; every type at
  the lengths where its code changes course (none, shorter than its fixed part, exactly it,
  longer), lists of up to two entries with and without padding and values at both sides of 124 bytes;
  lists that grow with every entry (`Step = 1`, 25 in the code), so that a full list is met;
  `SizeMax = 2^28` for 2^64, which leaves room above the 24-bit lengths; two datagrams in the
  network, the least that can be reordered; stray datagrams of 0, 7 and 18 bytes: empty,
  shorter than a header, and with a payload cut off; pieces of five bytes, which split the longer
  payloads. A payload with two values, of which the second has a misread length that sends the parser back to
  the first, is not in the run: the parser adds an element to the list at every turn until memory is used
  up, and the model has no bound for that.
- `lists`: four nodes, two kinds of elements. Four is the least with which a
  position is found from either end, a node away from both is removed, and an
  insertion between two elements meets an address that was freed. Addresses are
  interchangeable, hence the symmetry. The array list has steps of one slot and up to six
  elements, so that it grows at every size and shrinks (more than four unused steps), from arrays of
  no slot, of some, and of more than four unused steps.
- `hashtable`: three keys, two of which hash to one slot in each table size and one
  of which follows by wrap-around; tables of up to eight slots, which is two
  rehashes from the first arrays. Initial sizes 0, 1 (whose capacity is zero) and 3.
- `queue`: two producers with two elements each and two consumers, so that signals
  overlap, both consumers wait, and one takes what the other was woken for.
- `i2c`: two threads and two slaves, the least in which selections cross, and a third
  call meets the wrong copy; bytes on both sides of 127. A bus is used for ever; threads are interchangeable.

Fairness. `Queue` has weak fairness for a signal that is due, for `queue_block` and for
the dequeue after it: its consumers come back for more. Producing, polling and waking
without a signal are free. `LLNet!FairSpec` has weak fairness for every step a thread takes by
itself: the scheduler runs what can run, `on_connect` and `on_packet` return, and a
cancelled thread reaches its cancellation point. Nothing obliges the application
to call, a client to connect or a peer to send or close. `TCPStream!FairSpec` is weak
fairness of the listener and of each send thread; sending and closing are free.
`PacketReceiver` has weak fairness of the handler's steps only: a handler is a loop of its
thread. Nothing else has to happen, in particular nobody has to send, receive or destroy.

### What the violations show

1. `GetReturnsLive`: free leaves its entry in the list, and get returns it.
2. `DeliveredIntact`: data that comes in two reads is overwritten.
3. `HeardFromOthers`: the UDP socket is bound to the peer's address, to which it also sends.
4. `FindsMapped`: a removal hides the keys that were probed past the removed one.
5. `InsertsAnywhere`: an insertion between two elements makes a cycle of nodes.

The other contradictions that the models show are in section 5.

Each passing property beside them says what still holds: get does not give up on a *registered*
worker (`GetFindsRegistered`); the entry of a served connection is in the list with its
id as long as the list is not replaced (`HandlerCanFind`); framing and
order survive any splitting of the data (`InSync`, `DeliversInOrder`); the table is a
map until a removal in the middle of a run (`StepsLikeMap`), and its count, wrong
as it is, errs only upward, so that the loops of the code end (`CountCovers`,
`RoomLeft`); the linked list is sound for every sequence of calls that inserts at its
ends (`WellLinked`, `EndsWell`, `StepsLikeList`), which is all that the stack
and the queue do (`KeepsOrder`); handlers free what they must, read inside the payload and come to its
end, except where `StaysInside`, `SafeMemory`, `ParsedIsEncoded`, `ParserAdvances` and
`HandlerReturns` name a case; the bus reaches the right slave until two
selections cross.

## 4. The proofs

All theorems hold for every value of the constants that meets the named
assumptions of the module (`BlocksAssumption`, `NullAssumption`, ... in `LLNet`;
`StepAssumption`, ... in `ArrayList`; `SlaveAssumption`, ... in `I2CBus`), which the TLC runs evaluate.

- `LLNetProofs!TypeAlways`: `Spec => []TypeOK`. `TypeOK` is not inductive: that
  `arg[t]` and `cur[a]` are blocks and `connections` is a list where they are used
  depends on where the threads are. `TypeInv` adds `LocalsSet` and `ListExists`.
- `LLNetLifeProofs!NoListenerAfterFreeAlways`. `LifeInv` describes who owns a block: which
  threads exist in each state (`ThreadsFit`), that at most one application thread
  works on a held connection (`Owned`), how far connect (`ConnectFits`), the accepter
  (`AccepterFits`) and free (`FreeFits`) have come. `FreeFits` is the heart of it: at
  `release` every thread of the block has been joined. All of it holds until `early`, and `early` stays
  TRUE (`EarlyStays`), which is why each theorem is about the time before it.
- `LLNetLifeProofs!UniqueIdsAlways`. `IdInv` adds that every id is below `nextId` and in one block only
  (`IdsDistinct`), and that a block has an id from `TakeId` until it is freed, so that every worker has one
  (`IdsGiven`). That nobody frees a block which an accepter or connect is about to make a worker is `LifeInv`.
- `LLNetLifeProofs!HandlerCanFindAlways`. `ListInv` adds that as long as the list has
  not been replaced, a block is in it before one of its listeners exists; with
  `IdInv` it has an id, and no other entry that holds an id has the same.
- `LLNetLifeProofs!RegisteredAreServedAlways`. `ServedInv` adds to `LifeInv` where a listed worker
  stands (`ServedFits`): it has both listeners, or the thread that makes them is still at it.
  An accepter lists its worker last, so what it was preparing when it was cancelled is in no list.
- `LLNetLifeProofs!GetFindsAlways`. `GetInv` adds `IdInv`, that what is listed has an entry
  (`ListedIn`), that a worker which a caller looks up and which loses its life does not come back with
  the same id (`DueOnce`), and, the heart of it, that the entry of the worker is ahead of the scan
  (`Ahead`). This is why `GetFindsRegistered` speaks of a worker that is in the list when get is
  called and when it gives up, and not of one that is in it at the end only: if two calls of listen
  each make a list, the worker may be added to the second one behind the place the scan has reached.
- `TCPStreamProofs!TypeAlways` and `FinishedAlways` hold on any network, one that splits headers
  included. `SInv` adds to the types that no two senders have one packet, that each
  packet is written once, and what has been written where a sender is about to report.
- `TCPStreamProofs!InSyncAlways`, `IntactAlways` and `ImplementsChannel` assume `HeadersWhole`, as the
  run `tcp` does: `Whole` contains the two header words, and the data may be split and cut
  anywhere. `Framed` says that the stream is a sequence of packets in the order of `sent`: bytes of one packet
  follow one another, and the byte after a last byte is the first of the next packet
  written. `Placed` says for each place of the listener's loop which byte comes next; `EndsWhole`
  that the stream of an open connection ends with a whole packet, so that an open
  connection never runs dry inside one. Each read moves along the stream by `Advance`, and a packet
  is the next one of `PacketChannel` because `sent` has no packet twice.
- `PacketProofs` proves the five invariants of the run `packets`, and `ParserAdvances`. It assumes that packets have types of the
  protocol and lengths below `SizeMax`, and that the lists in them are laid out as the parsers expect
  (`PacketAssumption`), that no list comes by UDP
  (`UDPAssumption`; `ControlProtocol.tex:97-104` has the lists on TCP), and that `size_t` is wider than
  the length field (`SizeAssumption`). `PInv` says that the heap is exactly what the packet being
  received, the handler and the kept packets own, and what was lost (`HeapFits`), and for each step of
  a handler what it has made when it comes to it (`HandlerFits`). A parser is on course: it is at
  an entry, or past the last, and its list has the entries before it (`OnCourse`); or a
  negative length is ahead of it, and it will not get past it (`Doomed`). `ParserAdvancesAlways` follows
  turn by turn: an entry ends behind the byte where it begins, if its length is read as it is.
- `ListProofs!StoredAlways` and `ImplementsListAlways`: `ElementsAreStored` with
  `TypeOK` is inductive, and under it each call of an array list maps to an action of
  `AbstractList` on the first `len` slots. The lemmas say what `Inserted`, `Closed` and `Realloc` do
  to those slots.
- `ListProofs!HandleAlways`, `WellLinkedAlways`, `EndsWellAlways`, `StepsLikeListAlways` and
  `KeepsOrderAlways`. `WellLinked` speaks of walks, that is, of a recursive function, and its steps cannot be
  followed in these terms. The invariant `DInv` has the pointers instead: until an element is
  inserted between two others there is a sequence of nodes, with NULL at both ends, of which every node's
  `next` and `prev` are the neighbours (`Chain`). Adding and removing at any place give a chain again
  (`ChainWith`, `ChainWithout`), with that element more or less. Of the recursive
  functions it is proved that they have a value at all, for any number of steps, and what it is on a chain:
  the walks visit its nodes (`ForwardIs`, `BackwardIs`), and the loop of `linkedlist_free`
  takes them one by one (`FreeLoopEnds`). Once a list is broken only the types are claimed. A stack or a
  queue never is, since none of its calls inserts in the middle.
- `HashTableProofs` proves `TypeOK`, `CountCovers`, `RoomLeft` and `StepsLikeMap`, for any keys and hash function and
  for every size the truncated products reach. `HInv` says that the arrays fit and keys and
  values come in pairs (`Sound`), that the count is not below the number of keys, that a slot is
  left (`RoomLeft`), and, until a run is broken, that every key is where its probe comes without
  meeting a free slot, and in no second place (`Placed`). The probe of a key comes to every
  slot once (arithmetic modulo the size); a rehash puts one key after the other into a table that
  stays `Placed`, by induction on the keys.
- `QueueProofs!TypeAlways` and `FirstInFirstOutAlways`: `TypeOK` with `FirstInFirstOut` is
  inductive; the lemmas say what adding in front and removing behind do to
  the reverse of a sequence.
- `QueueProofs!ElementsHaveThreadsAlways`: the property is itself inductive under the
  types. Each step moves at most one thread between the sets it counts, and a thread
  starts to wait only when the queue is empty. It needs the threads to be finite sets
  and a thread to be no producer and consumer at once (`ThreadAssumption`).
- `I2CProofs!TypeCorrect`, `SelectionAgreesAlways`, `ReachesSlaveAlways`. The invariant says what
  each thread between its ioctl and its assignment knows of the kernel's selection and of the
  copy: unless the last selection was crossed, all threads that are selecting select one slave, which is
  the kernel's; and a thread that is about to transfer and was not disturbed agrees with it.
- `I2CProofs!ResultsAreTrueAlways`, for `i2cBus_readByte`, `i2cBus_readWord` with a low byte up to 127, and
  `i2cBus_writeWord`. `RInv` adds that the transfers of a call under way have been whole so far,
  since a call returns at the first that is not (`Whole`), and what each call's result says of them
  (`Outcomes`).

Recursive functions and induction. No theorem of the library that takes an operator can be used, so
induction over numbers is a lemma of its own (`Induct`: a set of numbers that holds 0 and with each
number the next is all of them), which `ListProofs` and `HashTableProofs` use where the code has a loop.

Only model-checked is liveness under fairness, which is out of the prover's reach: `FreeReturns`,
`EveryPacketArrives`, `CloseIsNoticed`, `ElementsAreTaken`, `HandlerReturns`. The five violations are
counterexamples and have nothing to prove.

## 5. Not modelled

- Network layer: the value of timestamps and `llnet_time_offset`; short writes; send threads
  that outlive their connection; running out of memory in `lowlevel.c` outside the UDP
  listener; handlers that call the API themselves.
- Packets: the contents of fields (except the length of an entry); `KVPairTLV_equals`, which the tests use
  to compare two structures; `pt_UPDATE_STATUS`, for which there is no handler.
- Collections: elements and values that are NULL; the realloc that may fail in `queue_init`; freeing
  a queue, and with it its condition variable, while threads wait; handles with an `impl` that `list_init` does not make.
- I2C: malloc failing in `i2cBus_create`; a destroy while a call is under way.
- The message handler, which no target builds and which does not compile; the constants of `game`,
  `serial` and `network/constants.h`; debug printing; the other programs of the control
  protocol.

Differences between the code and what it says that are not runs of their own:

- `on_connect` gives the worker to the application before it is in the list, so a get for its
  id in between finds nothing; `test/test-llnet.c:197-210` waits for `on_connect` and then takes a NULL for
  an error. `GetFindsRegistered` is about workers that are in the list.
- A rehash counts every key again, so `hashtable_size` and `hashtable_isEmpty` are wrong after it
  (`hashtable.h:151-157`; `Overcounted` is the exception in `StepsLikeMap`, and `CountCovers`
  says that the count errs upward only).
- `linkedlist_remove_pos` refuses the last of several elements with LIST_INVALID_STATE, which
  `linkedlist.h:109-114` does not name (`RemoveRefused`; `StepsLikeList` names it as the one exception).
- `queue_peek` returns the newest element, and `queue_dequeue` the oldest, while `queue.h:56` and `queue.h:65` say "the
  front of the queue" of both; `test/test-list.c:478` expects the newest.
- `doc/ControlProtocol/ControlProtocol.tex:211` has the length field count the header too,
  `network/lowlevel.h:47` and the code count only the data. Both ends use this code, so they agree with each other.

Six more stand in the modules as formulas, each below the heading "What the repository says, and the
code does not do" and with the line that it is taken from. No run checks them, and the passing
properties leave out exactly these cases. TLC finds each one violated when it is put in place of the
properties of the component's passing configuration:

- `LLNet!FreeLeavesNoThread` (`lowlevel.c:607`): a worker is freed from `on_connect` on, before
  `tcp_thread` and `udp_thread` are assigned; free goes on with what they hold, and the accepter
  starts the listeners on the freed block.
- `TCPStream!DeliveredLive` (`lowlevel.h:138-140`): the stream ends inside the data; the packet is
  freed, the break leaves only the inner loop, and the handler gets the freed packet.
- `PacketReceiver!DataIsReceived` (the same lines): a datagram holds fewer bytes than its length field
  says; the rest of the payload is memory that nobody wrote (`lowlevel.c:246-248`), and the unpack functions
  copy it as arbitrary data (`packethandlers.c:200`, `430`).
- `PacketReceiver!PairLengthRead` (`netutils.c:50`): in a build with signed `char` a length byte over 127
  makes the length of a value negative, and the parser goes back. With a first pair of 6 and 100 bytes and a
  second of 24 and 124 it comes back to byte 0 (107 + 24 - 132 + 1) and goes round until memory is used up.
  `HandlerReturns` and `ParserAdvances` are for payloads without a misread length (`Misread`).
- `I2CBus!ByteWritten` (`i2cUtils.h:92`, "0 on success, -1 otherwise"): `i2cBus_writeByte` compares the
  count of bytes written with 0, so that it returns -1 when the byte was written and 0 when nothing was.
- `I2CBus!WordRead` (`i2cUtils.h:57`): `i2cBus_readWord` joins signed bytes, so that a low byte over 127
  hides the high one.

## 6. Plan

Done so far, in this order: `LLNet` with its first theorems, `TCPStream`, `ArrayList` with
its refinement, `HashTable`, `LinkedList`, `Queue` with its theorems, `PacketHandlers` and `PacketReceiver`,
`I2CBus` with its theorems, `ListDispatch`, the theorems of `TCPStream`, of `PacketReceiver`, the rest of those of
`LLNet` and `I2CBus`, those of `HashTable`, and those of `ListDispatch` with both lists, the stack and the queue.
Next: send threads in `LLNet` (a detached thread that outlives its connection).
