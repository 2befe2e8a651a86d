------------------------------- MODULE I2CBus -------------------------------
(***************************************************************************)
(* i2c/i2cUtils.c: threads that share one bus.  Which slave a transfer     *)
(* reaches is the kernel's, set by ioctl; the bus keeps a copy of it, so   *)
(* that calls for the same slave need no ioctl.  There is no lock: a step  *)
(* is one system call, or one access to the copy.                          *)
(*                                                                         *)
(* Left out: the malloc of i2cBus_create failing, and i2cBus_destroy while *)
(* a call is under way.                                                    *)
(***************************************************************************)
EXTENDS Integers, Sequences

CONSTANTS
    Thread,     \* the threads of the application
    Slave,      \* the addresses that they use
    Byte,       \* the bytes that a slave may send
    NULL

ASSUME SlaveAssumption == Slave \subseteq 0..127
ASSUME ByteAssumption  == Byte \subseteq 0..255
ASSUME NullAssumption  == NULL \notin [currentSlave : Slave \cup {0}]

VARIABLES
    bus,        \* the structure that the threads share, NULL when there is none
    selected,   \* in the kernel: the slave that transfers reach
    pc, call,   \* of each thread: where it is in which call
    moved,      \* what each transfer of the call returned
    bytes,      \* what the last read has put in the buffer
    ret,        \* what the last call returned, NULL before its end
    torn,       \* history: the last ioctl came in the middle of another's
                \* selection of another slave
    disturbed   \* history: so did one since this call looked at the copy

vars == <<bus, selected, pc, call, moved, bytes, ret, torn, disturbed>>

BYTES_PER_WORD == 2

\* The transfers of each call: the register, then the data.
Script ==
    [i2cBus_initSlave  |-> <<>>,
     i2cBus_readByte   |-> <<1, 1>>,
     i2cBus_readWord   |-> <<1, BYTES_PER_WORD>>,
     i2cBus_readBytes  |-> <<BYTES_PER_WORD>>,
     i2cBus_writeByte  |-> <<1, 1>>,
     i2cBus_writeWord  |-> <<1, BYTES_PER_WORD>>,
     i2cBus_writeBytes |-> <<BYTES_PER_WORD>>]

Op == DOMAIN Script

Addr(t)     == call[t].addr
Transfers(t) == Script[call[t].op]
Wanted(t)   == Transfers(t)[Len(moved[t]) + 1]

\* t has selected a slave in the kernel and not yet in the copy.
Selecting(t) == pc[t] = "assign"

\* Another thread than t is selecting another slave than t uses.
Crossed(t) == \E u \in Thread \ {t} : Selecting(u) /\ Addr(u) # Addr(t)

-----------------------------------------------------------------------------
Init ==
    /\ bus = NULL /\ selected = 0
    /\ pc = [t \in Thread |-> "idle"]
    /\ call = [t \in Thread |-> NULL]
    /\ moved = [t \in Thread |-> <<>>]
    /\ bytes = [t \in Thread |-> <<>>]
    /\ ret = [t \in Thread |-> NULL]
    /\ torn = FALSE /\ disturbed = [t \in Thread |-> FALSE]

\* A new descriptor has slave 0 selected.
Create ==
    /\ bus = NULL
    /\ bus' = [currentSlave |-> 0]
    /\ selected' = 0 /\ torn' = FALSE
    /\ UNCHANGED <<pc, call, moved, bytes, ret, disturbed>>

Destroy ==
    /\ bus # NULL /\ \A t \in Thread : pc[t] = "idle"
    /\ bus' = NULL
    /\ UNCHANGED <<selected, pc, call, moved, bytes, ret, torn, disturbed>>

Begin(t) ==
    /\ bus # NULL /\ pc[t] = "idle"
    /\ \E op \in Op, a \in Slave :
         /\ call' = [call EXCEPT ![t] = [op |-> op, addr |-> a]]
         /\ pc' = [pc EXCEPT ![t] = IF Script[op] = <<>> THEN "ioctl" ELSE "check"]
    /\ moved' = [moved EXCEPT ![t] = <<>>]
    /\ bytes' = [bytes EXCEPT ![t] = <<>>]
    /\ ret' = [ret EXCEPT ![t] = NULL]
    /\ UNCHANGED <<bus, selected, torn, disturbed>>

Return(t, value) ==
    /\ pc' = [pc EXCEPT ![t] = "idle"]
    /\ ret' = [ret EXCEPT ![t] = value]

-----------------------------------------------------------------------------
(* Selecting the slave *)

\* Mutant: it is enough that some slave has been selected.
slaveIsOnBusAny(t) == bus.currentSlave # 0

slaveIsOnBus(t) == bus.currentSlave = Addr(t)

Check(t) ==
    /\ pc[t] = "check"
    /\ pc' = [pc EXCEPT ![t] = IF slaveIsOnBus(t) THEN "transfer" ELSE "ioctl"]
    /\ disturbed' = [disturbed EXCEPT ![t] = Crossed(t)]
    /\ UNCHANGED <<bus, selected, call, moved, bytes, ret, torn>>

Ioctl(t) ==
    /\ pc[t] = "ioctl"
    /\ selected' = Addr(t)
    /\ pc' = [pc EXCEPT ![t] = "assign"]
    /\ torn' = Crossed(t)
    /\ disturbed' = [u \in Thread |->
                       u # t /\ (disturbed[u] \/ (pc[u] # "idle" /\ Addr(u) # Addr(t)))]
    /\ UNCHANGED <<bus, call, moved, bytes, ret>>

\* Mutant: the copy is set before the result of ioctl is looked at.
IoctlFailsLate(t) ==
    /\ pc[t] = "ioctl"
    /\ bus' = [bus EXCEPT !.currentSlave = Addr(t)]
    /\ Return(t, -1)
    /\ UNCHANGED <<selected, call, moved, bytes, torn, disturbed>>

\* The slave cannot be selected: every call reports an error, here always -1.
IoctlFails(t) ==
    /\ pc[t] = "ioctl"
    /\ Return(t, -1)
    /\ UNCHANGED <<bus, selected, call, moved, bytes, torn, disturbed>>

Assign(t) ==
    /\ pc[t] = "assign"
    /\ bus' = [bus EXCEPT !.currentSlave = Addr(t)]
    /\ IF Transfers(t) = <<>> THEN Return(t, 0)
       ELSE pc' = [pc EXCEPT ![t] = "transfer"] /\ UNCHANGED ret
    /\ UNCHANGED <<selected, call, moved, bytes, torn, disturbed>>

-----------------------------------------------------------------------------
(* Transfers *)

Int8(b)  == IF b >= 128 THEN b - 256 ELSE b
Int16(w) == IF w >= 32768 THEN w - 65536 ELSE w

\* Mutant: the bytes of a word are swapped.
WordSwapped(hi, lo) == IF Int8(hi) < 0 THEN Int8(hi) ELSE Int8(lo) * 256 + hi

\* buf[0] << 8 | buf[1], of signed bytes: a negative low byte hides the high.
Word(hi, lo) == IF Int8(lo) < 0 THEN Int8(lo) ELSE Int8(hi) * 256 + lo

\* What each call makes of the result n of its last transfer and of its buffer b.
Result(op, n, b) ==
    CASE op = "i2cBus_readByte"  -> IF n = 1 THEN Int8(b[1]) ELSE -1
      [] op = "i2cBus_readWord"  -> IF n = BYTES_PER_WORD THEN Word(b[1], b[2]) ELSE -1
      [] op = "i2cBus_writeByte" -> IF n = 0 THEN 0 ELSE -1
      [] op = "i2cBus_writeWord" -> IF n = BYTES_PER_WORD THEN 0 ELSE -1
      [] OTHER                   -> n

\* Mutant: the last transfer is taken for one before the last.
LastTransferLate(t) == Len(moved[t]) >= Len(Transfers(t))

LastTransfer(t) == Len(moved[t]) + 1 = Len(Transfers(t))

\* What read may leave in the buffer of a call that computes with it.
Buffers(t) ==
    IF LastTransfer(t) /\ call[t].op \in {"i2cBus_readByte", "i2cBus_readWord"}
      THEN [1..BYTES_PER_WORD -> Byte] ELSE {<<0, 0>>}

\* read or write returns n, -1 or the number of bytes moved; a call goes on
\* from the register to the data only if that was whole.
Transfer(t) ==
    /\ pc[t] = "transfer"
    /\ \E n \in -1..Wanted(t), b \in Buffers(t) :
         /\ moved' = [moved EXCEPT ![t] = Append(@, n)]
         /\ bytes' = [bytes EXCEPT ![t] = b]
         /\ IF LastTransfer(t) THEN Return(t, Result(call[t].op, n, b))
            ELSE IF n # Wanted(t) THEN Return(t, -1)
            ELSE pc' = [pc EXCEPT ![t] = "check"] /\ UNCHANGED ret
    /\ UNCHANGED <<bus, selected, call, torn, disturbed>>

-----------------------------------------------------------------------------
Next ==
    \/ Create \/ Destroy
    \/ \E t \in Thread :
         \/ Begin(t) \/ Check(t) \/ Ioctl(t) \/ IoctlFails(t) \/ Assign(t)
         \/ Transfer(t)

Spec == Init /\ [][Next]_vars

-----------------------------------------------------------------------------
(* Properties *)

Call == [op : Op, addr : Slave]

\* Every variable has a value of its kind; a thread in the middle of a call
\* has a bus and a transfer still to make.
TypeOK ==
    /\ bus \in [currentSlave : Slave \cup {0}] \cup {NULL}
    /\ selected \in Slave \cup {0}
    /\ pc \in [Thread -> {"idle", "check", "ioctl", "assign", "transfer"}]
    /\ call \in [Thread -> Call \cup {NULL}]
    /\ torn \in BOOLEAN /\ disturbed \in [Thread -> BOOLEAN]
    /\ \A t \in Thread :
         pc[t] # "idle" =>
           /\ bus # NULL /\ call[t] \in Call
           /\ Transfers(t) # <<>> => Len(moved[t]) < Len(Transfers(t))

\* The copy on the bus names the slave that the kernel has selected, whenever
\* no thread is between the ioctl and the assignment of i2cBus_initSlave and
\* the last selection did not cross another one: a crossed pair can leave the
\* copy wrong for every later call, until one selects a slave alone.
SelectionAgrees ==
    bus # NULL /\ ~torn /\ (\A t \in Thread : ~Selecting(t)) =>
      bus.currentSlave = selected

\* A transfer reaches the slave that its caller has named, unless another
\* thread has selected another slave since, or was doing so when this call
\* looked at the copy, or the last selection was crossed: also after failures
\* of ioctl, read and write, and when the ioctl is skipped.
ReachesSlave ==
    \A t \in Thread :
      pc[t] = "transfer" /\ ~torn /\ ~disturbed[t] => selected = Addr(t)

Moves(t) == moved[t] = Transfers(t)

\* Results: a call that reads a byte, or a word whose low byte is below 128,
\* returns what the slave has sent, as a signed number, if every transfer was
\* whole; i2cBus_writeWord reports success exactly if every transfer was.
ResultsAreTrue ==
    \A t \in Thread :
      pc[t] = "idle" /\ ret[t] # NULL =>
        LET op == call[t].op
            hi == bytes[t][1]
            lo == bytes[t][2]
        IN  /\ op = "i2cBus_readByte" /\ Moves(t) => ret[t] = Int8(hi)
            /\ op = "i2cBus_readWord" /\ Moves(t) /\ lo < 128 =>
                 ret[t] = Int16(hi * 256 + lo)
            /\ op = "i2cBus_writeWord" => (ret[t] = 0 <=> Moves(t))

-----------------------------------------------------------------------------
(* What the repository says, and the code does not do *)

\* i2c/i2cUtils.h:92 i2cBus_writeByte returns "0 on success, -1 otherwise".
ByteWritten ==
    \A t \in Thread :
      pc[t] = "idle" /\ ret[t] # NULL /\ call[t].op = "i2cBus_writeByte" =>
        (ret[t] = 0 <=> Moves(t))

\* i2c/i2cUtils.h:57 i2cBus_readWord is to "Read a 16 bit word from a bus slave":
\* it returns both bytes that the slave has sent.
WordRead ==
    \A t \in Thread :
      pc[t] = "idle" /\ ret[t] # NULL /\ call[t].op = "i2cBus_readWord" /\ Moves(t) =>
        ret[t] = Int16(bytes[t][1] * 256 + bytes[t][2])

=============================================================================
