----------------------------- MODULE I2CProofs ------------------------------
(***************************************************************************)
(* Theorems about I2CBus, for any number of threads and slaves: the copy   *)
(* of the selected slave and the reach of transfers go wrong only through  *)
(* selections that cross, and a call returns what its transfers explain.   *)
(***************************************************************************)
EXTENDS I2CBus, SequenceTheorems, TLAPS

\* A thread that looks at the copy or transfers is in a call with transfers.
Moving ==
    \A t \in Thread : pc[t] \in {"check", "transfer"} => Transfers(t) # <<>>

\* Where the last selection was not crossed, every thread in the middle of a
\* selection, and every undisturbed transfer, has the slave that is selected.
Selected ==
    bus # NULL /\ ~torn =>
      /\ \A t \in Thread : Selecting(t) => selected = Addr(t)
      /\ \A t \in Thread : pc[t] = "transfer" /\ ~disturbed[t] => selected = Addr(t)
      /\ (\A t \in Thread : ~Selecting(t)) => bus.currentSlave = selected

\* The inductive invariant.
IInv ==
    /\ TypeOK /\ Moving /\ Selected
    /\ moved \in [Thread -> Seq(Int)]
    /\ DOMAIN bytes = Thread /\ DOMAIN ret = Thread

\* The calls have transfers or none, and what they transfer are bytes.
LEMMA ScriptType == \A op \in Op : Script[op] \in Seq(Nat)
<1>1. <<>> \in Seq(Nat) /\ <<1, 1>> \in Seq(Nat) /\ <<1, 2>> \in Seq(Nat) /\ <<2>> \in Seq(Nat)
  OBVIOUS
<1>2. \A op \in Op : Script[op] \in {<<>>, <<1, 1>>, <<1, 2>>, <<2>>}
  BY DEF Op, Script, BYTES_PER_WORD
<1> QED
  BY <1>1, <1>2

LEMMA InitIInv == Init => IInv
<1> SUFFICES ASSUME Init PROVE IInv
  OBVIOUS
<1>1. moved \in [Thread -> Seq(Int)] /\ DOMAIN bytes = Thread /\ DOMAIN ret = Thread
  BY DEF Init
<1>2. TypeOK
  BY DEF Init, TypeOK
<1>3. Moving /\ Selected
  BY DEF Init, Moving, Selected
<1> QED
  BY <1>1, <1>2, <1>3 DEF IInv

\* Every step keeps the types.
LEMMA TypeStep ==
  ASSUME IInv, [Next]_vars
  PROVE  /\ TypeOK' /\ Moving' /\ moved' \in [Thread -> Seq(Int)]
         /\ DOMAIN bytes' = Thread /\ DOMAIN ret' = Thread
<1> USE DEF IInv, TypeOK, Moving
<1>1. CASE Create
  BY <1>1 DEF Create, Transfers
<1>2. CASE Destroy
  BY <1>2 DEF Destroy, Transfers
<1>3. ASSUME NEW t \in Thread, Begin(t)
      PROVE  /\ TypeOK' /\ Moving' /\ moved' \in [Thread -> Seq(Int)]
             /\ DOMAIN bytes' = Thread /\ DOMAIN ret' = Thread
  <2>1. PICK op \in Op, a \in Slave :
          /\ call' = [call EXCEPT ![t] = [op |-> op, addr |-> a]]
          /\ pc' = [pc EXCEPT ![t] = IF Script[op] = <<>> THEN "ioctl" ELSE "check"]
    BY <1>3 DEF Begin
  <2>2. Script[op] # <<>> => 0 < Len(Script[op])
    BY ScriptType
  <2>3. [op |-> op, addr |-> a] \in Call
    BY DEF Call
  <2> QED
    BY <1>3, <2>1, <2>2, <2>3 DEF Begin, Transfers
<1>4. ASSUME NEW t \in Thread, Check(t)
      PROVE  /\ TypeOK' /\ Moving' /\ moved' \in [Thread -> Seq(Int)]
             /\ DOMAIN bytes' = Thread /\ DOMAIN ret' = Thread
  <2>1. Crossed(t) \in BOOLEAN
    BY DEF Crossed
  <2> QED
    BY <1>4, <2>1 DEF Check, Transfers
<1>5. ASSUME NEW t \in Thread, Ioctl(t)
      PROVE  /\ TypeOK' /\ Moving' /\ moved' \in [Thread -> Seq(Int)]
             /\ DOMAIN bytes' = Thread /\ DOMAIN ret' = Thread
  <2>1. Crossed(t) \in BOOLEAN /\ Addr(t) \in Slave
    BY <1>5 DEF Crossed, Ioctl, Addr, Call
  <2> QED
    BY <1>5, <2>1 DEF Ioctl, Transfers
<1>6. ASSUME NEW t \in Thread, IoctlFails(t)
      PROVE  /\ TypeOK' /\ Moving' /\ moved' \in [Thread -> Seq(Int)]
             /\ DOMAIN bytes' = Thread /\ DOMAIN ret' = Thread
  BY <1>6 DEF IoctlFails, Return, Transfers
<1>7. ASSUME NEW t \in Thread, Assign(t)
      PROVE  /\ TypeOK' /\ Moving' /\ moved' \in [Thread -> Seq(Int)]
             /\ DOMAIN bytes' = Thread /\ DOMAIN ret' = Thread
  <2>1. Addr(t) \in Slave /\ bus # NULL
    BY <1>7 DEF Assign, Addr, Call
  <2>2. bus' \in [currentSlave : Slave \cup {0}]
    BY <1>7, <2>1 DEF Assign
  <2>3. /\ pc' \in [Thread -> {"idle", "check", "ioctl", "assign", "transfer"}]
        /\ pc'[t] = "transfer" => Transfers(t) # <<>>
        /\ \A u \in Thread \ {t} : pc'[u] = pc[u]
        /\ pc'[t] \in {"idle", "transfer"} /\ DOMAIN ret' = Thread
    BY <1>7 DEF Assign, Return
  <2>4. bus' # NULL
    BY <2>2, NullAssumption
  <2> QED
    BY <1>7, <2>1, <2>2, <2>3, <2>4 DEF Assign, Transfers
<1>8. ASSUME NEW t \in Thread, Transfer(t)
      PROVE  /\ TypeOK' /\ Moving' /\ moved' \in [Thread -> Seq(Int)]
             /\ DOMAIN bytes' = Thread /\ DOMAIN ret' = Thread
  <2>1. PICK n \in -1..Wanted(t), b \in Buffers(t) :
          /\ moved' = [moved EXCEPT ![t] = Append(@, n)]
          /\ bytes' = [bytes EXCEPT ![t] = b]
          /\ IF LastTransfer(t) THEN Return(t, Result(call[t].op, n, b))
             ELSE IF n # Wanted(t) THEN Return(t, -1)
             ELSE pc' = [pc EXCEPT ![t] = "check"] /\ UNCHANGED ret
    BY <1>8 DEF Transfer
  <2>2. /\ Transfers(t) \in Seq(Nat) /\ Len(moved[t]) < Len(Transfers(t))
        /\ pc[t] = "transfer" /\ UNCHANGED <<bus, selected, call, torn, disturbed>>
    BY <1>8, ScriptType DEF Transfer, Transfers, Call
  <2>3. moved' \in [Thread -> Seq(Int)] /\ Len(moved'[t]) = Len(moved[t]) + 1
    BY <2>1
  <2>4. \A u \in Thread \ {t} : pc'[u] = pc[u] /\ moved'[u] = moved[u]
    BY <2>1 DEF Return
  <2>5. /\ pc'[t] \in {"idle", "check"}
        /\ pc'[t] = "check" => Len(moved'[t]) < Len(Transfers(t))
    BY <2>1, <2>2, <2>3 DEF Return, LastTransfer
  <2>6. pc' \in [Thread -> {"idle", "check", "ioctl", "assign", "transfer"}]
    BY <2>1 DEF Return
  <2>7. DOMAIN bytes' = Thread /\ DOMAIN ret' = Thread
    BY <2>1 DEF Return
  <2>8. TypeOK'
    BY <2>2, <2>4, <2>5, <2>6 DEF Transfers
  <2>9. Moving'
    BY <2>2, <2>4, <2>5 DEF Transfers
  <2> QED
    BY <2>3, <2>7, <2>8, <2>9
<1>9. CASE UNCHANGED vars
  BY <1>9 DEF vars, Transfers
<1> QED
  BY <1>1, <1>2, <1>3, <1>4, <1>5, <1>6, <1>7, <1>8, <1>9 DEF Next

\* Every step keeps what is known of the selected slave.
LEMMA SelectedStep ==
  ASSUME IInv, [Next]_vars
  PROVE  Selected'
<1> USE DEF IInv, TypeOK, Selected, Selecting
<1>1. CASE Create
  BY <1>1 DEF Create
<1>2. CASE Destroy
  BY <1>2 DEF Destroy
<1>3. ASSUME NEW t \in Thread, Begin(t)
      PROVE  Selected'
  BY <1>3 DEF Begin, Addr
<1>4. ASSUME NEW t \in Thread, Check(t)
      PROVE  Selected'
  <2>1. CASE torn \/ ~slaveIsOnBus(t)
    BY <1>4, <2>1 DEF Check, Addr
  <2>2. CASE ~torn /\ slaveIsOnBus(t)
    <3>1. ~Crossed(t) => selected = Addr(t)
      <4>1. CASE \E u \in Thread \ {t} : Selecting(u)
        BY <1>4, <2>2, <4>1 DEF Check, Crossed
      <4>2. CASE \A u \in Thread \ {t} : ~Selecting(u)
        BY <1>4, <2>2, <4>2 DEF Check, slaveIsOnBus
      <4> QED
        BY <4>1, <4>2
    <3> QED
      BY <1>4, <2>2, <3>1 DEF Check, Addr
  <2> QED
    BY <2>1, <2>2
<1>5. ASSUME NEW t \in Thread, Ioctl(t)
      PROVE  Selected'
  <2>1. /\ pc[t] = "ioctl" /\ pc' = [pc EXCEPT ![t] = "assign"]
        /\ selected' = Addr(t) /\ torn' = Crossed(t) /\ UNCHANGED <<bus, call>>
    BY <1>5 DEF Ioctl
  <2>2. SUFFICES ASSUME bus # NULL, ~Crossed(t)
                 PROVE  /\ \A u \in Thread : pc'[u] = "assign" => Addr(t) = Addr(u)
                        /\ \A u \in Thread :
                             pc'[u] = "transfer" /\ ~disturbed'[u] => Addr(t) = Addr(u)
    BY <2>1 DEF Addr
  <2>3. \A u \in Thread : pc'[u] = "assign" => Addr(t) = Addr(u)
    BY <2>1, <2>2 DEF Crossed
  <2>4. \A u \in Thread : pc'[u] = "transfer" /\ ~disturbed'[u] => Addr(t) = Addr(u)
    BY <1>5, <2>1 DEF Ioctl
  <2> QED
    BY <2>3, <2>4
<1>6. ASSUME NEW t \in Thread, IoctlFails(t)
      PROVE  Selected'
  BY <1>6 DEF IoctlFails, Return, Addr
<1>7. ASSUME NEW t \in Thread, Assign(t)
      PROVE  Selected'
  BY <1>7 DEF Assign, Return, Addr
<1>8. ASSUME NEW t \in Thread, Transfer(t)
      PROVE  Selected'
  <2>1. /\ pc[t] = "transfer" /\ UNCHANGED <<bus, selected, call, torn, disturbed>>
        /\ \A u \in Thread \ {t} : pc'[u] = pc[u]
        /\ pc'[t] \in {"idle", "check"}
    BY <1>8 DEF Transfer, Return
  <2> QED
    BY <2>1 DEF Addr
<1>9. CASE UNCHANGED vars
  BY <1>9 DEF vars, Addr
<1> QED
  BY <1>1, <1>2, <1>3, <1>4, <1>5, <1>6, <1>7, <1>8, <1>9 DEF Next

LEMMA Inductive == Spec => []IInv
<1>1. IInv /\ [Next]_vars => IInv'
  BY TypeStep, SelectedStep DEF IInv
<1> QED
  BY InitIInv, <1>1, PTL DEF Spec

\* The types of the state of i2cUtils.c and of its callers.
THEOREM TypeCorrect == Spec => []TypeOK
<1>1. IInv => TypeOK
  BY DEF IInv
<1> QED
  BY Inductive, <1>1, PTL

\* For any threads and slaves: the copy on the bus agrees with the kernel, but
\* for selections that cross.
THEOREM SelectionAgreesAlways == Spec => []SelectionAgrees
<1>1. IInv => SelectionAgrees
  BY DEF IInv, Selected, SelectionAgrees
<1> QED
  BY Inductive, <1>1, PTL

\* For any threads and slaves: an undisturbed transfer reaches its slave.
THEOREM ReachesSlaveAlways == Spec => []ReachesSlave
<1>1. IInv => ReachesSlave
  BY DEF IInv, TypeOK, Selected, ReachesSlave
<1> QED
  BY Inductive, <1>1, PTL

-----------------------------------------------------------------------------
(* Results *)

\* The transfers of a call that is under way have been whole so far.
Whole ==
    \A t \in Thread : pc[t] # "idle" =>
        \A i \in 1..Len(moved[t]) : moved[t][i] = Transfers(t)[i]

\* What is claimed of the result of a call of op, which moved m and read b.
Outcome(op, m, b, r) ==
    /\ op = "i2cBus_readByte" /\ m = Script[op] => r = Int8(b[1])
    /\ op = "i2cBus_readWord" /\ m = Script[op] /\ b[2] < 128 => r = Int16(b[1] * 256 + b[2])
    /\ op = "i2cBus_writeWord" => (r = 0 <=> m = Script[op])

Outcomes ==
    \A t \in Thread :
        pc[t] = "idle" /\ ret[t] # NULL => Outcome(call[t].op, moved[t], bytes[t], ret[t])

RInv == IInv /\ Whole /\ Outcomes

\* A signed word is its high byte, signed, in front of its low byte.
LEMMA SignedWord ==
    ASSUME NEW hi \in 0..255, NEW lo \in 0..255, lo < 128
    PROVE  Word(hi, lo) = Int16(hi * 256 + lo)
BY DEF Word, Int8, Int16

\* The calls whose results are spoken of move the register, and then the data.
LEMMA ScriptOf ==
    /\ Script["i2cBus_readByte"] = <<1, 1>>
    /\ Script["i2cBus_readWord"] = <<1, 2>> /\ Script["i2cBus_writeWord"] = <<1, 2>>
BY DEF Script, BYTES_PER_WORD

\* A call with transfers has some.
LEMMA TwoNotNone == \A s \in {<<1, 1>>, <<1, 2>>} : s # <<>>
OBVIOUS

\* A call that ends before its last transfer has not moved all it should.
LEMMA EarlyOutcome ==
    ASSUME NEW op \in Op, NEW m \in Seq(Int), NEW b, Script[op] # <<>> => Len(m) < Len(Script[op])
    PROVE  Outcome(op, m, b, -1)
<1>1. CASE op \in {"i2cBus_readByte", "i2cBus_readWord", "i2cBus_writeWord"}
  <2>1. Script[op] \in {<<1, 1>>, <<1, 2>>}
    BY <1>1, ScriptOf
  <2>2. Len(<<1, 1>>) = 2 /\ Len(<<1, 2>>) = 2 /\ Len(<<>>) = 0
    OBVIOUS
  <2>3. Len(Script[op]) = 2
    BY <2>1, <2>2
  <2>4. Len(m) < 2
    <3>1. Script[op] # <<>>
      BY <2>1, TwoNotNone
    <3> QED BY <2>3, <3>1
  <2>5. m # Script[op]
    <3>1. ASSUME m = Script[op] PROVE FALSE
      <4>1. Len(m) = 2
        BY ONLY <2>3, <3>1
      <4> QED BY ONLY <2>4, <4>1
    <3> QED BY <3>1
  <2> QED BY <2>5 DEF Outcome
<1>2. CASE op \notin {"i2cBus_readByte", "i2cBus_readWord", "i2cBus_writeWord"}
  BY <1>2 DEF Outcome
<1> QED BY <1>1, <1>2

\* The register is moved, and then n bytes of the data.
LEMMA TwoTransfers ==
    ASSUME NEW m \in Seq(Int), NEW n \in Int, NEW k \in Int, Len(m) + 1 = Len(<<1, k>>), m[1] = 1
    PROVE  Append(m, n) = <<1, n>>
<1> DEFINE l == Len(Append(m, n))
<1>1. Append(m, n) \in Seq(Int) /\ l = Len(m) + 1
  BY AppendProperties
<1>2. <<1, n>> \in Seq(Int) /\ Len(<<1, n>>) = 2 /\ Len(<<1, k>>) = 2
  OBVIOUS
<1>3. l = 2 /\ l = Len(<<1, n>>)
  BY <1>1, <1>2
<1>4. Append(m, n)[2] = n /\ Append(m, n)[1] = 1
  <2>1. 1 \in 1..Len(m) /\ Len(m) \in Nat /\ Len(m) + 1 = 2
    BY <1>2
  <2> QED BY <2>1, AppendProperties
<1> HIDE DEF l
<1>5. \A i \in 1..l : Append(m, n)[i] = <<1, n>>[i]
  <2>1. \A i \in 1..l : i = 1 \/ i = 2
    BY <1>3
  <2> QED BY <1>4, <2>1
<1> QED BY <1>1, <1>2, <1>3, <1>5, SeqEqual DEF l

\* A call that makes its last transfer returns what follows from it.
LEMMA LastOutcome ==
    ASSUME NEW op \in Op, NEW m \in Seq(Int), NEW n \in Int, NEW b,
           Len(m) + 1 = Len(Script[op]),
           \A i \in 1..Len(m) : m[i] = Script[op][i],
           op \in {"i2cBus_readByte", "i2cBus_readWord"} => b \in [1..BYTES_PER_WORD -> Byte]
    PROVE  Outcome(op, Append(m, n), b, Result(op, n, b))
<1>1. CASE op \in {"i2cBus_readByte", "i2cBus_readWord", "i2cBus_writeWord"}
  <2>1. PICK k \in {1, 2} : Script[op] = <<1, k>>
    BY <1>1, ScriptOf
  <2>2. Len(m) + 1 = Len(<<1, k>>) /\ m[1] = 1
    <3>1. Len(<<1, k>>) = 2 /\ <<1, k>>[1] = 1
      OBVIOUS
    <3>2. 1 \in 1..Len(m)
      BY <2>1, <3>1
    <3>3. m[1] = Script[op][1]
      BY <3>2
    <3> QED BY <2>1, <3>1, <3>3
  <2>3. Append(m, n) = <<1, n>>
    BY <2>2, TwoTransfers
  <2>4. \A j \in Int : Append(m, n) = <<1, j>> <=> n = j
    BY <2>3
  <2>a. /\ op = "i2cBus_readByte" => Script[op] = <<1, 1>>
        /\ op \in {"i2cBus_readWord", "i2cBus_writeWord"} => Script[op] = <<1, 2>>
    BY ScriptOf
  <2>5. CASE op = "i2cBus_readByte"
    BY <2>a, <2>4, <2>5 DEF Outcome, Result
  <2>6. CASE op = "i2cBus_readWord"
    <3>a. b \in [1..2 -> Byte]
      BY <2>6 DEF BYTES_PER_WORD
    <3>b. b[1] \in Byte /\ b[2] \in Byte
      BY ONLY <3>a
    <3>1. b[1] \in 0..255 /\ b[2] \in 0..255
      BY <3>b, ByteAssumption, Zenon
    <3>2. Append(m, n) = Script[op] => Result(op, n, b) = Word(b[1], b[2])
      BY <2>a, <2>4, <2>6 DEF Result, BYTES_PER_WORD
    <3> QED BY <2>6, <3>1, <3>2, SignedWord, ZenonT(40) DEF Outcome
  <2>7. CASE op = "i2cBus_writeWord"
    BY <2>a, <2>4, <2>7, SMTT(40) DEF Outcome, Result, BYTES_PER_WORD
  <2> QED BY <1>1, <2>5, <2>6, <2>7
<1>2. CASE op \notin {"i2cBus_readByte", "i2cBus_readWord", "i2cBus_writeWord"}
  BY <1>2 DEF Outcome
<1> QED BY <1>1, <1>2

\* The result of a call keeps to what its transfers were.
LEMMA OutcomesStep ==
    ASSUME RInv, [Next]_vars
    PROVE  Whole' /\ Outcomes'
<1>0. /\ TypeOK /\ Whole /\ Outcomes /\ moved \in [Thread -> Seq(Int)]
      /\ DOMAIN bytes = Thread /\ DOMAIN ret = Thread
  BY DEF RInv, IInv
<1>1. CASE Create \/ Destroy \/ UNCHANGED vars
  BY <1>0, <1>1 DEF Create, Destroy, vars, Whole, Outcomes, Transfers
<1>2. ASSUME NEW t \in Thread, Begin(t)
      PROVE  Whole' /\ Outcomes'
  <2>1. /\ moved' = [moved EXCEPT ![t] = <<>>] /\ ret' = [ret EXCEPT ![t] = NULL]
        /\ \A u \in Thread \ {t} : pc'[u] = pc[u] /\ call'[u] = call[u] /\ bytes'[u] = bytes[u]
    BY <1>0, <1>2 DEF Begin, TypeOK
  <2>2. moved'[t] = <<>> /\ ret'[t] = NULL /\ \A u \in Thread \ {t} : moved'[u] = moved[u] /\ ret'[u] = ret[u]
    BY <1>0, <2>1
  <2>3. Whole'
    <3>1. \A u \in Thread \ {t} : Transfers(u)' = Transfers(u)
      BY <2>1 DEF Transfers
    <3>2. Len(moved'[t]) = 0
      BY <2>2
    <3> SUFFICES ASSUME NEW u \in Thread, pc'[u] # "idle", NEW i \in 1..Len(moved'[u])
                 PROVE  moved'[u][i] = Transfers(u)'[i]
      BY DEF Whole
    <3>3. u # t
      BY <3>2
    <3>4. pc[u] # "idle" /\ moved'[u] = moved[u] /\ Transfers(u)' = Transfers(u)
      BY <2>1, <2>2, <3>1, <3>3
    <3>5. i \in 1..Len(moved[u])
      BY <3>4
    <3>6. moved[u][i] = Transfers(u)[i]
      BY <1>0, <3>4, <3>5 DEF Whole
    <3> QED BY <3>4, <3>6
  <2>4. Outcomes'
    BY <1>0, <2>1, <2>2 DEF Outcomes
  <2> QED BY <2>3, <2>4
<1>3. ASSUME NEW t \in Thread, Check(t) \/ Ioctl(t)
      PROVE  Whole' /\ Outcomes'
  <2>1. UNCHANGED <<call, moved, bytes, ret>> /\ \A u \in Thread : pc'[u] = "idle" <=> pc[u] = "idle"
    BY <1>0, <1>3 DEF Check, Ioctl, TypeOK
  <2>2. \A u \in Thread : Transfers(u)' = Transfers(u)
    BY <2>1 DEF Transfers
  <2> QED BY <1>0, <2>1, <2>2 DEF Whole, Outcomes
\* A call ends with a value that its transfers explain.
<1>4. ASSUME NEW t \in Thread, NEW r, Return(t, r), UNCHANGED call, pc[t] # "idle",
             \A u \in Thread \ {t} : moved'[u] = moved[u] /\ bytes'[u] = bytes[u],
             Outcome(call[t].op, moved'[t], bytes'[t], r)
      PROVE  Whole' /\ Outcomes'
  <2>1. /\ \A u \in Thread \ {t} : pc'[u] = pc[u] /\ ret'[u] = ret[u]
        /\ pc'[t] = "idle" /\ ret'[t] = r
    BY <1>0, <1>4 DEF Return, TypeOK
  <2>2. Whole'
    BY <1>0, <1>4, <2>1, SMTT(40) DEF Whole, Transfers
  <2>3. Outcomes'
    BY <1>0, <1>4, <2>1 DEF Outcomes
  <2> QED BY <2>2, <2>3
<1>5. ASSUME NEW t \in Thread, IoctlFails(t)
      PROVE  Whole' /\ Outcomes'
  <2>1. /\ call[t].op \in Op /\ moved[t] \in Seq(Int)
        /\ Script[call[t].op] # <<>> => Len(moved[t]) < Len(Script[call[t].op])
    BY <1>0, <1>5 DEF IoctlFails, TypeOK, Transfers, Call
  <2>2. Outcome(call[t].op, moved[t], bytes[t], -1)
    BY <2>1, EarlyOutcome
  <2> QED BY <1>4, <1>5, <2>2 DEF IoctlFails
<1>6. ASSUME NEW t \in Thread, Assign(t)
      PROVE  Whole' /\ Outcomes'
  <2>1. CASE Transfers(t) = <<>>
    <3>1. call[t].op \in Op /\ Script[call[t].op] = <<>>
      BY <1>0, <1>6, <2>1 DEF Assign, TypeOK, Transfers, Call
    <3>2. call[t].op \notin {"i2cBus_readByte", "i2cBus_readWord", "i2cBus_writeWord"}
      BY <3>1, ScriptOf DEF BYTES_PER_WORD
    <3>3. Outcome(call[t].op, moved[t], bytes[t], 0)
      BY <3>2 DEF Outcome
    <3> QED BY <1>4, <1>6, <2>1, <3>3 DEF Assign
  <2>2. CASE Transfers(t) # <<>>
    BY <1>0, <1>6, <2>2, SMTT(40) DEF Assign, TypeOK, Whole, Outcomes, Transfers
  <2> QED BY <2>1, <2>2
<1>7. ASSUME NEW t \in Thread, Transfer(t)
      PROVE  Whole' /\ Outcomes'
  <2>1. PICK n \in -1..Wanted(t), b \in Buffers(t) :
          /\ moved' = [moved EXCEPT ![t] = Append(@, n)]
          /\ bytes' = [bytes EXCEPT ![t] = b]
          /\ IF LastTransfer(t) THEN Return(t, Result(call[t].op, n, b))
             ELSE IF n # Wanted(t) THEN Return(t, -1)
             ELSE pc' = [pc EXCEPT ![t] = "check"] /\ UNCHANGED ret
    BY <1>7 DEF Transfer
  <2>2. /\ call[t].op \in Op /\ moved[t] \in Seq(Int) /\ n \in Int /\ Transfers(t) = Script[call[t].op]
        /\ Transfers(t) \in Seq(Nat) /\ Len(moved[t]) < Len(Transfers(t))
        /\ pc[t] = "transfer" /\ UNCHANGED call
        /\ \A i \in 1..Len(moved[t]) : moved[t][i] = Transfers(t)[i]
    BY <1>0, <1>7, <2>1, ScriptType DEF RInv, IInv, Moving, Transfer, TypeOK, Transfers, Call, Whole
  <2>3. /\ moved'[t] = Append(moved[t], n) /\ bytes'[t] = b
        /\ \A u \in Thread \ {t} : moved'[u] = moved[u] /\ bytes'[u] = bytes[u]
    BY <1>0, <2>1
  <2>4. CASE LastTransfer(t)
    <3>1. call[t].op \in {"i2cBus_readByte", "i2cBus_readWord"} => b \in [1..BYTES_PER_WORD -> Byte]
      BY <2>4 DEF Buffers
    <3>2. Outcome(call[t].op, Append(moved[t], n), b, Result(call[t].op, n, b))
      BY <2>2, <2>4, <3>1, LastOutcome DEF LastTransfer
    <3> QED BY <1>4, <2>1, <2>2, <2>3, <2>4, <3>2
  <2>5. CASE ~LastTransfer(t) /\ n # Wanted(t)
    <3>1. Append(moved[t], n) \in Seq(Int) /\ Len(Append(moved[t], n)) < Len(Transfers(t))
      BY <2>2, <2>5 DEF LastTransfer
    <3>2. Outcome(call[t].op, Append(moved[t], n), b, -1)
      BY <2>2, <3>1, EarlyOutcome
    <3> QED BY <1>4, <2>1, <2>2, <2>3, <2>5, <3>2
  <2>6. CASE ~LastTransfer(t) /\ n = Wanted(t)
    <3>1. pc' = [pc EXCEPT ![t] = "check"] /\ UNCHANGED ret
      BY <2>1, <2>6
    <3>2. \A i \in 1..Len(moved'[t]) : moved'[t][i] = Transfers(t)[i]
      <4>1. /\ Len(moved'[t]) = Len(moved[t]) + 1 /\ moved'[t][Len(moved[t]) + 1] = n
            /\ \A i \in 1..Len(moved[t]) : moved'[t][i] = moved[t][i]
            /\ Len(moved[t]) \in Nat
        BY <2>2, <2>3, AppendProperties, LenProperties
      <4>2. n = Transfers(t)[Len(moved[t]) + 1]
        BY <2>6 DEF Wanted
      <4>3. \A i \in 1..Len(moved'[t]) : i \in 1..Len(moved[t]) \/ i = Len(moved[t]) + 1
        BY <4>1
      <4> QED BY <2>2, <4>1, <4>2, <4>3
    <3>3. \A u \in Thread : Transfers(u)' = Transfers(u)
      BY <2>2 DEF Transfers
    <3>4. /\ pc'[t] = "check" /\ \A u \in Thread \ {t} : pc'[u] = pc[u]
      BY <1>0, <3>1 DEF TypeOK
    <3>5. Whole'
      <4>1. ASSUME NEW u \in Thread, u # t, pc'[u] # "idle", NEW i \in 1..Len(moved'[u])
            PROVE  moved'[u][i] = Transfers(u)'[i]
        <5>1. pc[u] # "idle" /\ moved'[u] = moved[u] /\ Transfers(u)' = Transfers(u)
          BY <2>3, <3>3, <3>4, <4>1
        <5> QED BY <1>0, <4>1, <5>1 DEF Whole
      <4>2. ASSUME NEW i \in 1..Len(moved'[t])
            PROVE  moved'[t][i] = Transfers(t)'[i]
        BY <3>2, <3>3
      <4> QED BY <4>1, <4>2 DEF Whole
    <3>6. Outcomes'
      BY <1>0, <2>2, <2>3, <3>1, <3>4 DEF Outcomes
    <3> QED BY <3>5, <3>6
  <2> QED BY <2>4, <2>5, <2>6
<1> QED BY <1>1, <1>2, <1>3, <1>5, <1>6, <1>7 DEF Next

\* For any threads, slaves and bytes: what i2cBus_readByte, i2cBus_writeWord and,
\* for a low byte below 128, i2cBus_readWord return is what their transfers
\* were, whatever failed on the way.
THEOREM ResultsAreTrueAlways == Spec => []ResultsAreTrue
<1>1. Init => Whole /\ Outcomes
  BY DEF Init, Whole, Outcomes
<1>2. RInv /\ [Next]_vars => RInv'
  BY TypeStep, SelectedStep, OutcomesStep DEF RInv, IInv
<1>3. RInv => ResultsAreTrue
  BY DEF RInv, Outcomes, Outcome, ResultsAreTrue, Moves, Transfers
<1> QED
  BY <1>1, <1>2, <1>3, InitIInv, PTL DEF Spec, RInv

=============================================================================
