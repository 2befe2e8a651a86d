--------------------------- MODULE TCPStreamProofs --------------------------
(***************************************************************************)
(* Theorems about TCPStream, for any packets, senders and word size: types *)
(* and reports on every network; framing, order and content on networks    *)
(* that keep the two header words whole.                                   *)
(***************************************************************************)
EXTENDS TCPStream, TLAPS

Written(m)  == \E n \in DOMAIN sent : sent[n] = m
Reported(m) == rc[m] = "error" \/ (rc[m] = "ok" /\ Written(m))

-----------------------------------------------------------------------------
(* Types *)

\* What the listener's variables are at each place of its loop.
ListenerFits ==
    /\ lpc \in {"start", "header"} =>
         tread = 0 /\ len = 0 /\ data = <<>> /\ pieces = 0 /\ cur = NoMsg
    /\ lpc = "stamp" => tread = 0 /\ pieces = 0
    /\ lpc = "data" => tread < len /\ (pieces = 0 => tread = 0)

\* A sender between two packets has none, and one at work has one that no
\* other sender has, and that nobody has been told about.
SendersFit ==
    /\ \A s \in Sender : spc[s] # "idle" =>
         job[s] \in Msg /\ job[s] \notin unsent /\ job[s] \notin finished
    /\ \A s, t \in Sender : s # t /\ spc[s] # "idle" /\ spc[t] # "idle" => job[s] # job[t]
    /\ finished \cap unsent = {}

TInv == TypeOK /\ ListenerFits /\ SendersFit

\* A packet as a sequence of bytes.
LEMMA BytesType ==
    ASSUME NEW m \in Msg
    PROVE  /\ Bytes(m) \in Seq(Byte)
           /\ Len(Bytes(m)) = Header + Size[m]
           /\ Header \in Nat /\ Size[m] \in Nat /\ Word \in Nat \ {0}
           /\ \A n \in 1..(Header + Size[m]) : Bytes(m)[n] = <<m, n>>
<1>1. Size[m] \in Nat /\ Header \in Nat /\ Word \in Nat \ {0}
  BY WordAssumption, SizeAssumption DEF Header
<1> DEFINE L == Header + Size[m]
<1>2. L \in Nat
  BY <1>1
<1>3. \A n \in 1..L : <<m, n>> \in Byte
  BY DEF Byte
<1> HIDE DEF L
<1>4. [n \in 1..L |-> <<m, n>>] \in Seq(Byte) /\ Len([n \in 1..L |-> <<m, n>>]) = L
  BY <1>2, <1>3
<1> QED
  BY <1>1, <1>4 DEF Bytes, L

\* Data of len places.
LEMMA DataType ==
    ASSUME NEW l \in Nat, NEW f, \A n \in 1..l : f[n] \in Nat, f = [n \in 1..l |-> f[n]]
    PROVE  f \in Seq(Nat) /\ Len(f) = l
OBVIOUS

\* A part of the wire.
LEMMA PartType ==
    ASSUME NEW w \in Seq(Byte), NEW a \in Nat, NEW b \in 0..Len(w), a >= 1, a <= b + 1
    PROVE  /\ SubSeq(w, a, b) \in Seq(Byte)
           /\ Len(SubSeq(w, a, b)) = b - a + 1
           /\ \A n \in 1..(b - a + 1) : SubSeq(w, a, b)[n] = w[a + n - 1]
<1>1. \A n \in a..b : w[n] \in Byte
  OBVIOUS
<1> QED
  BY <1>1

LEMMA InitTInv == Init => TInv
<1> SUFFICES ASSUME Init PROVE TInv
  OBVIOUS
<1>1. TypeOK
  <2>1. <<>> \in Seq(Byte) /\ <<>> \in Seq(Nat) /\ <<>> \in Seq(Msg)
          /\ <<>> \in Seq(Msg \cup {NoMsg}) /\ Len(<<>>) = 0
    OBVIOUS
  <2>2. /\ wire \in Seq(Byte) /\ data \in Seq(Nat) /\ Len(data) = len
        /\ sent \in Seq(Msg) /\ delivered \in Seq(Msg \cup {NoMsg})
    BY <2>1 DEF Init
  <2>3. /\ state \in {"cs_NOTHING", "cs_WORKER"} /\ unsent \subseteq Msg
        /\ job \in [Sender -> Msg \cup {NoMsg}]
        /\ spc \in [Sender -> {"idle", "write", "wrote", "failed", "report"}]
        /\ rc \in [Msg -> {"none", "ok", "error"}] /\ finished \subseteq Msg
    BY DEF Init
  <2>4. /\ len \in Nat /\ tread \in 0..len /\ cur \in Msg \cup {NoMsg} /\ pieces \in Nat
        /\ lpc \in {"start", "header", "stamp", "data", "handler", "exited", "fault"}
        /\ status \in {"NOT_STARTED", "OKAY", "DISCONNECTED"}
    BY DEF Init
  <2>5. open \in BOOLEAN /\ stamped \in BOOLEAN /\ freed \in BOOLEAN
    BY Zenon DEF Init
  <2> QED
    BY ONLY <2>2, <2>3, <2>4, <2>5 DEF TypeOK
<1>2. ListenerFits /\ SendersFit
  BY DEF Init, ListenerFits, SendersFit
<1> QED
  BY <1>1, <1>2 DEF TInv

\* The senders' steps keep the types.
LEMMA SendTInv ==
    ASSUME TInv, NEW s \in Sender, SenderStep(s) \/ \E m \in Msg : SendBegin(s, m) \/ SendRefused(s, m)
    PROVE  TInv'
<1> USE DEF TInv, TypeOK, SendersFit, ListenerFits, reading
<1>1. ASSUME NEW m \in Msg, SendBegin(s, m) PROVE TInv'
  <2>1. TypeOK'
    BY <1>1 DEF SendBegin
  <2>2. ListenerFits' /\ SendersFit'
    BY <1>1, NoMsgAssumption DEF SendBegin
  <2> QED
    BY <2>1, <2>2
<1>6. ASSUME NEW m \in Msg, SendRefused(s, m) PROVE TInv'
  <2>1. TypeOK'
    BY <1>6 DEF SendRefused
  <2>2. ListenerFits' /\ SendersFit'
    BY <1>6 DEF SendRefused
  <2> QED
    BY <2>1, <2>2
<1>2. CASE SendWrite(s)
  <2>1. job[s] \in Msg /\ Bytes(job[s]) \in Seq(Byte)
    BY <1>2, BytesType DEF SendWrite
  <2>2. wire' \in Seq(Byte) /\ sent' \in Seq(Msg)
    BY <1>2, <2>1 DEF SendWrite
  <2>3. TypeOK'
    BY <1>2, <2>2 DEF SendWrite
  <2>4. ListenerFits' /\ SendersFit'
    BY <1>2 DEF SendWrite
  <2> QED
    BY <2>3, <2>4
<1>3. CASE SendWriteFails(s)
  <2>1. TypeOK'
    BY <1>3 DEF SendWriteFails
  <2>2. ListenerFits' /\ SendersFit'
    BY <1>3 DEF SendWriteFails
  <2> QED
    BY <2>1, <2>2
<1>4. CASE SendStoreRc(s)
  <2>1. TypeOK'
    BY <1>4 DEF SendStoreRc
  <2>2. ListenerFits' /\ SendersFit'
    BY <1>4 DEF SendStoreRc
  <2> QED
    BY <2>1, <2>2
<1>5. CASE SendFinish(s)
  <2>1. TypeOK'
    BY <1>5 DEF SendFinish
  <2>2. ListenerFits' /\ SendersFit'
    BY <1>5 DEF SendFinish
  <2> QED
    BY <2>1, <2>2
<1> QED
  BY <1>1, <1>2, <1>3, <1>4, <1>5, <1>6 DEF SenderStep

\* The peer's step and the listener's keep the types.
LEMMA ReceiveTInv ==
    ASSUME TInv, Close \/ Listener
    PROVE  TInv'
<1> USE DEF TInv, TypeOK, ListenerFits, Loop
<1>0. ASSUME UNCHANGED sending PROVE SendersFit'
  BY <1>0 DEF SendersFit, sending
<1>1. CASE Close
  <2>1. PICK n \in 0..Len(wire) : wire' = SubSeq(wire, 1, n)
    BY <1>1 DEF Close
  <2>2. wire' \in Seq(Byte)
    BY <2>1, PartType
  <2>3. TypeOK' /\ ListenerFits'
    BY <1>1, <2>2 DEF Close, sending, reading
  <2> QED
    BY <1>0, <1>1, <2>3 DEF Close
<1>2. CASE ListenerStart
  <2>1. TypeOK'
    BY <1>2 DEF ListenerStart, sending
  <2>2. ListenerFits'
    BY <1>2 DEF ListenerStart
  <2> QED
    BY <1>0, <1>2, <2>1, <2>2 DEF ListenerStart
<1>3. CASE ListenerEnd
  <2>1. TypeOK'
    BY <1>3 DEF ListenerEnd, sending
  <2>2. ListenerFits'
    BY <1>3 DEF ListenerEnd
  <2> QED
    BY <1>0, <1>3, <2>1, <2>2 DEF ListenerEnd
<1>4. CASE ReadHeader
  <2>1. PICK k \in Takes(Word, "header") :
          /\ Consume(k)
          /\ \E d \in Decoded(SubSeq(wire, 1, k)) :
               cur' = d[1] /\ len' = d[2] /\ data' = [n \in 1..d[2] |-> Unset]
    BY <1>4 DEF ReadHeader
  <2>2. k \in 1..Len(wire) /\ k <= Word
    BY WordAssumption DEF Takes, Lower
  <2>3. wire' \in Seq(Byte)
    BY <2>1, <2>2, PartType DEF Consume
  <2>4. PICK d \in Decoded(SubSeq(wire, 1, k)) :
          cur' = d[1] /\ len' = d[2] /\ data' = [n \in 1..d[2] |-> Unset]
    BY <2>1
  <2>5. d \in (Msg \cup {NoMsg}) \X Nat
    <3> DEFINE got == SubSeq(wire, 1, k)
    <3>1. CASE \E m \in Msg : got = SubSeq(Bytes(m), 1, Word)
      <4>1. PICK m \in Msg : got = SubSeq(Bytes(m), 1, Word)
        BY <3>1
      <4>2. got[1] = <<m, 1>>
        <5>1. Word \in 0..Len(Bytes(m)) /\ Word >= 1 /\ Header = 2 * Word
          <6>1. Len(Bytes(m)) = Header + Size[m] /\ Size[m] \in Nat /\ Word \in Nat \ {0}
            BY BytesType
          <6>2. Header = 2 * Word
            BY DEF Header
          <6> QED
            BY <6>1, <6>2
        <5>2. SubSeq(Bytes(m), 1, Word)[1] = Bytes(m)[1]
          <6>1. Bytes(m) \in Seq(Byte)
            BY BytesType
          <6> HIDE DEF TInv, TypeOK, ListenerFits
          <6> QED
            BY <5>1, <6>1, PartType
        <5>3. Bytes(m)[1] = <<m, 1>>
          BY <5>1, BytesType
        <5> QED
          BY <4>1, <5>2, <5>3
      <4>3. got[1][1] = m
        <5>1. got[1][1] = <<m, 1>>[1]
          BY ONLY <4>2, Zenon
        <5> QED
          BY ONLY <5>1
      <4>4. Decoded(got) = {<<got[1][1], Size[got[1][1]]>>}
        BY <3>1 DEF Decoded
      <4>5. d = <<m, Size[m]>>
        BY <2>4, <4>3, <4>4
      <4> QED
        BY <4>5, BytesType
    <3>2. CASE ~\E m \in Msg : got = SubSeq(Bytes(m), 1, Word)
      BY <3>2, SizeAssumption DEF Decoded, SizeOf
    <3> QED
      BY <3>1, <3>2
  <2>6. len' \in Nat /\ cur' \in Msg \cup {NoMsg} /\ tread' = 0 /\ pieces' = 0
    BY <1>4, <2>4, <2>5 DEF ReadHeader
  <2>7. data' \in Seq(Nat) /\ Len(data') = len'
    BY <2>4, <2>6 DEF Unset
  <2>8. TypeOK' /\ ListenerFits'
    <3>1. TypeOK'
      BY <1>4, <2>3, <2>6, <2>7 DEF ReadHeader, sending
    <3>2. ListenerFits'
      BY <1>4, <2>6 DEF ReadHeader
    <3> QED
      BY <3>1, <3>2
  <2> QED
    BY <1>0, <1>4, <2>8 DEF ReadHeader
<1>5. CASE ReadStamp
  <2>1. wire' \in Seq(Byte) /\ stamped' \in BOOLEAN
    <3>1. CASE AtEnd /\ UNCHANGED <<wire, stamped>>
      BY <3>1
    <3>2. ASSUME NEW k \in Takes(Word, "stamp"), Consume(k)
          PROVE  wire' \in Seq(Byte)
      <4>1. k \in 1..Len(wire)
        BY WordAssumption DEF Takes, Lower
      <4> QED
        BY <3>2, <4>1, PartType DEF Consume
    <3> QED
      BY <1>5, <3>1, <3>2 DEF ReadStamp
  <2>2. TypeOK' /\ ListenerFits'
    BY <1>5, <2>1 DEF ReadStamp, Loop, sending
  <2> QED
    BY <1>0, <1>5, <2>2 DEF ReadStamp
<1>6. CASE ReadData
  <2>1. PICK k \in Takes(len - tread, "data") :
          /\ Consume(k)
          /\ data' = [n \in 1..len |-> IF n <= k THEN Place(wire[n]) ELSE data[n]]
          /\ tread' = tread + k
          /\ Loop(IF tread + k = len THEN "handler" ELSE "data")
    BY <1>6 DEF ReadData
  <2>2. k \in 1..Len(wire) /\ k <= len - tread /\ lpc = "data"
    BY <1>6 DEF Takes, Lower, ReadData
  <2>3. wire' \in Seq(Byte)
    <3>1. k \in Nat /\ k + 1 \in Nat /\ k + 1 >= 1 /\ wire \in Seq(Byte) /\ Len(wire) \in 0..Len(wire)
            /\ k + 1 <= Len(wire) + 1
      BY <2>2
    <3>2. SubSeq(wire, k + 1, Len(wire)) \in Seq(Byte)
      BY ONLY <3>1, PartType
    <3> QED
      BY <2>1, <3>2 DEF Consume
  <2>4. ASSUME NEW n \in 1..len
        PROVE  (IF n <= k THEN Place(wire[n]) ELSE data[n]) \in Nat
    <3>1. CASE n <= k
      <4>1. wire[n] \in Byte
        BY <2>2, <3>1
      <4>2. Place(wire[n]) \in Nat
        BY <4>1, WordAssumption DEF Place, Byte, Header, Unset
      <4> QED
        BY <3>1, <4>2
    <3>2. CASE ~(n <= k)
      BY <3>2
    <3> QED
      BY <3>1, <3>2
  <2>5. data' \in Seq(Nat) /\ Len(data') = len
    <3> DEFINE f == [n \in 1..len |-> IF n <= k THEN Place(wire[n]) ELSE data[n]]
    <3>1. \A n \in 1..len : f[n] \in Nat
      BY <2>4
    <3>2. f = [n \in 1..len |-> f[n]]
      OBVIOUS
    <3>3. len \in Nat
      OBVIOUS
    <3> HIDE DEF f
    <3>4. f \in Seq(Nat) /\ Len(f) = len
      BY ONLY <3>1, <3>2, <3>3, DataType
    <3> QED
      BY ONLY <2>1, <3>4 DEF f
  <2>6. TypeOK' /\ ListenerFits'
    BY <1>6, <2>1, <2>2, <2>3, <2>5, SMTT(40) DEF ReadData, Loop, sending
  <2> QED
    BY <1>0, <1>6, <2>6 DEF ReadData
<1>7. CASE ReadDataEnd
  <2>1. TypeOK'
    BY <1>7 DEF ReadDataEnd, sending
  <2>2. ListenerFits'
    BY <1>7 DEF ReadDataEnd
  <2> QED
    BY <1>0, <1>7, <2>1, <2>2 DEF ReadDataEnd
<1>8. CASE Handle
  <2>1. <<>> \in Seq(Nat) /\ Len(<<>>) = 0
    OBVIOUS
  <2>2. delivered' \in Seq(Msg \cup {NoMsg})
    BY <1>8 DEF Handle
  <2>3. data' \in Seq(Nat) /\ Len(data') = len' /\ len' = 0 /\ tread' = 0 /\ tread' \in 0..len'
    BY <1>8, <2>1 DEF Handle
  <2>6. stamped' \in BOOLEAN /\ freed' \in BOOLEAN
    BY <1>8, Zenon DEF Handle
  <2>4. TypeOK'
    BY <1>8, <2>2, <2>3, <2>6 DEF Handle, sending
  <2>5. ListenerFits'
    BY <1>8 DEF Handle
  <2> QED
    BY <1>0, <1>8, <2>4, <2>5 DEF Handle
<1> QED
  BY <1>1, <1>2, <1>3, <1>4, <1>5, <1>6, <1>7, <1>8 DEF Listener

LEMMA NextTInv == TInv /\ [Next]_vars => TInv'
<1> SUFFICES ASSUME TInv, [Next]_vars PROVE TInv'
  OBVIOUS
<1>1. CASE UNCHANGED vars
  BY <1>1 DEF vars, sending, reading, TInv, TypeOK, ListenerFits, SendersFit
<1>2. CASE Connect
  BY <1>2 DEF Connect, reading, TInv, TypeOK, ListenerFits, SendersFit
<1> QED
  BY <1>1, <1>2, SendTInv, ReceiveTInv DEF Next

\* Every reachable state is well typed, on any network.
THEOREM TypeAlways == Spec => []TypeOK
<1>1. TInv => TypeOK
  BY DEF TInv
<1> QED
  BY <1>1, InitTInv, NextTInv, PTL DEF Spec

-----------------------------------------------------------------------------
(* Reports *)

\* Each packet is written by one sender, once, and what is told of it is so.
SInv ==
    /\ \A s \in Sender : spc[s] = "wrote" => Written(job[s])
    /\ \A s \in Sender : spc[s] = "report" => Reported(job[s])
    /\ \A m \in finished : Reported(m)
    /\ \A n \in DOMAIN sent : sent[n] \notin unsent
    /\ \A s \in Sender : spc[s] = "write" => ~Written(job[s])
    /\ \A i, j \in DOMAIN sent : sent[i] = sent[j] => i = j

LEMMA InitSInv == Init => SInv
<1> SUFFICES ASSUME Init PROVE SInv
  OBVIOUS
<1>1. DOMAIN sent = {}
  BY DEF Init
<1> QED
  BY <1>1 DEF Init, SInv

\* A packet that is appended to a sequence is in it, after what was there.
LEMMA Appended ==
    ASSUME NEW q \in Seq(Msg), NEW m \in Msg
    PROVE  /\ Append(q, m) \in Seq(Msg)
           /\ Len(Append(q, m)) = Len(q) + 1
           /\ DOMAIN Append(q, m) = DOMAIN q \cup {Len(q) + 1}
           /\ Len(q) + 1 \notin DOMAIN q
           /\ DOMAIN q = 1..Len(q)
           /\ \A n \in DOMAIN q : Append(q, m)[n] = q[n]
           /\ Append(q, m)[Len(q) + 1] = m
OBVIOUS

LEMMA SendSInv ==
    ASSUME TInv, SInv, NEW s \in Sender, SenderStep(s) \/ \E m \in Msg : SendBegin(s, m) \/ SendRefused(s, m)
    PROVE  SInv'
<1> USE DEF SInv, Written, Reported
<1>a. TypeOK /\ SendersFit
  BY DEF TInv
<1>t. /\ job \in [Sender -> Msg \cup {NoMsg}] /\ rc \in [Msg -> {"none", "ok", "error"}]
      /\ spc \in [Sender -> {"idle", "write", "wrote", "failed", "report"}]
      /\ sent \in Seq(Msg) /\ finished \subseteq Msg
  BY <1>a DEF TypeOK
<1>1. ASSUME NEW m \in Msg, SendBegin(s, m) PROVE SInv'
  <2>1. UNCHANGED <<sent, rc, finished>> /\ unsent' = unsent \ {m} /\ m \in unsent
    BY <1>1 DEF SendBegin
  <2>2. job' = [job EXCEPT ![s] = m] /\ spc' = [spc EXCEPT ![s] = "write"]
    BY <1>1 DEF SendBegin
  <2> QED
    BY <1>t, <2>1, <2>2
<1>6. ASSUME NEW m \in Msg, SendRefused(s, m) PROVE SInv'
  <2>1. /\ UNCHANGED <<sent, job, spc, finished>> /\ unsent' = unsent \ {m} /\ m \in unsent
        /\ rc' = [rc EXCEPT ![m] = "error"]
    BY <1>6 DEF SendRefused
  <2>2. \A x \in Msg : Reported(x) => Reported(x)'
    BY <1>t, <2>1
  <2>3. \A t \in Sender : spc[t] = "report" => job[t] \in Msg
    BY <1>a DEF SendersFit
  <2>4. \A t \in Sender : spc'[t] = "report" => Reported(job[t])'
    BY <2>1, <2>2, <2>3
  <2>5. \A x \in finished' : Reported(x)'
    BY <1>t, <2>1, <2>2
  <2> QED
    BY <2>1, <2>4, <2>5
<1>2. CASE SendWrite(s)
  <2>1. /\ spc[s] = "write" /\ spc' = [spc EXCEPT ![s] = "wrote"]
        /\ sent' = Append(sent, job[s]) /\ UNCHANGED <<unsent, job, rc, finished>>
    BY <1>2 DEF SendWrite
  <2>2. job[s] \in Msg /\ job[s] \notin unsent
    BY <1>a, <2>1 DEF SendersFit
  <2> DEFINE e == Len(sent) + 1
  <2>3. /\ DOMAIN sent' = DOMAIN sent \cup {e} /\ e \notin DOMAIN sent
        /\ \A n \in DOMAIN sent : sent'[n] = sent[n]
        /\ sent'[e] = job[s]
    BY <1>t, <2>1, <2>2, Appended
  <2> HIDE DEF e
  <2>4. \A m : Written(m) => Written(m)'
    BY <2>3
  <2>5. \A m : Written(m)' => Written(m) \/ m = job[s]
    BY <2>3
  <2>6. Written(job[s])'
    BY <2>1, <2>3
  <2>7. \A t \in Sender : spc'[t] = "wrote" => Written(job[t])'
    BY ONLY SInv, <1>t, <2>1, <2>4, <2>6 DEF SInv
  <2>8. \A t \in Sender : spc'[t] = "report" => Reported(job[t])'
    BY <1>t, <2>1, <2>4
  <2>9. \A m \in finished' : Reported(m)'
    BY <2>1, <2>4
  <2>10. \A n \in DOMAIN sent' : sent'[n] \notin unsent'
    BY <2>1, <2>2, <2>3
  <2>11. \A t \in Sender : spc'[t] = "write" => ~Written(job[t])'
    <3> SUFFICES ASSUME NEW t \in Sender, spc'[t] = "write" PROVE ~Written(job[t])'
      OBVIOUS
    <3>1. t # s /\ spc[t] = "write"
      BY <1>t, <2>1
    <3>2. job[t] # job[s]
      BY <1>a, <2>1, <3>1 DEF SendersFit
    <3> QED
      BY <2>1, <2>5, <3>1, <3>2
  <2>12. \A i, j \in DOMAIN sent' : sent'[i] = sent'[j] => i = j
    BY <2>1, <2>3
  <2> QED
    BY <2>7, <2>8, <2>9, <2>10, <2>11, <2>12
<1>3. CASE SendWriteFails(s)
  BY <1>3, <1>t DEF SendWriteFails
<1>4. CASE SendStoreRc(s)
  <2>1. /\ spc[s] \in {"wrote", "failed"} /\ UNCHANGED <<unsent, job, finished, sent>>
        /\ rc' = [rc EXCEPT ![job[s]] = IF spc[s] = "wrote" THEN "ok" ELSE "error"]
        /\ spc' = [spc EXCEPT ![s] = "report"]
    BY <1>4 DEF SendStoreRc
  <2>2. job[s] \in Msg /\ job[s] \notin finished
    BY <1>a, <2>1 DEF SendersFit
  <2>3. Reported(job[s])'
    BY <1>t, <2>1, <2>2
  <2>4. \A t \in Sender : spc'[t] = "report" => Reported(job[t])'
    <3> SUFFICES ASSUME NEW t \in Sender, t # s, spc[t] = "report" PROVE Reported(job[t])'
      BY <1>t, <2>1, <2>3
    <3>1. job[t] # job[s]
      BY <1>a, <2>1 DEF SendersFit
    <3> QED
      BY <1>t, <2>1, <3>1
  <2>5. \A m \in finished' : Reported(m)'
    BY <1>t, <2>1, <2>2
  <2>6. \A t \in Sender : /\ spc'[t] = "wrote" => Written(job[t])'
                          /\ spc'[t] = "write" => ~Written(job[t])'
    BY <1>t, <2>1
  <2> QED
    BY <2>1, <2>4, <2>5, <2>6
<1>5. CASE SendFinish(s)
  <2>1. /\ spc[s] = "report" /\ UNCHANGED <<unsent, rc, sent>>
        /\ finished' = finished \cup {job[s]}
        /\ job' = [job EXCEPT ![s] = NoMsg] /\ spc' = [spc EXCEPT ![s] = "idle"]
    BY <1>5 DEF SendFinish
  <2>2. \A t \in Sender : t # s => job'[t] = job[t] /\ spc'[t] = spc[t]
    BY <1>t, <2>1
  <2>3. spc'[s] = "idle"
    BY <1>t, <2>1
  <2>4. \A m \in finished' : Reported(m)'
    BY <2>1
  <2> QED
    BY <2>1, <2>2, <2>3, <2>4
<1> QED
  BY <1>1, <1>2, <1>3, <1>4, <1>5, <1>6 DEF SenderStep

LEMMA NextSInv == TInv /\ SInv /\ [Next]_vars => SInv'
<1> SUFFICES ASSUME TInv, SInv, [Next]_vars PROVE SInv'
  OBVIOUS
<1>1. ASSUME UNCHANGED <<unsent, job, spc, rc, finished, sent>> PROVE SInv'
  BY <1>1 DEF SInv, Written, Reported
<1>2. CASE Close
  BY <1>1, <1>2 DEF Close, sending
<1>5. CASE Connect
  BY <1>1, <1>5 DEF Connect
<1>3. CASE Listener
  <2>1. UNCHANGED sending /\ UNCHANGED sent
    BY <1>3 DEF Listener, ListenerStart, ListenerEnd, ReadHeader, ReadStamp, ReadData,
                ReadDataEnd, Handle
  <2> QED
    BY <1>1, <2>1 DEF sending
<1>4. CASE UNCHANGED vars
  BY <1>1, <1>4 DEF vars, sending
<1> QED
  BY <1>2, <1>3, <1>4, <1>5, SendSInv DEF Next

\* What *finished and *rc tell the caller of llnet_connection_send_thread is
\* so, on any network, for any number of callers.
THEOREM FinishedAlways == Spec => []FinishedMeansReported
<1>1. Init => TInv /\ SInv
  BY InitTInv, InitSInv
<1>2. (TInv /\ SInv) /\ [Next]_vars => (TInv /\ SInv)'
  BY NextTInv, NextSInv
<1>3. TInv /\ SInv => FinishedMeansReported
  BY DEF SInv, Reported, Written, FinishedMeansReported
<1> QED
  BY <1>1, <1>2, <1>3, PTL DEF Spec

-----------------------------------------------------------------------------
(* Framing, on a network that keeps the two header words whole *)

HeadersWhole == {"header", "stamp"} \subseteq Whole

End(m) == Header + Size[m]

\* A stream w that holds packets of the sequence q, in the order of q: bytes
\* of a packet follow one another, and after its last byte comes the first of
\* the packet that is next in q.
Framed(w, q) ==
    /\ \A j \in 1..Len(w) : w[j][1] \in Msg /\ w[j][2] \in 1..End(w[j][1])
    /\ \A i, j \in 1..Len(w) :
         i <= j /\ w[i][2] + (j - i) <= End(w[i][1]) => w[j] = <<w[i][1], w[i][2] + (j - i)>>
    /\ \A j \in 1..(Len(w) - 1) :
         w[j][2] = End(w[j][1]) =>
           /\ w[j + 1][2] = 1
           /\ \E i \in 1..(Len(q) - 1) : q[i] = w[j][1] /\ q[i + 1] = w[j + 1][1]

LEMMA EndType ==
    /\ Word \in Nat \ {0} /\ Header \in Nat /\ Header = 2 * Word
    /\ \A m \in Msg : Size[m] \in Nat /\ End(m) \in Nat /\ End(m) = Header + Size[m]
BY WordAssumption, SizeAssumption DEF Header, End

\* A part of a framed stream is framed.
LEMMA FramedPart ==
    ASSUME NEW w \in Seq(Byte), NEW q, Framed(w, q),
           NEW a \in Nat, NEW b \in 0..Len(w), a >= 1, a <= b + 1
    PROVE  Framed(SubSeq(w, a, b), q)
<1> DEFINE v == SubSeq(w, a, b)
<1>1. Len(v) = b - a + 1 /\ \A n \in 1..Len(v) : v[n] = w[a + n - 1] /\ a + n - 1 \in 1..Len(w)
  BY PartType
<1>2. Len(w) \in Nat /\ Len(v) \in Nat
  BY <1>1
<1> HIDE DEF v
<1>3. \A j \in 1..Len(v) : v[j][1] \in Msg /\ v[j][2] \in 1..End(v[j][1])
  BY <1>1 DEF Framed
<1>4. ASSUME NEW i \in 1..Len(v), NEW j \in 1..Len(v), i <= j,
             v[i][2] + (j - i) <= End(v[i][1])
      PROVE  v[j] = <<v[i][1], v[i][2] + (j - i)>>
  <2>1. (a + j - 1) - (a + i - 1) = j - i /\ a + i - 1 <= a + j - 1
    BY <1>4, <1>2
  <2> QED
    BY <1>1, <1>4, <2>1 DEF Framed
<1>5. ASSUME NEW j \in 1..(Len(v) - 1), v[j][2] = End(v[j][1])
      PROVE  /\ v[j + 1][2] = 1
             /\ \E i \in 1..(Len(q) - 1) : q[i] = v[j][1] /\ q[i + 1] = v[j + 1][1]
  <2>1. j \in 1..Len(v) /\ j + 1 \in 1..Len(v)
    BY <1>2
  <2>2. v[j] = w[a + j - 1] /\ v[j + 1] = w[a + j] /\ a + j - 1 \in 1..(Len(w) - 1)
          /\ (a + j - 1) + 1 = a + j
    BY <1>1, <1>2, <2>1
  <2> QED
    BY <1>5, <2>2 DEF Framed
<1>6. Framed(v, q)
  BY <1>3, <1>4, <1>5 DEF Framed
<1> QED
  BY <1>6 DEF v

LEMMA ByteIsPair == ASSUME NEW b \in Byte PROVE b = <<b[1], b[2]>>
BY DEF Byte

LEMMA Joined ==
    ASSUME NEW S, NEW w \in Seq(S), NEW u \in Seq(S)
    PROVE  /\ w \o u \in Seq(S)
           /\ Len(w \o u) = Len(w) + Len(u)
           /\ \A n \in 1..Len(w) : (w \o u)[n] = w[n]
           /\ \A n \in (Len(w) + 1)..(Len(w) + Len(u)) : (w \o u)[n] = u[n - Len(w)]
OBVIOUS

\* A framed stream that ends with the end of the last packet of q stays framed
\* when a packet is appended to both.
LEMMA FramedJoin ==
    ASSUME NEW w \in Seq(Byte), NEW q \in Seq(Msg), NEW m \in Msg, Framed(w, q),
           w # <<>> => Len(q) >= 1 /\ w[Len(w)] = <<q[Len(q)], End(q[Len(q)])>>
    PROVE  Framed(w \o Bytes(m), Append(q, m))
<1> DEFINE e == Len(w)  v == w \o Bytes(m)  r == Append(q, m)  B == Bytes(m)
<1>1. e \in Nat /\ End(m) \in Nat /\ End(m) >= 2 /\ B \in Seq(Byte) /\ Len(B) = End(m)
  BY BytesType, EndType, SMTT(40)
<1>2. \A n \in 1..End(m) : B[n] = <<m, n>>
  BY BytesType DEF End
<1>3. Len(v) = e + End(m) /\ \A n \in 1..e : v[n] = w[n]
  BY <1>1, Joined
<1>4. \A n \in (e + 1)..(e + End(m)) : v[n] = <<m, n - e>>
  <2> SUFFICES ASSUME NEW n \in (e + 1)..(e + End(m)) PROVE v[n] = <<m, n - e>>
    OBVIOUS
  <2>1. v[n] = B[n - e] /\ n - e \in 1..End(m)
    BY <1>1, Joined
  <2> QED
    BY <1>2, <2>1
<1>5. Len(q) \in Nat /\ Len(r) = Len(q) + 1 /\ r[Len(q) + 1] = m
      /\ \A n \in 1..Len(q) : r[n] = q[n]
  BY Appended
<1>6. e # 0 => Len(q) >= 1 /\ w[e] = <<q[Len(q)], End(q[Len(q)])>> /\ q[Len(q)] \in Msg
  OBVIOUS
<1>f. /\ \A j \in 1..e : w[j][1] \in Msg /\ w[j][2] \in 1..End(w[j][1])
      /\ \A i, j \in 1..e :
           i <= j /\ w[i][2] + (j - i) <= End(w[i][1])
             => w[j] = <<w[i][1], w[i][2] + (j - i)>>
  BY DEF Framed
<1> HIDE DEF v, r, B, e
<1>7. \A j \in 1..Len(v) : v[j][1] \in Msg /\ v[j][2] \in 1..End(v[j][1])
  <2> SUFFICES ASSUME NEW j \in 1..Len(v) PROVE v[j][1] \in Msg /\ v[j][2] \in 1..End(v[j][1])
    OBVIOUS
  <2>1. CASE j <= e
    BY <1>1, <1>3, <1>f, <2>1
  <2>2. CASE j > e
    <3>1. v[j] = <<m, j - e>> /\ j - e \in 1..End(m)
      BY <1>1, <1>3, <1>4, <2>2
    <3> QED
      BY <3>1
  <2> QED
    BY <1>1, <2>1, <2>2
<1>8. ASSUME NEW i \in 1..Len(v), NEW j \in 1..Len(v), i <= j,
             v[i][2] + (j - i) <= End(v[i][1])
      PROVE  v[j] = <<v[i][1], v[i][2] + (j - i)>>
  <2>1. CASE j <= e
    <3>1. i \in 1..e /\ j \in 1..e /\ v[i] = w[i] /\ v[j] = w[j]
      BY <1>1, <1>3, <1>8, <2>1
    <3> QED
      BY <1>f, <1>8, <3>1
  <2>2. CASE i > e
    <3>1. v[i] = <<m, i - e>> /\ v[j] = <<m, j - e>>
      BY <1>1, <1>3, <1>4, <1>8, <2>2, SMTT(40)
    <3> QED
      BY <1>1, <3>1
  <2>3. CASE i <= e /\ j > e
    <3>1. i \in 1..e /\ e \in 1..e /\ v[i] = w[i] /\ e # 0 /\ j - i > e - i
      BY <1>1, <1>3, <2>3
    <3>2. w[i][2] \in Nat /\ End(w[i][1]) \in Nat
      <4>1. w[i][1] \in Msg /\ w[i][2] \in 1..End(w[i][1])
        BY <3>1, <1>f
      <4>2. End(w[i][1]) \in Nat
        BY <4>1, EndType
      <4> QED
        BY <4>1, <4>2
    <3>3. w[i][2] + (e - i) < End(w[i][1])
      BY <1>1, <1>8, <3>1, <3>2, SMTT(40)
    <3>4. w[e] = <<w[i][1], w[i][2] + (e - i)>>
      <4>1. i <= e /\ w[i][2] + (e - i) <= End(w[i][1])
        <5> DEFINE x == w[i][2]  y == End(w[i][1])
        <5>1. x \in Nat /\ y \in Nat /\ e - i \in Int /\ x + (e - i) < y
          BY <1>1, <3>1, <3>2, <3>3
        <5> HIDE DEF x, y
        <5>2. x + (e - i) <= y
          BY ONLY <5>1
        <5> QED
          BY <2>3, <5>2 DEF x, y
      <4> QED
        BY <1>f, <3>1, <4>1
    <3>5. w[e][1] = w[i][1] /\ w[e][2] = w[i][2] + (e - i)
      BY <3>4
    <3>6. w[e][2] = End(w[e][1])
      BY <1>6, <3>1
    <3> QED
      BY <1>1, <3>2, <3>3, <3>5, <3>6
  <2> QED
    BY <1>1, <2>1, <2>2, <2>3
<1>9. ASSUME NEW j \in 1..(Len(v) - 1), v[j][2] = End(v[j][1])
      PROVE  /\ v[j + 1][2] = 1
             /\ \E i \in 1..(Len(r) - 1) : r[i] = v[j][1] /\ r[i + 1] = v[j + 1][1]
  <2>1. CASE j < e
    <3>1. j \in 1..(e - 1) /\ v[j] = w[j] /\ v[j + 1] = w[j + 1]
      BY <1>1, <1>3, <2>1
    <3>2. PICK i \in 1..(Len(q) - 1) : q[i] = w[j][1] /\ q[i + 1] = w[j + 1][1]
      BY <1>9, <3>1 DEF Framed, e
    <3>3. i \in 1..(Len(r) - 1) /\ r[i] = q[i] /\ r[i + 1] = q[i + 1]
      BY <1>5
    <3>4. v[j + 1][2] = 1
      BY <1>9, <3>1 DEF Framed, e
    <3> QED
      BY <3>1, <3>2, <3>3, <3>4
  <2>2. CASE j = e
    <3>a. e # 0 /\ e \in 1..e /\ e + 1 \in (e + 1)..(e + End(m)) /\ (e + 1) - e = 1
      BY <1>1, <2>2
    <3>b. v[e + 1] = <<m, (e + 1) - e>> /\ v[e] = w[e]
      BY <1>3, <1>4, <3>a
    <3>1. v[j] = w[e] /\ v[j + 1] = <<m, 1>> /\ e # 0
      BY <2>2, <3>a, <3>b
    <3>2. Len(q) \in 1..(Len(r) - 1) /\ r[Len(q)] = v[j][1] /\ r[Len(q) + 1] = v[j + 1][1]
      BY <1>5, <1>6, <3>1
    <3>3. v[j + 1][2] = 1
      BY ONLY <3>1
    <3>4. \E i \in 1..(Len(r) - 1) : r[i] = v[j][1] /\ r[i + 1] = v[j + 1][1]
      BY ONLY <3>2, Zenon
    <3> QED
      BY <3>3, <3>4
  <2>3. CASE j > e
    <3>1. v[j] = <<m, j - e>> /\ j - e < End(m)
      BY <1>1, <1>3, <1>4, <2>3
    <3> QED
      BY <1>1, <1>9, <3>1
  <2> QED
    BY <1>1, <1>3, <2>1, <2>2, <2>3
<1>10. Framed(v, r)
  BY <1>7, <1>8, <1>9 DEF Framed
<1> QED
  BY <1>10 DEF v, r

LEMMA FramedMore ==
    ASSUME NEW w \in Seq(Byte), NEW q \in Seq(Msg), NEW m \in Msg, Framed(w, q)
    PROVE  Framed(w, Append(q, m))
<1> DEFINE r == Append(q, m)
<1>1. Len(q) \in Nat /\ Len(r) = Len(q) + 1 /\ \A n \in 1..Len(q) : r[n] = q[n]
  BY Appended
<1> HIDE DEF r
<1>2. ASSUME NEW j \in 1..(Len(w) - 1), w[j][2] = End(w[j][1])
      PROVE  /\ w[j + 1][2] = 1
             /\ \E i \in 1..(Len(r) - 1) : r[i] = w[j][1] /\ r[i + 1] = w[j + 1][1]
  <2>1. w[j + 1][2] = 1
    BY <1>2 DEF Framed
  <2>2. PICK i \in 1..(Len(q) - 1) : q[i] = w[j][1] /\ q[i + 1] = w[j + 1][1]
    BY <1>2 DEF Framed
  <2>3. i \in 1..(Len(r) - 1) /\ r[i] = w[j][1] /\ r[i + 1] = w[j + 1][1]
    BY <1>1, <2>2
  <2> QED
    BY <2>1, <2>3
<1>3. Framed(w, r)
  BY <1>2 DEF Framed
<1> QED
  BY <1>3 DEF r

\* What is left, v, of a stream w of which k bytes of packet m were read, from
\* its byte o on: it begins with the next byte of m or, after its last one,
\* with the next packet.
Advanced(w, q, m, o, k, v) ==
    /\ v \in Seq(Byte) /\ Len(v) = Len(w) - k /\ Framed(v, q)
    /\ \A n \in 1..k : w[n] = <<m, o + n - 1>>
    /\ v # <<>> /\ o + k - 1 < End(m) => v[1] = <<m, o + k>>
    /\ v # <<>> /\ o + k - 1 = End(m) =>
         \E i \in 1..(Len(q) - 1) : q[i] = m /\ v[1] = <<q[i + 1], 1>>
    /\ v = <<>> => w[Len(w)] = <<m, o + k - 1>>
    /\ v # <<>> => v[Len(v)] = w[Len(w)]

LEMMA Advance ==
    ASSUME NEW w \in Seq(Byte), NEW q \in Seq(Msg), Framed(w, q),
           NEW m \in Msg, NEW o \in 1..End(m), w # <<>>, w[1] = <<m, o>>,
           NEW k \in 1..Len(w), o + k - 1 <= End(m),
           NEW v, v = SubSeq(w, k + 1, Len(w))
    PROVE  Advanced(w, q, m, o, k, v)
<1>1. k + 1 \in Nat /\ Len(w) \in 0..Len(w) /\ k + 1 >= 1 /\ k + 1 <= Len(w) + 1
      /\ k \in Nat /\ o \in Nat /\ End(m) \in Nat /\ Len(w) \in Nat
  BY EndType
<1>2. /\ v \in Seq(Byte) /\ Len(v) = Len(w) - k /\ Framed(v, q)
      /\ \A n \in 1..Len(v) : v[n] = w[k + n]
  <2>1. Framed(v, q)
    BY <1>1, FramedPart
  <2>2. v \in Seq(Byte) /\ Len(v) = Len(w) - (k + 1) + 1
        /\ \A n \in 1..(Len(w) - (k + 1) + 1) : v[n] = w[k + 1 + n - 1]
    BY <1>1, PartType
  <2>3. \A n \in 1..Len(v) : k + 1 + n - 1 = k + n
    BY <1>1, <2>2
  <2> QED
    BY <1>1, <2>1, <2>2, <2>3
<1>3. ASSUME NEW n \in 1..Len(w), o + n - 1 <= End(m)
      PROVE  w[n] = <<m, o + n - 1>>
  <2>1. w[1][1] = m /\ w[1][2] = o
    OBVIOUS
  <2>2. 1 \in 1..Len(w) /\ 1 <= n /\ w[1][2] + (n - 1) <= End(w[1][1])
    BY <1>1, <1>3, <2>1
  <2>3. w[n] = <<w[1][1], w[1][2] + (n - 1)>>
    BY <2>2 DEF Framed
  <2>4. o + (n - 1) = o + n - 1
    BY <1>1
  <2> QED
    BY <2>1, <2>3, <2>4
<1>4. \A n \in 1..k : w[n] = <<m, o + n - 1>>
  <2> SUFFICES ASSUME NEW n \in 1..k PROVE w[n] = <<m, o + n - 1>>
    OBVIOUS
  <2>1. n \in 1..Len(w) /\ o + n - 1 <= End(m)
    BY <1>1
  <2> QED
    BY <1>3, <2>1
<1>5. v # <<>> => Len(v) >= 1 /\ k + 1 \in 1..Len(w) /\ v[1] = w[k + 1] /\ v[Len(v)] = w[Len(w)]
  <2> SUFFICES ASSUME v # <<>>
               PROVE  Len(v) >= 1 /\ k + 1 \in 1..Len(w) /\ v[1] = w[k + 1]
                      /\ v[Len(v)] = w[Len(w)]
    OBVIOUS
  <2>1. Len(v) >= 1 /\ Len(v) \in Nat
    BY ONLY v # <<>>, <1>2
  <2>2. k + 1 \in 1..Len(w) /\ k + Len(v) = Len(w)
    BY <1>1, <1>2, <2>1
  <2> QED
    BY <1>2, <2>1, <2>2
<1>6. v # <<>> /\ o + k - 1 < End(m) => v[1] = <<m, o + k>>
  <2> SUFFICES ASSUME v # <<>>, o + k - 1 < End(m) PROVE w[k + 1] = <<m, o + k>>
    BY <1>5
  <2>1. o + (k + 1) - 1 = o + k /\ o + k <= End(m)
    BY <1>1
  <2> QED
    BY <1>3, <1>5, <2>1
<1>7. ASSUME v # <<>>, o + k - 1 = End(m)
      PROVE  \E i \in 1..(Len(q) - 1) : q[i] = m /\ v[1] = <<q[i + 1], 1>>
  <2>1. k \in 1..(Len(w) - 1) /\ w[k] = <<m, End(m)>>
    BY <1>1, <1>4, <1>5, <1>7
  <2>2. w[k][1] = m /\ w[k][2] = End(w[k][1])
    BY <2>1
  <2>3. /\ w[k + 1][2] = 1
        /\ \E i \in 1..(Len(q) - 1) : q[i] = m /\ q[i + 1] = w[k + 1][1]
    BY <2>1, <2>2 DEF Framed
  <2>4. w[k + 1] = <<w[k + 1][1], w[k + 1][2]>>
    <3>1. w[k + 1] \in Byte
      BY <1>5, <1>7
    <3> QED
      BY ONLY <3>1, ByteIsPair
  <2> QED
    BY <1>5, <1>7, <2>3, <2>4
<1>8. v = <<>> => w[Len(w)] = <<m, o + k - 1>>
  <2> SUFFICES ASSUME v = <<>> PROVE w[Len(w)] = <<m, o + k - 1>>
    OBVIOUS
  <2>1. Len(v) = 0
    BY ONLY v = <<>>
  <2>2. k = Len(w)
    BY <1>1, <1>2, <2>1
  <2> QED
    BY <1>4, <2>2
<1> QED
  BY <1>2, <1>4, <1>5, <1>6, <1>7, <1>8 DEF Advanced

\* The end of the stream of an open connection is the end of the packet that
\* was written last.
EndsWhole ==
    open /\ wire # <<>> =>
      Len(sent) >= 1 /\ wire[Len(wire)] = <<sent[Len(sent)], End(sent[Len(sent)])>>

\* What is to be read is the packet d places after the ones delivered.
AtNext(d) ==
    /\ wire # <<>> =>
         Len(delivered) + d < Len(sent) /\ wire[1] = <<sent[Len(delivered) + d + 1], 1>>
    /\ open /\ wire = <<>> => Len(delivered) + d = Len(sent)

\* What is to be read is byte o of the packet at hand; an open connection has it.
AtByte(o) ==
    /\ wire # <<>> => wire[1] = <<cur, o>>
    /\ open => wire # <<>>

CurIsNext ==
    cur \in Msg /\ len = Size[cur] /\ Len(delivered) < Len(sent) /\ cur = sent[Len(delivered) + 1]

Placed ==
    /\ lpc \in {"start", "header"} => AtNext(0)
    /\ lpc \in {"stamp", "data", "handler"} => CurIsNext
    /\ lpc = "stamp" => AtByte(Word + 1)
    /\ lpc = "data" => AtByte(Header + tread + 1)
    /\ lpc = "handler" => AtNext(1)

Kept ==
    /\ freed => ~open
    /\ open /\ lpc \in {"data", "handler"} => stamped
    /\ open /\ lpc = "handler" /\ pieces <= 1 => data = [n \in 1..Size[cur] |-> n]

FInv == Framed(wire, sent) /\ EndsWhole /\ Placed /\ Kept

LEMMA InitFInv == Init => FInv
<1> SUFFICES ASSUME Init PROVE FInv
  OBVIOUS
<1>1. wire = <<>> /\ Len(wire) = 0 /\ Len(sent) = 0 /\ Len(delivered) = 0
  BY DEF Init
<1>2. Framed(wire, sent)
  BY <1>1 DEF Framed
<1>3. EndsWhole
  BY <1>1 DEF EndsWhole
<1>4. Placed
  BY <1>1 DEF Init, Placed, AtNext
<1>5. Kept
  BY DEF Init, Kept
<1> QED
  BY <1>2, <1>3, <1>4, <1>5 DEF FInv

\* Steps that leave the stream and the listener alone keep what is between them.
LEMMA SameFInv ==
    ASSUME FInv, UNCHANGED <<wire, open, reading, sent, delivered>>
    PROVE  FInv'
BY DEF FInv, EndsWhole, Placed, Kept, AtNext, AtByte, CurIsNext, reading

LEMMA SendWriteFInv ==
    ASSUME TInv, FInv, NEW s \in Sender, SendWrite(s)
    PROVE  FInv'
<1> DEFINE m == job[s]  e == Len(sent) + 1  D == Len(delivered)
<1>1. /\ wire \in Seq(Byte) /\ sent \in Seq(Msg) /\ D \in Nat /\ open \in BOOLEAN
      /\ lpc \in {"start", "header", "stamp", "data", "handler", "exited", "fault"}
  BY DEF TInv, TypeOK
<1>2. m \in Msg /\ sent' = Append(sent, m) /\ UNCHANGED <<open, reading, delivered>>
  BY DEF SendWrite, TInv, SendersFit
<1>3. /\ Len(sent) \in Nat /\ Len(sent') = e /\ sent'[e] = m
      /\ \A n \in 1..Len(sent) : sent'[n] = sent[n]
  BY <1>1, <1>2, Appended
<1>4. Framed(wire, sent) /\ EndsWhole /\ Placed /\ Kept
  BY DEF FInv
<1> HIDE DEF m, e, D
<1>5. Kept'
  BY <1>2, <1>4 DEF Kept, reading
<1>6. CurIsNext => CurIsNext'
  <2> SUFFICES ASSUME CurIsNext PROVE CurIsNext'
    OBVIOUS
  <2>1. D + 1 \in 1..Len(sent) /\ cur = sent[D + 1] /\ cur \in Msg /\ len = Size[cur]
    BY <1>1, <1>3 DEF CurIsNext, D
  <2>2. cur' = sent'[D + 1] /\ D < Len(sent')
    BY <1>1, <1>2, <1>3, <2>1 DEF reading, e
  <2> QED
    BY <1>2, <2>1, <2>2 DEF CurIsNext, D, reading
<1>7. CASE ~open
  <2>1. wire' = wire /\ ~open'
    BY <1>2, <1>7 DEF SendWrite
  <2>2. Framed(wire, sent)'
    BY <1>1, <1>2, <1>4, <2>1, FramedMore
  <2>3. EndsWhole'
    BY <2>1 DEF EndsWhole
  <2>4. ASSUME NEW d \in {0, 1}, AtNext(d) PROVE AtNext(d)'
    <3> SUFFICES ASSUME wire # <<>>
                 PROVE  D + d < Len(sent') /\ wire[1] = <<sent'[D + d + 1], 1>>
      BY <1>2, <2>1 DEF AtNext, D
    <3>1. D + d < Len(sent) /\ wire[1] = <<sent[D + d + 1], 1>>
      BY <2>4 DEF AtNext, D
    <3>2. D + d + 1 \in 1..Len(sent)
      BY <1>1, <1>3, <3>1
    <3> QED
      BY <1>1, <1>3, <3>1, <3>2 DEF e
  <2>5. lpc' = lpc /\ UNCHANGED <<cur, tread, wire, open>>
    BY <1>2, <2>1 DEF reading
  <2>6. Placed'
    BY <1>4, <1>6, <2>4, <2>5 DEF Placed, AtByte
  <2> QED
    BY <1>5, <2>2, <2>3, <2>6 DEF FInv
<1>8. CASE open
  <2>1. wire' = wire \o Bytes(m) /\ open'
    BY <1>2, <1>8 DEF SendWrite, m
  <2>2. /\ Bytes(m) \in Seq(Byte) /\ Len(Bytes(m)) = End(m) /\ End(m) \in Nat /\ End(m) >= 2
        /\ Bytes(m)[1] = <<m, 1>> /\ Bytes(m)[End(m)] = <<m, End(m)>>
    <3>1. Len(Bytes(m)) = End(m) /\ \A n \in 1..End(m) : Bytes(m)[n] = <<m, n>>
      BY <1>2, BytesType DEF End
    <3>2. End(m) \in Nat /\ End(m) >= 2 /\ 1 \in 1..End(m) /\ End(m) \in 1..End(m)
      BY <1>2, EndType
    <3> QED
      BY <1>2, <3>1, <3>2, BytesType
  <2>3. Framed(wire, sent)'
    BY <1>1, <1>2, <1>4, <1>8, <2>1, FramedJoin DEF EndsWhole
  <2>4. /\ wire' \in Seq(Byte) /\ Len(wire') = Len(wire) + End(m) /\ Len(wire) \in Nat
        /\ \A n \in 1..Len(wire) : wire'[n] = wire[n]
        /\ \A n \in (Len(wire) + 1)..(Len(wire) + End(m)) : wire'[n] = Bytes(m)[n - Len(wire)]
    <3> DEFINE v == wire \o Bytes(m)
    <3>1. /\ v \in Seq(Byte) /\ Len(v) = Len(wire) + Len(Bytes(m))
          /\ \A n \in 1..Len(wire) : v[n] = wire[n]
          /\ \A n \in (Len(wire) + 1)..(Len(wire) + Len(Bytes(m))) :
               v[n] = Bytes(m)[n - Len(wire)]
      BY ONLY <1>1, <2>2, Joined
    <3>2. wire' = v /\ Len(wire) \in Nat
      BY <1>1, <2>1
    <3> HIDE DEF v
    <3> QED
      BY ONLY <2>2, <3>1, <3>2
  <2>5. wire' # <<>> /\ wire'[Len(wire')] = <<m, End(m)>>
    <3>1. Len(wire') >= 2 /\ Len(wire') \in (Len(wire) + 1)..(Len(wire) + End(m))
            /\ Len(wire') - Len(wire) = End(m)
      BY <2>2, <2>4
    <3>2. wire' # <<>>
      BY ONLY <3>1
    <3> QED
      BY <2>2, <2>4, <3>1, <3>2
  <2>6. EndsWhole'
    BY <1>3, <2>5 DEF EndsWhole, e
  <2>7. wire = <<>> => wire'[1] = <<m, 1>>
    <3> SUFFICES ASSUME Len(wire) = 0 PROVE wire'[1] = <<m, 1>>
      OBVIOUS
    <3>1. 1 \in (Len(wire) + 1)..(Len(wire) + End(m)) /\ 1 - Len(wire) = 1
      BY <2>2
    <3> QED
      BY <2>2, <2>4, <3>1
  <2>8. wire # <<>> => wire'[1] = wire[1]
    BY <1>1, <2>4
  <2>9. ASSUME NEW d \in {0, 1}, AtNext(d) PROVE AtNext(d)'
    <3> SUFFICES D + d < Len(sent') /\ wire'[1] = <<sent'[D + d + 1], 1>>
      BY <1>2, <2>5 DEF AtNext, D
    <3>1. CASE wire # <<>>
      <4>1. D + d < Len(sent) /\ wire[1] = <<sent[D + d + 1], 1>>
        BY <2>9, <3>1 DEF AtNext, D
      <4>2. D + d + 1 \in 1..Len(sent)
        BY <1>1, <1>3, <4>1
      <4> QED
        BY <1>1, <1>3, <2>8, <3>1, <4>1, <4>2 DEF e
    <3>2. CASE wire = <<>>
      <4>1. D + d = Len(sent)
        BY <1>8, <2>9, <3>2 DEF AtNext, D
      <4> QED
        BY <1>1, <1>3, <2>7, <3>2, <4>1 DEF e
    <3> QED
      BY <3>1, <3>2
  <2>10. ASSUME NEW o, AtByte(o) PROVE wire' # <<>> /\ wire'[1] = <<cur, o>>
    BY <1>8, <2>5, <2>8, <2>10 DEF AtByte
  <2>11. lpc' = lpc /\ UNCHANGED <<cur, tread>>
    BY <1>2 DEF reading
  <2>12. Placed'
    BY <1>4, <1>6, <2>9, <2>10, <2>11 DEF Placed, AtByte
  <2> QED
    BY <1>5, <2>3, <2>6, <2>12 DEF FInv
<1> QED
  BY <1>1, <1>7, <1>8

\* The peer closes: what is left of the stream begins where it did.
LEMMA CloseFInv ==
    ASSUME TInv, FInv, Close
    PROVE  FInv'
<1>1. PICK n \in 0..Len(wire) : wire' = SubSeq(wire, 1, n)
  BY DEF Close
<1>2. wire \in Seq(Byte) /\ ~open' /\ UNCHANGED <<reading, sent, delivered>>
  BY DEF Close, TInv, TypeOK
<1>3. Framed(wire, sent) /\ Placed /\ Kept
  BY DEF FInv
<1>4. 1 \in Nat /\ 1 >= 1 /\ 1 <= n + 1
  BY <1>2
<1>5. Framed(wire, sent)'
  BY <1>1, <1>2, <1>3, <1>4, FramedPart
<1>6. wire' # <<>> => wire # <<>> /\ wire'[1] = wire[1]
  <2>1. Len(wire') = n /\ \A j \in 1..n : wire'[j] = wire[j]
    <3>1. Len(wire') = n - 1 + 1 /\ \A j \in 1..(n - 1 + 1) : wire'[j] = wire[1 + j - 1]
      BY <1>1, <1>2, <1>4, PartType
    <3> QED
      BY <1>2, <3>1
  <2>2. n = 0 => wire' = <<>>
    BY <1>1, <1>2
  <2>3. n # 0 => 1 \in 1..n /\ wire # <<>>
    BY <1>2
  <2> QED
    BY <2>1, <2>2, <2>3
<1>7. EndsWhole' /\ Kept'
  BY <1>2, <1>3 DEF EndsWhole, Kept, reading
<1>8. Placed'
  BY <1>2, <1>3, <1>6 DEF Placed, AtNext, AtByte, CurIsNext, reading
<1> QED
  BY <1>5, <1>7, <1>8 DEF FInv

\* A read of k bytes of packet m, from its byte o on.
LEMMA ReadPart ==
    ASSUME TInv, Framed(wire, sent), EndsWhole, UNCHANGED <<open, sent>>,
           NEW m \in Msg, NEW o \in 1..End(m), wire # <<>>, wire[1] = <<m, o>>,
           NEW k \in 1..Len(wire), o + k - 1 <= End(m), wire' = SubSeq(wire, k + 1, Len(wire))
    PROVE  /\ Framed(wire, sent)' /\ EndsWhole'
           /\ \A n \in 1..k : wire[n] = <<m, o + n - 1>>
           /\ o + k - 1 < End(m) =>
                /\ wire' # <<>> => wire'[1] = <<m, o + k>>
                /\ open => wire' # <<>>
           /\ o + k - 1 = End(m) =>
                /\ wire' # <<>> =>
                     \E i \in 1..(Len(sent) - 1) : sent[i] = m /\ wire'[1] = <<sent[i + 1], 1>>
                /\ open /\ wire' = <<>> => Len(sent) >= 1 /\ m = sent[Len(sent)]
<1>1. wire \in Seq(Byte) /\ sent \in Seq(Msg) /\ End(m) \in Nat /\ o \in Nat /\ k \in Nat
  BY EndType DEF TInv, TypeOK
<1>2. Advanced(wire, sent, m, o, k, wire')
  BY <1>1, Advance
<1>3. /\ Framed(wire', sent)
      /\ \A n \in 1..k : wire[n] = <<m, o + n - 1>>
      /\ wire' # <<>> /\ o + k - 1 < End(m) => wire'[1] = <<m, o + k>>
      /\ wire' # <<>> /\ o + k - 1 = End(m) =>
           \E i \in 1..(Len(sent) - 1) : sent[i] = m /\ wire'[1] = <<sent[i + 1], 1>>
      /\ wire' = <<>> => wire[Len(wire)] = <<m, o + k - 1>>
      /\ wire' # <<>> => wire'[Len(wire')] = wire[Len(wire)]
  BY <1>2 DEF Advanced
<1>4. EndsWhole'
  BY <1>3 DEF EndsWhole
<1>5. ASSUME open, wire' = <<>>
      PROVE  Len(sent) >= 1 /\ m = sent[Len(sent)] /\ o + k - 1 = End(m)
  <2>1. Len(sent) >= 1 /\ wire[Len(wire)] = <<sent[Len(sent)], End(sent[Len(sent)])>>
    BY <1>5 DEF EndsWhole
  <2>2. wire[Len(wire)] = <<m, o + k - 1>>
    BY <1>3, <1>5
  <2>3. m = sent[Len(sent)] /\ o + k - 1 = End(sent[Len(sent)])
    BY ONLY <2>1, <2>2
  <2> QED
    BY <2>1, <2>3
<1>6. o + k - 1 < End(m) => o + k - 1 # End(m)
  BY <1>1
<1> QED
  BY <1>3, <1>4, <1>5, <1>6

\* A header word that is read whole from its first byte decodes to its packet.
LEMMA DecodesTo ==
    ASSUME NEW m \in Msg, NEW w \in Seq(Byte), Len(w) >= Word,
           \A n \in 1..Word : w[n] = <<m, n>>
    PROVE  Decoded(SubSeq(w, 1, Word)) = {<<m, Size[m]>>}
<1> DEFINE got == SubSeq(w, 1, Word)  want == SubSeq(Bytes(m), 1, Word)
<1>1. Word \in Nat \ {0} /\ Len(w) \in Nat /\ Word \in 0..Len(w) /\ 1 \in Nat /\ 1 <= Word + 1
      /\ Word - 1 + 1 = Word /\ 1 \in 1..Word
  BY EndType
<1>2. got \in Seq(Byte) /\ Len(got) = Word /\ \A n \in 1..Word : got[n] = w[1 + n - 1]
  BY <1>1, PartType
<1>3. /\ Bytes(m) \in Seq(Byte) /\ Len(Bytes(m)) = End(m)
      /\ \A n \in 1..End(m) : Bytes(m)[n] = <<m, n>>
  BY BytesType DEF End
<1>4. Word \in 0..Len(Bytes(m)) /\ Word <= End(m) /\ End(m) \in Nat
  BY <1>3, EndType
<1>5. want \in Seq(Byte) /\ Len(want) = Word /\ \A n \in 1..Word : want[n] = Bytes(m)[1 + n - 1]
  BY <1>1, <1>3, <1>4, PartType
<1> HIDE DEF got, want
<1>6. \A n \in 1..Word : got[n] = <<m, n>> /\ want[n] = <<m, n>>
  <2> SUFFICES ASSUME NEW n \in 1..Word PROVE got[n] = <<m, n>> /\ want[n] = <<m, n>>
    OBVIOUS
  <2>1. 1 + n - 1 = n /\ n \in 1..End(m)
    BY <1>1, <1>4
  <2> QED
    BY <1>2, <1>3, <1>5, <2>1
<1>7. got = want
  <2>1. got = [n \in 1..Word |-> got[n]] /\ want = [n \in 1..Word |-> want[n]]
    BY <1>2, <1>5
  <2>2. [n \in 1..Word |-> got[n]] = [n \in 1..Word |-> want[n]]
    BY <1>6
  <2> QED
    BY <2>1, <2>2
<1>8. got[1][1] = m
  <2>1. got[1] = <<m, 1>>
    BY <1>1, <1>6
  <2> QED
    BY ONLY <2>1
<1>9. Decoded(got) = {<<m, Size[m]>>}
  BY <1>7, <1>8 DEF Decoded, want
<1> QED
  BY <1>9 DEF got

LEMMA ReadHeaderFInv ==
    ASSUME HeadersWhole, TInv, FInv, ReadHeader
    PROVE  FInv'
<1> DEFINE m == wire[1][1]  D == Len(delivered)
<1>1. /\ wire \in Seq(Byte) /\ sent \in Seq(Msg) /\ D \in Nat /\ Len(sent) \in Nat
      /\ Len(wire) \in Nat /\ Word \in Nat \ {0} /\ Header = 2 * Word
  BY EndType DEF TInv, TypeOK
<1>2. lpc = "header" /\ lpc' = "stamp" /\ AtNext(0) /\ Framed(wire, sent) /\ EndsWhole /\ Kept
  BY DEF ReadHeader, FInv, Placed, Loop
<1>3. UNCHANGED <<open, tread, pieces, stamped, freed, sent, delivered>>
  BY DEF ReadHeader
<1>4. PICK k \in Takes(Word, "header") :
        /\ wire' = SubSeq(wire, k + 1, Len(wire))
        /\ \E d \in Decoded(SubSeq(wire, 1, k)) : cur' = d[1] /\ len' = d[2]
  BY DEF ReadHeader, Consume
<1>5. k = Word /\ k \in 1..Len(wire) /\ Len(wire) >= Word
  BY <1>1, <1>4 DEF Takes, Lower, HeadersWhole
<1>6. wire # <<>> /\ D < Len(sent) /\ wire[1] = <<sent[D + 1], 1>>
  <2>1. wire # <<>>
    BY <1>1, <1>5
  <2>2. D + 0 < Len(sent) /\ wire[1] = <<sent[D + 0 + 1], 1>>
    BY <1>2, <2>1 DEF AtNext, D
  <2> QED
    BY <1>1, <2>1, <2>2
<1>7. m = sent[D + 1] /\ m \in Msg /\ wire[1] = <<m, 1>>
  <2>1. D + 1 \in 1..Len(sent)
    BY <1>1, <1>6
  <2>2. sent[D + 1] \in Msg
    BY <1>1, <2>1
  <2> QED
    BY <1>6, <2>2
<1> HIDE DEF m, D
<1>8. End(m) \in Nat /\ 1 \in 1..End(m) /\ Word < End(m) /\ 1 + k - 1 <= End(m) /\ 1 + k - 1 < End(m)
  <2>1. End(m) \in Nat /\ End(m) = Header + Size[m] /\ Size[m] \in Nat
    BY <1>7, EndType
  <2>2. Word < End(m)
    BY <1>1, <2>1
  <2> QED
    BY <1>1, <1>5, <2>1, <2>2
<1>9. /\ Framed(wire, sent)' /\ EndsWhole'
      /\ \A n \in 1..k : wire[n] = <<m, 1 + n - 1>>
      /\ wire' # <<>> => wire'[1] = <<m, 1 + k>>
      /\ open => wire' # <<>>
  BY <1>2, <1>3, <1>4, <1>5, <1>6, <1>7, <1>8, ReadPart
<1>10. cur' = m /\ len' = Size[m]
  <2>1. \A n \in 1..Word : wire[n] = <<m, n>>
    <3> SUFFICES ASSUME NEW n \in 1..Word PROVE wire[n] = <<m, n>>
      OBVIOUS
    <3>1. 1 + n - 1 = n
      OBVIOUS
    <3> QED
      BY <1>5, <1>9, <3>1
  <2>2. Decoded(SubSeq(wire, 1, k)) = {<<m, Size[m]>>}
    BY <1>1, <1>5, <1>7, <2>1, DecodesTo
  <2> QED
    BY <1>4, <2>2
<1>11. CurIsNext'
  BY <1>3, <1>6, <1>7, <1>10 DEF CurIsNext, D
<1>12. Placed'
  <2>1. AtByte(Word + 1)'
    BY <1>1, <1>3, <1>5, <1>9, <1>10 DEF AtByte
  <2> QED
    BY <1>2, <1>11, <2>1 DEF Placed
<1>13. Kept'
  BY <1>2, <1>3 DEF Kept
<1> QED
  BY <1>9, <1>12, <1>13 DEF FInv

\* What is to be read is the packet written after the one at hand.
AfterCur ==
    /\ wire # <<>> =>
         \E i \in 1..(Len(sent) - 1) : sent[i] = cur /\ wire[1] = <<sent[i + 1], 1>>
    /\ open /\ wire = <<>> => Len(sent) >= 1 /\ cur = sent[Len(sent)]

\* Every packet is written once, so there is one place after the packet at hand.
LEMMA AfterPacket ==
    ASSUME TInv, SInv, CurIsNext, UNCHANGED <<open, cur, sent, delivered>>, AfterCur'
    PROVE  AtNext(1)'
<1> DEFINE D == Len(delivered)
<1>1. D \in Nat /\ Len(sent) \in Nat /\ DOMAIN sent = 1..Len(sent)
  BY DEF TInv, TypeOK
<1>2. D + 1 \in 1..Len(sent) /\ cur = sent[D + 1]
  BY <1>1 DEF CurIsNext
<1>3. \A i \in 1..Len(sent) : sent[i] = cur => i = D + 1
  BY <1>1, <1>2 DEF SInv
<1> HIDE DEF D
<1>4. ASSUME wire' # <<>> PROVE D + 1 < Len(sent) /\ wire'[1] = <<sent[D + 1 + 1], 1>>
  <2>1. PICK i \in 1..(Len(sent) - 1) : sent[i] = cur /\ wire'[1] = <<sent[i + 1], 1>>
    BY <1>4 DEF AfterCur
  <2>2. i = D + 1
    BY <1>1, <1>3, <2>1
  <2> QED
    BY <1>1, <2>1, <2>2
<1>5. ASSUME open, wire' = <<>> PROVE D + 1 = Len(sent)
  <2>1. Len(sent) >= 1 /\ cur = sent[Len(sent)]
    BY <1>5 DEF AfterCur
  <2>2. Len(sent) \in 1..Len(sent)
    BY <1>1, <2>1
  <2> QED
    BY <1>3, <2>1, <2>2
<1> QED
  BY <1>4, <1>5 DEF AtNext, D

LEMMA ReadStampFInv ==
    ASSUME HeadersWhole, TInv, SInv, FInv, ReadStamp
    PROVE  FInv'
<1>1. /\ wire \in Seq(Byte) /\ Len(wire) \in Nat /\ len \in Nat /\ Word \in Nat \ {0}
      /\ Header = 2 * Word /\ data \in Seq(Nat) /\ Len(data) = len
  BY EndType DEF TInv, TypeOK
<1>2. /\ lpc = "stamp" /\ lpc' = (IF len = 0 THEN "handler" ELSE "data")
      /\ UNCHANGED <<open, cur, len, tread, data, pieces, freed, sent, delivered>>
  BY DEF ReadStamp, Loop
<1>3. CurIsNext /\ AtByte(Word + 1) /\ Framed(wire, sent) /\ EndsWhole /\ Kept
  BY <1>2 DEF FInv, Placed
<1>4. CurIsNext'
  BY <1>2, <1>3 DEF CurIsNext
<1>5. tread = 0
  BY <1>2 DEF TInv, ListenerFits
<1>6. len = 0 => data = [n \in 1..Size[cur] |-> n]
  <2> SUFFICES ASSUME len = 0 PROVE data = [n \in 1..Size[cur] |-> n]
    OBVIOUS
  <2>1. data = <<>>
    BY <1>1
  <2>2. Size[cur] = 0
    BY <1>3 DEF CurIsNext
  <2>3. [n \in 1..0 |-> n] = <<>>
    OBVIOUS
  <2> QED
    BY <2>1, <2>2, <2>3
<1>7. CASE AtEnd /\ UNCHANGED <<wire, stamped>>
  <2>1. wire' = <<>> /\ ~open' /\ ~open
    BY <1>2, <1>7 DEF AtEnd
  <2>2. Framed(wire, sent)' /\ EndsWhole'
    BY <1>2, <1>3, <1>7, <2>1 DEF EndsWhole
  <2>3. Placed'
    BY <1>2, <1>4, <2>1 DEF Placed, AtNext, AtByte
  <2>4. Kept'
    BY <2>1 DEF Kept
  <2> QED
    BY <2>2, <2>3, <2>4 DEF FInv
<1>8. CASE \E k \in Takes(Word, "stamp") :
             /\ Consume(k)
             /\ stamped' = (cur # NoMsg /\ SubSeq(wire, 1, k) = SubSeq(Bytes(cur), Word + 1, Header))
  <2>1. PICK k \in Takes(Word, "stamp") :
             /\ wire' = SubSeq(wire, k + 1, Len(wire))
             /\ stamped' = (cur # NoMsg /\ SubSeq(wire, 1, k) = SubSeq(Bytes(cur), Word + 1, Header))
    BY <1>8 DEF Consume
  <2>2. k = Word /\ k \in 1..Len(wire)
    BY <1>1 DEF Takes, Lower, HeadersWhole
  <2>3. cur \in Msg /\ len = Size[cur] /\ End(cur) = Header + len /\ End(cur) \in Nat
    BY <1>3, EndType DEF CurIsNext
  <2>4. wire # <<>> /\ wire[1] = <<cur, Word + 1>>
    BY <1>1, <1>3, <2>2 DEF AtByte
  <2>5. Word + 1 \in 1..End(cur) /\ Word + 1 + k - 1 <= End(cur) /\ Word + 1 + k - 1 = Header
    BY <1>1, <2>2, <2>3
  <2>6. /\ Framed(wire, sent)' /\ EndsWhole'
        /\ \A n \in 1..k : wire[n] = <<cur, Word + 1 + n - 1>>
        /\ Header < End(cur) =>
             /\ wire' # <<>> => wire'[1] = <<cur, Word + 1 + k>>
             /\ open => wire' # <<>>
        /\ Header = End(cur) =>
             /\ wire' # <<>> =>
                  \E i \in 1..(Len(sent) - 1) : sent[i] = cur /\ wire'[1] = <<sent[i + 1], 1>>
             /\ open /\ wire' = <<>> => Len(sent) >= 1 /\ cur = sent[Len(sent)]
    BY <1>2, <1>3, <2>1, <2>2, <2>3, <2>4, <2>5, ReadPart
  <2>7. len = 0 => AtNext(1)'
    <3> SUFFICES ASSUME len = 0 PROVE AtNext(1)'
      OBVIOUS
    <3>1. Header = End(cur)
      BY <1>1, <2>3
    <3>2. AfterCur'
      BY <1>2, <2>6, <3>1 DEF AfterCur
    <3> QED
      BY <1>2, <1>3, <3>2, AfterPacket
  <2>8. len # 0 => AtByte(Header + tread + 1)'
    <3> SUFFICES ASSUME len # 0 PROVE AtByte(Header + tread + 1)'
      OBVIOUS
    <3>1. Header < End(cur) /\ Word + 1 + k = Header + tread + 1
      BY <1>1, <1>5, <2>2, <2>3
    <3> QED
      BY <1>2, <2>6, <3>1 DEF AtByte
  <2>9. Placed'
    BY <1>2, <1>4, <2>7, <2>8 DEF Placed
  <2>10. stamped'
    <3> DEFINE got == SubSeq(wire, 1, k)  want == SubSeq(Bytes(cur), Word + 1, Header)
    <3>1. /\ got \in Seq(Byte) /\ Len(got) = k - 1 + 1
          /\ \A n \in 1..(k - 1 + 1) : got[n] = wire[1 + n - 1]
      BY <1>1, <2>2, PartType
    <3>2. Bytes(cur) \in Seq(Byte) /\ Len(Bytes(cur)) = End(cur)
            /\ \A n \in 1..End(cur) : Bytes(cur)[n] = <<cur, n>>
      BY <2>3, BytesType DEF End
    <3>3. Header \in 0..Len(Bytes(cur)) /\ Word + 1 \in Nat /\ Word + 1 >= 1 /\ Word + 1 <= Header + 1
      BY <1>1, <2>3, <3>2
    <3>4. /\ want \in Seq(Byte) /\ Len(want) = Header - (Word + 1) + 1
          /\ \A n \in 1..(Header - (Word + 1) + 1) : want[n] = Bytes(cur)[Word + 1 + n - 1]
      BY <3>2, <3>3, PartType
    <3> HIDE DEF got, want
    <3>5. k - 1 + 1 = Word /\ Header - (Word + 1) + 1 = Word
      BY <1>1, <2>2
    <3>6. ASSUME NEW n \in 1..Word PROVE got[n] = want[n]
      <4>1. 1 + n - 1 = n /\ Word + 1 + n - 1 \in 1..End(cur)
        BY <1>1, <2>3
      <4>2. got[n] = wire[n] /\ want[n] = Bytes(cur)[Word + 1 + n - 1]
        BY <3>1, <3>4, <3>5, <4>1
      <4>3. wire[n] = <<cur, Word + 1 + n - 1>>
        BY <2>2, <2>6
      <4> QED
        BY <3>2, <4>1, <4>2, <4>3
    <3>7. got = want
      <4>1. got = [n \in 1..Word |-> got[n]] /\ want = [n \in 1..Word |-> want[n]]
        BY <3>1, <3>4, <3>5
      <4>2. [n \in 1..Word |-> got[n]] = [n \in 1..Word |-> want[n]]
        BY <3>6
      <4> QED
        BY <4>1, <4>2
    <3> QED
      BY <2>1, <2>3, <3>7, NoMsgAssumption DEF got, want
  <2>11. Kept'
    BY <1>2, <1>3, <1>6, <2>10 DEF Kept
  <2> QED
    BY <2>6, <2>9, <2>11 DEF FInv
<1> QED
  BY <1>7, <1>8 DEF ReadStamp

LEMMA ReadDataFInv ==
    ASSUME TInv, SInv, FInv, ReadData
    PROVE  FInv'
<1>1. /\ wire \in Seq(Byte) /\ Len(wire) \in Nat /\ len \in Nat /\ tread \in Nat /\ pieces \in Nat
      /\ Header \in Nat
  BY EndType DEF TInv, TypeOK
<1>2. /\ lpc = "data"
      /\ UNCHANGED <<open, cur, len, stamped, freed, sent, delivered>> /\ pieces' = pieces + 1
  BY DEF ReadData
<1>3. PICK k \in Takes(len - tread, "data") :
        /\ wire' = SubSeq(wire, k + 1, Len(wire))
        /\ data' = [n \in 1..len |-> IF n <= k THEN Place(wire[n]) ELSE data[n]]
        /\ tread' = tread + k
        /\ lpc' = (IF tread + k = len THEN "handler" ELSE "data")
  BY DEF ReadData, Consume, Loop
<1>4. k \in 1..Len(wire) /\ k <= len - tread /\ tread < len /\ (pieces = 0 => tread = 0)
  BY <1>1, <1>2 DEF Takes, Lower, TInv, ListenerFits
<1>5. CurIsNext /\ AtByte(Header + tread + 1) /\ Framed(wire, sent) /\ EndsWhole /\ Kept
  BY <1>2 DEF FInv, Placed
<1>6. cur \in Msg /\ len = Size[cur] /\ End(cur) = Header + len /\ End(cur) \in Nat
  BY <1>5, EndType DEF CurIsNext
<1> DEFINE o == Header + tread + 1
<1>7. wire # <<>> /\ wire[1] = <<cur, o>>
  BY <1>1, <1>4, <1>5 DEF AtByte
<1>8. o \in 1..End(cur) /\ o + k - 1 <= End(cur) /\ o + k - 1 = Header + tread + k
  BY <1>1, <1>4, <1>6
<1> HIDE DEF o
<1>9. /\ Framed(wire, sent)' /\ EndsWhole'
      /\ \A n \in 1..k : wire[n] = <<cur, o + n - 1>>
      /\ o + k - 1 < End(cur) =>
           /\ wire' # <<>> => wire'[1] = <<cur, o + k>>
           /\ open => wire' # <<>>
      /\ o + k - 1 = End(cur) =>
           /\ wire' # <<>> =>
                \E i \in 1..(Len(sent) - 1) : sent[i] = cur /\ wire'[1] = <<sent[i + 1], 1>>
           /\ open /\ wire' = <<>> => Len(sent) >= 1 /\ cur = sent[Len(sent)]
  BY <1>2, <1>3, <1>4, <1>5, <1>6, <1>7, <1>8, ReadPart
<1>10. CurIsNext'
  BY <1>2, <1>5 DEF CurIsNext
<1>11. tread + k = len => AtNext(1)'
  <2> SUFFICES ASSUME tread + k = len PROVE AtNext(1)'
    OBVIOUS
  <2>1. o + k - 1 = End(cur)
    <3>1. k \in Nat /\ Header + tread + k = Header + (tread + k)
      BY <1>1, <1>4
    <3> QED
      BY <1>6, <1>8, <3>1
  <2>2. AfterCur'
    BY <1>2, <1>9, <2>1 DEF AfterCur
  <2> QED
    BY <1>2, <1>5, <2>2, AfterPacket
<1>12. tread + k # len => AtByte(Header + tread + 1)'
  <2> SUFFICES ASSUME tread + k # len PROVE AtByte(Header + tread + 1)'
    OBVIOUS
  <2>1. o + k - 1 < End(cur)
    BY <1>1, <1>4, <1>6, <1>8, SMTT(40)
  <2>2. o + k = Header + tread' + 1
    <3>1. tread' = tread + k /\ k \in Nat
      BY <1>3, <1>4
    <3> QED
      BY <1>1, <3>1 DEF o
  <2> QED
    BY <1>2, <1>9, <2>1, <2>2 DEF AtByte
<1>13. Placed'
  BY <1>3, <1>10, <1>11, <1>12 DEF Placed
<1>14. ASSUME pieces' <= 1, tread + k = len PROVE data' = [n \in 1..Size[cur] |-> n]
  <2>1. tread = 0 /\ k = len
    BY <1>1, <1>2, <1>4, <1>14
  <2>2. ASSUME NEW n \in 1..len PROVE (IF n <= k THEN Place(wire[n]) ELSE data[n]) = n
    <3>1. wire[n] = <<cur, o + n - 1>> /\ o + n - 1 = Header + n
      BY <1>1, <1>9, <2>1 DEF o
    <3>2. wire[n][1] = cur /\ wire[n][2] = Header + n
      BY <3>1
    <3>3. Place(wire[n]) = n
      BY <1>1, <3>2 DEF Place
    <3> QED
      BY <2>1, <3>3
  <2> QED
    BY <1>3, <1>6, <2>2
<1>15. Kept'
  BY <1>2, <1>3, <1>5, <1>14 DEF Kept
<1> QED
  BY <1>9, <1>13, <1>15 DEF FInv

LEMMA ListenerFInv ==
    ASSUME HeadersWhole, TInv, SInv, FInv, Listener
    PROVE  FInv'
<1>0. Framed(wire, sent) /\ EndsWhole /\ Placed /\ Kept
  BY DEF FInv
<1>1. CASE ListenerStart
  <2>1. /\ lpc = "start" /\ lpc' = "header"
        /\ UNCHANGED <<wire, open, cur, len, tread, data, pieces, stamped, freed, sent, delivered>>
    BY <1>1 DEF ListenerStart, Loop
  <2>2. Placed' /\ Kept'
    BY <1>0, <2>1 DEF Placed, AtNext, Kept
  <2> QED
    BY <1>0, <2>1, <2>2 DEF FInv, EndsWhole
<1>2. CASE ListenerEnd
  <2>1. /\ lpc' = "exited"
        /\ UNCHANGED <<wire, open, cur, len, tread, data, pieces, stamped, freed, sent, delivered>>
    BY <1>2 DEF ListenerEnd, Loop
  <2>2. Placed' /\ Kept'
    BY <1>0, <2>1 DEF Placed, Kept
  <2> QED
    BY <1>0, <2>1, <2>2 DEF FInv, EndsWhole
<1>3. CASE ReadDataEnd
  <2>1. /\ lpc = "data" /\ lpc' = "handler" /\ wire = <<>> /\ ~open
        /\ UNCHANGED <<wire, open, cur, len, sent, delivered>>
    BY <1>3 DEF ReadDataEnd, Loop, AtEnd
  <2>2. Placed' /\ Kept'
    BY <1>0, <2>1 DEF Placed, AtNext, CurIsNext, Kept
  <2> QED
    BY <1>0, <2>1, <2>2 DEF FInv, EndsWhole
<1>4. CASE Handle
  <2>1. /\ lpc = "handler" /\ lpc' \in {"header", "fault"} /\ delivered' = Append(delivered, cur)
        /\ ~freed' /\ UNCHANGED <<wire, open, sent>>
    BY <1>4 DEF Handle, Loop
  <2>2. Len(delivered) \in Nat /\ Len(sent) \in Nat /\ Len(delivered') = Len(delivered) + 1
    BY <2>1 DEF TInv, TypeOK
  <2>3. AtNext(1)
    BY <1>0, <2>1 DEF Placed
  <2>4. Len(delivered') + 0 = Len(delivered) + 1
          /\ Len(delivered') + 0 + 1 = Len(delivered) + 1 + 1
    BY <2>2
  <2>5. AtNext(0)'
    BY <2>1, <2>3, <2>4 DEF AtNext
  <2>6. Placed' /\ Kept'
    BY <2>1, <2>5 DEF Placed, Kept
  <2> QED
    BY <1>0, <2>1, <2>6 DEF FInv, EndsWhole
<1> QED
  BY <1>1, <1>2, <1>3, <1>4, ReadHeaderFInv, ReadStampFInv, ReadDataFInv DEF Listener

LEMMA NextFInv ==
    ASSUME HeadersWhole, TInv, SInv, FInv, [Next]_vars
    PROVE  FInv'
<1>1. ASSUME NEW s \in Sender, SenderStep(s) \/ \E m \in Msg : SendBegin(s, m) \/ SendRefused(s, m)
      PROVE  FInv'
  <2>1. CASE SendWrite(s)
    BY <2>1, SendWriteFInv
  <2>2. CASE ~SendWrite(s)
    <3>1. UNCHANGED <<wire, open, reading, sent, delivered>>
      BY <1>1, <2>2 DEF SenderStep, SendBegin, SendRefused, SendWriteFails, SendStoreRc, SendFinish
    <3> QED
      BY <3>1, SameFInv
  <2> QED
    BY <2>1, <2>2
<1>2. CASE UNCHANGED vars
  BY <1>2, SameFInv DEF vars
<1>3. CASE Connect
  BY <1>3, SameFInv DEF Connect
<1> QED
  BY <1>1, <1>2, <1>3, CloseFInv, ListenerFInv DEF Next

WholeInv == TInv /\ SInv /\ FInv

LEMMA WholeInvAlways == HeadersWhole /\ Spec => []WholeInv
<1>1. HeadersWhole /\ Init => WholeInv
  BY InitTInv, InitSInv, InitFInv DEF WholeInv
<1>2. HeadersWhole /\ WholeInv /\ [Next]_vars => WholeInv'
  BY NextTInv, NextSInv, NextFInv DEF WholeInv
<1>3. HeadersWhole => HeadersWhole'
  BY DEF HeadersWhole
<1> QED
  BY <1>1, <1>2, <1>3, PTL DEF Spec

\* However the data is cut into reads, whoever writes and whenever the peer
\* closes, the listener looks for a header only where a packet begins.
THEOREM InSyncAlways == HeadersWhole /\ Spec => []InSync
<1>1. WholeInv => InSync
  <2> SUFFICES ASSUME WholeInv, lpc = "header", wire # <<>> PROVE wire[1][2] = 1
    BY DEF InSync
  <2>1. wire[1] = <<sent[Len(delivered) + 0 + 1], 1>>
    BY DEF WholeInv, FInv, Placed, AtNext
  <2> QED
    BY <2>1
<1> QED
  BY <1>1, WholeInvAlways, PTL

\* A packet of any size that came in one piece on an open connection is
\* handed over as it was sent.
THEOREM IntactAlways == HeadersWhole /\ Spec => []IntactUnlessSplit
<1>1. WholeInv => IntactUnlessSplit
  BY NoMsgAssumption DEF WholeInv, FInv, Placed, CurIsNext, Kept, IntactUnlessSplit, Intact
<1> QED
  BY <1>1, WholeInvAlways, PTL

\* TCPStream implements PacketChannel: each packet is handed over once, in the
\* order of the writes, and none that was not written.
THEOREM ImplementsChannel == HeadersWhole /\ Spec => DeliversInOrder
<1>1. Init => Channel!Init
  BY DEF Init, Channel!Init
<1>2. WholeInv /\ [Next]_vars => [Channel!Next]_<<sent, delivered>>
  <2> SUFFICES ASSUME WholeInv, [Next]_vars PROVE [Channel!Next]_<<sent, delivered>>
    OBVIOUS
  <2>1. ASSUME NEW s \in Sender, SenderStep(s) \/ \E m \in Msg : SendBegin(s, m) \/ SendRefused(s, m)
        PROVE  [Channel!Next]_<<sent, delivered>>
    <3>1. CASE SendWrite(s)
      <4>1. job[s] \in Msg /\ sent' = Append(sent, job[s]) /\ UNCHANGED delivered
        BY <3>1 DEF SendWrite, WholeInv, TInv, SendersFit
      <4>2. Channel!Send(job[s])
        BY <4>1 DEF Channel!Send
      <4> QED
        BY <4>1, <4>2 DEF Channel!Next
    <3>2. CASE ~SendWrite(s)
      BY <2>1, <3>2 DEF SenderStep, SendBegin, SendRefused, SendWriteFails, SendStoreRc, SendFinish
    <3> QED
      BY <3>1, <3>2
  <2>2. CASE Close \/ Connect
    BY <2>2 DEF Close, Connect
  <2>3. CASE Listener
    <3>1. CASE Handle
      <4>1. CurIsNext
        BY <3>1 DEF Handle, WholeInv, FInv, Placed
      <4>2. Channel!Deliver
        BY <3>1, <4>1 DEF Handle, CurIsNext, Channel!Deliver
      <4> QED
        BY <4>2 DEF Channel!Next
    <3>2. CASE ~Handle
      BY <2>3, <3>2 DEF Listener, ListenerStart, ListenerEnd, ReadHeader, ReadStamp,
                        ReadData, ReadDataEnd
    <3> QED
      BY <3>1, <3>2
  <2>4. CASE UNCHANGED vars
    BY <2>4 DEF vars
  <2> QED
    BY <2>1, <2>2, <2>3, <2>4 DEF Next
<1> QED
  BY <1>1, <1>2, WholeInvAlways, PTL DEF Spec, DeliversInOrder, Channel!Spec

=============================================================================
