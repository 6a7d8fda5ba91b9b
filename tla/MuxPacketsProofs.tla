-------------------------- MODULE MuxPacketsProofs --------------------------
(* Proofs about MuxPackets: reassembly stays in step with the device and    *)
(* implements the packet channel, for every transfer and buffer size.       *)
EXTENDS MuxPackets, TLAPS

\* The device has sent whole transfers of its packet, in step with it or not.
OffWhole == cur # None => \E k \in Nat : off = k * UsbMru

Inv == TypeOK /\ InSync /\ BufferBound /\ OffWhole

\* The transfer the device sends next, and the one that carries it.
Rest == IF cur.len - off < UsbMru THEN cur.len - off ELSE UsbMru
Carried(claim) ==
    [pkt |-> cur, from |-> off, len |-> Rest, whole |-> TRUE,
     claim |-> IF off = 0 THEN cur.len ELSE claim]

\* Multiples of a transfer's size: one below another is a whole transfer below.
LEMMA MultipleStep ==
    ASSUME NEW U \in Nat \ {0}, NEW k \in Nat, NEW m \in Nat, k * U < m * U
    PROVE  /\ (k + 1) * U = k * U + U
           /\ k * U + U <= m * U
<1>1. (k + 1) * U = k * U + U
  OBVIOUS
<1>2. k < m
  <2>1. SUFFICES ASSUME m <= k PROVE FALSE
    OBVIOUS
  <2>2. PICK d \in Nat : k = m + d
    <3>1. k - m \in Nat /\ k = m + (k - m)
      BY <2>1
    <3>2. QED
      BY <3>1
  <2>3. k * U = m * U + d * U /\ d * U \in Nat /\ m * U \in Nat
    BY <2>2
  <2>4. QED
    BY <2>3
<1>3. PICK e \in Nat : m = (k + 1) + e
  <2>1. m - (k + 1) \in Nat /\ m = (k + 1) + (m - (k + 1))
    BY <1>2
  <2>2. QED
    BY <2>1
<1>4. m * U = (k + 1) * U + e * U /\ e * U \in Nat /\ (k + 1) * U \in Nat
  BY <1>3
<1>5. QED
  BY <1>1, <1>4

\* What a transfer carries: it ends the packet unless it is full, and the last
\* one of a packet is short unless the packet is a multiple of a transfer.
LEMMA RestFacts ==
    ASSUME Inv, cur \in Packet
    PROVE  /\ Rest \in 1 .. UsbMru /\ UsbMru <= DevMru
           /\ cur.len \in Nat /\ cur.runt \in BOOLEAN /\ off \in Nat /\ pktlen \in Nat
           /\ off + Rest <= cur.len
           /\ Rest < UsbMru => off + Rest = cur.len
           /\ Rest = UsbMru => \E k \in Nat : off + Rest = k * UsbMru
           /\ off + Rest = cur.len => (cur \in EndsShort <=> Rest < UsbMru)
           /\ pktlen + UsbMru <= DevMru =>
                \E k \in 0 .. DevMru : pktlen + UsbMru = k * UsbMru
           /\ ~astray => pktlen = off
           /\ ~astray /\ off + Rest > DevMru => off = DevMru
<1> USE PacketsAssumption
<1>1. cur \in [len : Nat \ {0}, runt : BOOLEAN] /\ cur # None
  OBVIOUS
<1>2. /\ cur.len \in Nat \ {0} /\ cur.runt \in BOOLEAN
      /\ off \in Nat /\ off < cur.len /\ pktlen \in Nat /\ pktlen <= DevMru
      /\ ~astray => pktlen = off
  BY <1>1 DEF Inv, TypeOK, InSync, BufferBound
<1>3. PICK m \in 1 .. DevMru : DevMru = m * UsbMru
  OBVIOUS
<1>4. PICK k \in Nat : off = k * UsbMru
  BY <1>1 DEF Inv, OffWhole
<1>5. UsbMru <= DevMru
  <2>1. 0 * UsbMru < m * UsbMru
    BY <1>3
  <2>2. QED
    BY <2>1, <1>3, MultipleStep
<1>6. /\ Rest \in 1 .. UsbMru /\ off + Rest <= cur.len
      /\ Rest < UsbMru => off + Rest = cur.len
  BY <1>2 DEF Rest
<1>7. k + 1 \in Nat /\ (k + 1) * UsbMru = off + UsbMru
  BY <1>4
<1>8. off + Rest = cur.len => (cur \in EndsShort <=> Rest < UsbMru)
  <2>1. SUFFICES ASSUME off + Rest = cur.len
                 PROVE  cur \in EndsShort <=> Rest < UsbMru
    OBVIOUS
  <2>2. ASSUME Rest < UsbMru, NEW j \in 0 .. cur.len
        PROVE  cur.len # j * UsbMru
    <3>1. SUFFICES ASSUME cur.len = j * UsbMru PROVE FALSE
      OBVIOUS
    <3>2. k * UsbMru < j * UsbMru /\ j \in Nat
      BY <1>2, <1>4, <1>6, <2>1, <2>2, <3>1
    <3>3. k * UsbMru + UsbMru <= j * UsbMru
      BY <3>2, MultipleStep
    <3>4. QED
      BY <1>2, <1>4, <1>6, <2>1, <2>2, <3>1, <3>3
  <2>3. ASSUME Rest = UsbMru
        PROVE  \E j \in 0 .. cur.len : cur.len = j * UsbMru
    <3>1. cur.len = (k + 1) * UsbMru
      BY <1>7, <2>1, <2>3
    <3>2. k + 1 <= (k + 1) * UsbMru
      <4>1. ASSUME NEW x \in Nat, NEW u \in Nat \ {0} PROVE x <= x * u
        BY <4>1
      <4>2. QED
        BY <1>7, <4>1
    <3>3. QED
      BY <1>2, <1>7, <3>1, <3>2
  <2>4. QED
    BY <1>6, <2>2, <2>3 DEF EndsShort
<1>9. pktlen + UsbMru <= DevMru => \E j \in 0 .. DevMru : pktlen + UsbMru = j * UsbMru
  <2>1. SUFFICES ASSUME pktlen + UsbMru <= DevMru
                 PROVE  \E j \in 0 .. DevMru : pktlen + UsbMru = j * UsbMru
    OBVIOUS
  <2>2. PICK j \in 0 .. DevMru : pktlen = j * UsbMru
    BY DEF Inv, BufferBound
  <2>3. j * UsbMru + UsbMru = (j + 1) * UsbMru
    BY <2>2
  <2>4. j + 1 <= DevMru
    <3>1. j <= j * UsbMru
      BY <2>2
    <3>2. QED
      BY <3>1, <2>1, <2>2, <1>2
  <2>5. QED
    BY <2>2, <2>3, <2>4
<1>10. ~astray /\ off + Rest > DevMru => off = DevMru
  <2>1. CASE off < DevMru
    BY <2>1, <1>3, <1>4, <1>6, MultipleStep
  <2>2. QED
    BY <2>1, <1>2
<1>11. QED
  BY <1>2, <1>5, <1>6, <1>7, <1>8, <1>9, <1>10

\* How the device and the history go on with a transfer.
LEMMA TransferMoves ==
    ASSUME Inv, Transfer
    PROVE  /\ cur \in Packet
           /\ off + Rest < cur.len => off' = off + Rest /\ cur' = cur
           /\ off + Rest = cur.len => off' = 0 /\ cur' = None
           /\ astray' \in BOOLEAN /\ astray \in BOOLEAN
           /\ astray' <=> Rest = UsbMru /\ (astray \/ (DevMru < off + Rest /\ off + Rest < cur.len))
<1> USE PacketsAssumption
<1>1. cur \in Packet
  BY DEF Transfer
<1>2. Rest \in 1 .. UsbMru /\ cur.len \in Nat /\ off \in Nat /\ off + Rest \in Nat
  BY <1>1, RestFacts
<1>3. /\ off + Rest < cur.len => off' = off + Rest /\ cur' = cur
      /\ off + Rest = cur.len => off' = 0 /\ cur' = None
  BY <1>2 DEF Transfer, Rest
<1>4. astray' = (Rest = UsbMru /\ (astray \/ off + Rest \in DevMru + 1 .. cur.len - 1))
  BY DEF Transfer, Rest
<1>5. off + Rest \in DevMru + 1 .. cur.len - 1 <=> DevMru < off + Rest /\ off + Rest < cur.len
  BY <1>2
<1>6. astray' \in BOOLEAN /\ astray \in BOOLEAN
  BY <1>4, Zenon DEF Inv, TypeOK
<1>7. astray' <=> Rest = UsbMru /\ (astray \/ (DevMru < off + Rest /\ off + Rest < cur.len))
  BY <1>4, <1>5, Zenon
<1>8. QED
  BY <1>1, <1>3, <1>6, <1>7

\* The transfer that arrives, and what the daemon does with it.
LEMMA TransferSteps ==
    ASSUME Inv, Transfer
    PROVE  \E claim \in Claims :
             LET c == Carried(claim)
             IN  /\ c.pkt = cur /\ c.from = off /\ c.len = Rest /\ c.whole = TRUE
                 /\ c.claim = IF off = 0 THEN cur.len ELSE claim
                 /\ c \in Bytes
                 /\ DropSplit(c) \/ GatherSplit(c) \/ StartSplit(c) \/ WholePacket(c)
<1> USE PacketsAssumption
<1>0. cur \in Packet
  BY DEF Transfer
<1>1. PICK claim \in Claims : DeviceDataInput(Carried(claim))
  BY DEF Transfer, Carried, Rest
<1> DEFINE c == Carried(claim)
<1>2. Rest \in 1 .. UsbMru /\ UsbMru <= DevMru /\ cur.len \in Nat /\ off \in Nat
  BY <1>0, RestFacts
<1>3. /\ c.pkt = cur /\ c.from = off /\ c.len = Rest /\ c.whole = TRUE
      /\ c.claim = IF off = 0 THEN cur.len ELSE claim
      /\ c \in Bytes
  BY <1>0, <1>2 DEF Carried, Bytes
<1>4. DropSplit(c) \/ GatherSplit(c) \/ StartSplit(c) \/ WholePacket(c)
  BY <1>1, <1>2, <1>3 DEF DeviceDataInput, IgnoreTransfer
<1>5. QED
  BY <1>3, <1>4

\* What one transfer does to a daemon in step: the packet goes on and its bytes
\* so far are in the buffer; or it is complete, the buffer is empty again and
\* the packet was handed on if it is acceptable; or it is dropped before its
\* end, and the daemon loses step.
LEMMA TransferInStep ==
    ASSUME Inv, Transfer, ~astray
    PROVE  /\ cur \in Packet
           /\ \/ /\ off + Rest < cur.len /\ Rest = UsbMru /\ off + Rest <= DevMru
                 /\ cur' = cur /\ off' = off + Rest /\ pktlen' = off + Rest /\ got' = got
                 /\ pktbuf' = [pkt |-> cur, from |-> 0, len |-> off + Rest,
                               claim |-> cur.len, whole |-> TRUE]
                 /\ ~astray'
              \/ /\ cur' = None /\ off' = 0 /\ pktlen' = 0
                 /\ pktbuf' \in Bytes
                 /\ got' = IF cur \in Acceptable THEN Append(got, cur) ELSE got
                 /\ ~astray'
              \/ /\ cur \in Derailing /\ off + Rest < cur.len /\ Rest = UsbMru
                 /\ cur' = cur /\ off' = off + Rest /\ pktlen' = 0
                 /\ pktbuf' \in Bytes /\ got' = got
                 /\ astray'
<1> USE PacketsAssumption
<1>0. cur \in Packet
  BY TransferMoves
<1>1. PICK claim \in Claims :
        LET c == Carried(claim)
        IN  /\ c.pkt = cur /\ c.from = off /\ c.len = Rest /\ c.whole = TRUE
            /\ c.claim = IF off = 0 THEN cur.len ELSE claim
            /\ c \in Bytes
            /\ DropSplit(c) \/ GatherSplit(c) \/ StartSplit(c) \/ WholePacket(c)
  BY TransferSteps
<1> DEFINE c == Carried(claim)
<1>2. /\ Rest \in 1 .. UsbMru /\ UsbMru <= DevMru /\ Rest <= DevMru
      /\ cur.len \in Nat /\ cur.runt \in BOOLEAN
      /\ off + Rest <= cur.len
      /\ Rest < UsbMru => off + Rest = cur.len
      /\ pktlen = off
      /\ off + Rest > DevMru => off = DevMru
      /\ off \in Nat
  BY <1>0, RestFacts
<1>3. /\ c.pkt = cur /\ c.from = off /\ c.len = Rest /\ c.whole = TRUE
      /\ c.claim = IF off = 0 THEN cur.len ELSE claim
      /\ c \in Bytes
  BY <1>1
<1>4. DropSplit(c) \/ GatherSplit(c) \/ StartSplit(c) \/ WholePacket(c)
  BY <1>1
<1>5. /\ off + Rest < cur.len => off' = off + Rest /\ cur' = cur
      /\ off + Rest = cur.len => off' = 0 /\ cur' = None /\ ~astray'
      /\ off + Rest <= DevMru => ~astray'
      /\ off + Rest > DevMru /\ off + Rest < cur.len => astray'
  BY <1>2, TransferMoves
<1> HIDE DEF c
<1>6. CASE off = 0
  <2>1. pktlen = 0 /\ c.claim = cur.len
    BY <1>2, <1>3, <1>6
  <2>2. CASE Rest = UsbMru /\ Rest < cur.len
    <3>1. StartSplit(c)
      BY <1>3, <1>4, <2>1, <2>2 DEF DropSplit, GatherSplit, WholePacket
    <3>2. c = [pkt |-> cur, from |-> 0, len |-> off + Rest, claim |-> cur.len, whole |-> TRUE]
      BY <1>2, <1>6 DEF Carried, c
    <3>3. QED
      BY <1>0, <1>2, <1>3, <1>5, <1>6, <2>2, <3>1, <3>2 DEF StartSplit
  <2>3. CASE ~(Rest = UsbMru /\ Rest < cur.len)
    <3>1. WholePacket(c)
      BY <1>3, <1>4, <2>1, <2>3 DEF DropSplit, GatherSplit, StartSplit
    <3>2. off + Rest = cur.len /\ Rest = cur.len
      BY <1>2, <1>6, <2>3
    <3>3. got' = IF cur \in Acceptable THEN Append(got, cur) ELSE got
      BY <1>0, <1>2, <1>3, <1>6, <2>1, <3>1, <3>2
         DEF WholePacket, Dispatch, Genuine, Acceptable
    <3>4. pktbuf' \in Bytes /\ pktlen' = 0
      BY <2>1, <3>1 DEF WholePacket, Inv, TypeOK
    <3>5. QED
      BY <1>0, <1>5, <3>2, <3>3, <3>4
  <2>4. QED
    BY <2>2, <2>3
<1>7. CASE off # 0
  <2>1. /\ pktlen > 0 /\ pktbuf.pkt = cur /\ pktbuf.from = 0 /\ pktbuf.len = off
        /\ pktbuf.claim = cur.len /\ pktbuf.whole = TRUE /\ pktbuf \in Bytes
    BY <1>2, <1>7 DEF Inv, InSync, TypeOK, Bytes
  <2>2. CASE off + Rest > DevMru
    <3>1. DropSplit(c)
      BY <1>2, <1>3, <1>4, <2>1, <2>2 DEF GatherSplit, StartSplit, WholePacket
    <3>2. cur \notin Acceptable
      BY <1>2, <2>2 DEF Acceptable
    <3>3. off + Rest < cur.len => Rest = UsbMru /\ cur \in Derailing
      BY <1>0, <1>2, <2>2 DEF Derailing
    <3>4. QED
      BY <1>0, <1>2, <1>5, <2>1, <2>2, <3>1, <3>2, <3>3 DEF DropSplit
  <2>3. CASE off + Rest <= DevMru
    <3>1. GatherSplit(c)
      BY <1>2, <1>3, <1>4, <2>1, <2>3 DEF DropSplit, StartSplit, WholePacket
    <3>2. Join(pktbuf, c) = [pkt |-> cur, from |-> 0, len |-> off + Rest,
                             claim |-> cur.len, whole |-> TRUE]
      <4>1. (pktbuf.whole /\ c.whole /\ c.pkt = pktbuf.pkt /\ c.from = pktbuf.from + pktbuf.len)
            = TRUE
        BY <1>2, <1>3, <2>1
      <4>2. Join(pktbuf, c) = [pktbuf EXCEPT !.len = off + Rest, !.whole = TRUE]
        BY <1>3, <2>1, <4>1 DEF Join
      <4>3. pktbuf = [pkt |-> cur, from |-> 0, len |-> off, claim |-> cur.len, whole |-> TRUE]
        BY <2>1 DEF Bytes
      <4>4. QED
        BY <4>2, <4>3
    <3>3. CASE off + Rest = cur.len
      <4>1. Complete(c)
        BY <1>2, <1>3, <2>1, <3>3 DEF Complete
      <4>2. pktlen' = 0 /\ Dispatch(Join(pktbuf, c)) /\ pktbuf' \in Bytes
        BY <1>0, <1>2, <3>1, <3>2, <4>1 DEF GatherSplit, Bytes
      <4>3. got' = IF cur \in Acceptable THEN Append(got, cur) ELSE got
        BY <1>0, <1>2, <2>3, <3>2, <3>3, <4>2 DEF Dispatch, Genuine, Acceptable
      <4>4. QED
        BY <1>0, <1>5, <3>3, <4>2, <4>3
    <3>4. CASE off + Rest < cur.len
      <4>1. ~Complete(c) /\ Rest = UsbMru
        BY <1>2, <1>3, <2>1, <3>4 DEF Complete
      <4>2. QED
        BY <1>0, <1>2, <1>3, <1>5, <2>3, <3>1, <3>2, <3>4, <4>1 DEF GatherSplit
    <3>5. QED
      BY <1>2, <3>3, <3>4
  <2>4. QED
    BY <1>2, <2>2, <2>3
<1>8. QED
  BY <1>6, <1>7

\* What one transfer does to a daemon out of step: it hands on anything or
\* nothing, the buffer still holds whole transfers, and a short transfer leaves
\* it empty.
LEMMA TransferAstray ==
    ASSUME Inv, Transfer, astray
    PROVE  /\ cur \in Packet
           /\ got' \in {got} \cup {Append(got, g) : g \in Packet \cup {Garbled}}
           /\ pktbuf' \in Bytes /\ pktlen' \in Nat /\ pktlen' <= DevMru
           /\ \E k \in 0 .. DevMru : pktlen' = k * UsbMru
           /\ \/ cur' = cur /\ off' = off + Rest /\ off + Rest < cur.len /\ Rest = UsbMru /\ astray'
              \/ /\ cur' = None /\ off' = 0 /\ astray' = (cur \notin EndsShort)
                 /\ ~astray' => pktlen' = 0
<1> USE PacketsAssumption
<1>0. cur \in Packet
  BY TransferMoves
<1>1. PICK claim \in Claims :
        LET c == Carried(claim)
        IN  /\ c.pkt = cur /\ c.from = off /\ c.len = Rest /\ c.whole = TRUE
            /\ c.claim = IF off = 0 THEN cur.len ELSE claim
            /\ c \in Bytes
            /\ DropSplit(c) \/ GatherSplit(c) \/ StartSplit(c) \/ WholePacket(c)
  BY TransferSteps
<1> DEFINE c == Carried(claim)
<1>2. c.len = Rest /\ c \in Bytes
  BY <1>1
<1>3. DropSplit(c) \/ GatherSplit(c) \/ StartSplit(c) \/ WholePacket(c)
  BY <1>1
<1> HIDE DEF c
<1>4. /\ Rest \in 1 .. UsbMru /\ UsbMru <= DevMru
      /\ cur.len \in Nat /\ off \in Nat /\ pktlen \in Nat
      /\ off + Rest <= cur.len
      /\ Rest < UsbMru => off + Rest = cur.len
      /\ off + Rest = cur.len => (cur \in EndsShort <=> Rest < UsbMru)
      /\ pktlen + UsbMru <= DevMru => \E k \in 0 .. DevMru : pktlen + UsbMru = k * UsbMru
  BY <1>0, RestFacts
<1>5. /\ pktbuf \in Bytes /\ pktlen <= DevMru
      /\ \E k \in 0 .. DevMru : pktlen = k * UsbMru
  BY DEF Inv, TypeOK, BufferBound
<1>6. \/ cur' = cur /\ off' = off + Rest /\ off + Rest < cur.len /\ Rest = UsbMru /\ astray'
      \/ cur' = None /\ off' = 0 /\ astray' = (cur \notin EndsShort) /\ (~astray' => Rest < UsbMru)
  <2>1. (astray' <=> Rest = UsbMru) /\ astray' \in BOOLEAN
    BY TransferMoves, Zenon
  <2>2. CASE off + Rest < cur.len
    <3>1. Rest = UsbMru /\ cur' = cur /\ off' = off + Rest
      BY <1>4, <2>2, TransferMoves
    <3>2. QED
      BY <2>1, <2>2, <3>1
  <2>3. CASE off + Rest = cur.len
    <3>1. (cur \in EndsShort <=> Rest # UsbMru) /\ cur' = None /\ off' = 0
      BY <1>4, <2>3, TransferMoves
    <3>2. astray' = (cur \notin EndsShort)
      BY <2>1, <3>1, Zenon
    <3>3. Rest # UsbMru => Rest < UsbMru
      BY <1>4
    <3>4. QED
      BY <2>1, <3>1, <3>2, <3>3, Zenon
  <2>4. QED
    BY <1>4, <2>2, <2>3
<1>7. 0 \in 0 .. DevMru /\ 0 = 0 * UsbMru /\ 1 \in 0 .. DevMru /\ UsbMru = 1 * UsbMru
  OBVIOUS
<1>8. Join(pktbuf, c) \in Bytes
  <2> DEFINE w == pktbuf.whole /\ c.whole /\ c.pkt = pktbuf.pkt /\ c.from = pktbuf.from + pktbuf.len
  <2>1. Join(pktbuf, c) = [pktbuf EXCEPT !.len = pktbuf.len + c.len, !.whole = w]
    BY <1>2, <1>5 DEF Join, Bytes
  <2>2. w \in BOOLEAN /\ pktbuf.len + c.len \in Nat
    BY <1>2, <1>5 DEF Bytes
  <2> HIDE DEF w
  <2>3. QED
    BY <1>5, <2>1, <2>2 DEF Bytes
<1>9. ASSUME NEW b \in Bytes, Dispatch(b)
      PROVE  got' \in {got} \cup {Append(got, g) : g \in Packet \cup {Garbled}}
  <2>1. b.pkt \in Packet
    BY DEF Bytes
  <2>2. QED
    BY <1>9, <2>1 DEF Dispatch
<1>10. /\ got' \in {got} \cup {Append(got, g) : g \in Packet \cup {Garbled}}
       /\ pktbuf' \in Bytes /\ pktlen' \in Nat /\ pktlen' <= DevMru
       /\ \E k \in 0 .. DevMru : pktlen' = k * UsbMru
       /\ Rest < UsbMru => pktlen' = 0
  <2>1. CASE DropSplit(c)
    BY <1>5, <1>7, <2>1 DEF DropSplit
  <2>2. CASE GatherSplit(c) /\ Complete(c)
    BY <1>7, <1>8, <1>9, <2>2 DEF GatherSplit
  <2>3. CASE GatherSplit(c) /\ ~Complete(c)
    <3>1. Rest = UsbMru /\ pktlen' = pktlen + UsbMru /\ pktlen + UsbMru <= DevMru
      BY <1>2, <1>4, <2>3 DEF GatherSplit, Complete
    <3>2. QED
      BY <1>4, <1>8, <2>3, <3>1 DEF GatherSplit
  <2>4. CASE StartSplit(c)
    BY <1>2, <1>4, <1>7, <2>4 DEF StartSplit
  <2>5. CASE WholePacket(c)
    BY <1>2, <1>5, <1>7, <1>9, <2>5 DEF WholePacket
  <2>6. QED
    BY <1>3, <2>1, <2>2, <2>3, <2>4, <2>5
<1>11. QED
  BY <1>0, <1>6, <1>10

\* An empty transfer is ignored.
LEMMA EmptyEffect ==
    ASSUME EmptyTransfer
    PROVE  UNCHANGED vars
BY DEF EmptyTransfer, DeviceDataInput, IgnoreTransfer, vars

\* Before the first packet nothing is held back.
LEMMA InvInit ==
    Init => Inv
<1>1. SUFFICES ASSUME Init PROVE Inv
  OBVIOUS
<1>2. TypeOK
  <2>1. PICK p \in Packet :
          pktbuf = [pkt |-> p, from |-> 0, len |-> 0, claim |-> 0, whole |-> TRUE]
    BY <1>1 DEF Init
  <2>2. pktbuf \in Bytes
    BY <2>1 DEF Bytes
  <2>3. got \in Seq(Packet \cup {Garbled})
    BY <1>1 DEF Init
  <2>4. astray \in BOOLEAN
    BY <1>1, Zenon DEF Init
  <2>5. QED
    BY <1>1, <2>2, <2>3, <2>4 DEF Init, TypeOK
<1>3. InSync /\ OffWhole
  BY <1>1 DEF Init, InSync, OffWhole
<1>4. BufferBound
  <2>1. 0 \in 0 .. DevMru /\ pktlen = 0 * UsbMru /\ pktlen <= DevMru
    BY <1>1, PacketsAssumption DEF Init
  <2>2. QED
    BY <1>1, <2>1 DEF Init, BufferBound
<1>5. QED
  BY <1>2, <1>3, <1>4 DEF Inv

\* What a handler gets is added to what the handlers got.
LEMMA AppendType ==
    ASSUME NEW S, NEW q \in Seq(S), NEW g \in S
    PROVE  Append(q, g) \in Seq(S)
OBVIOUS

\* A transfer keeps the invariant, in step or not.
LEMMA TransferKeepsInv ==
    ASSUME Inv, Transfer
    PROVE  Inv'
<1> USE PacketsAssumption
<1>1. /\ cur \in Packet /\ cur # None /\ off + Rest \in Nat /\ cur.len \in Nat /\ off \in Nat
      /\ Rest = UsbMru => \E k \in Nat : off + Rest = k * UsbMru
      /\ pktlen + UsbMru <= DevMru => \E k \in 0 .. DevMru : pktlen + UsbMru = k * UsbMru
      /\ ~astray => pktlen = off
      /\ got \in Seq(Packet \cup {Garbled})
      /\ 0 \in 0 .. DevMru /\ 0 = 0 * UsbMru
  <2>1. cur \in Packet
    BY TransferMoves
  <2>2. QED
    BY <2>1, RestFacts DEF Inv, TypeOK
<1>2. CASE /\ ~astray
           /\ off + Rest < cur.len /\ Rest = UsbMru /\ off + Rest <= DevMru
           /\ cur' = cur /\ off' = off + Rest /\ pktlen' = off + Rest /\ got' = got
           /\ pktbuf' = [pkt |-> cur, from |-> 0, len |-> off + Rest,
                         claim |-> cur.len, whole |-> TRUE]
           /\ ~astray'
  <2>1. TypeOK'
    BY <1>1, <1>2, TransferMoves DEF TypeOK, Bytes
  <2>2. InSync'
    BY <1>1, <1>2 DEF InSync
  <2>3. BufferBound' /\ OffWhole'
    BY <1>1, <1>2 DEF BufferBound, OffWhole
  <2>4. QED
    BY <2>1, <2>2, <2>3 DEF Inv
<1>3. CASE /\ cur' = None /\ off' = 0 /\ pktlen' = 0
           /\ pktbuf' \in Bytes
           /\ got' = IF cur \in Acceptable THEN Append(got, cur) ELSE got
           /\ ~astray'
  <2>1. got' \in Seq(Packet \cup {Garbled})
    BY <1>1, <1>3 DEF Acceptable
  <2>2. TypeOK'
    BY <1>1, <1>3, <2>1, TransferMoves DEF TypeOK
  <2>3. InSync' /\ BufferBound' /\ OffWhole'
    BY <1>1, <1>3 DEF InSync, BufferBound, OffWhole
  <2>4. QED
    BY <2>2, <2>3 DEF Inv
<1>4. CASE /\ off + Rest < cur.len /\ Rest = UsbMru
           /\ cur' = cur /\ off' = off + Rest /\ pktlen' = 0
           /\ pktbuf' \in Bytes /\ got' = got
           /\ astray'
  <2>1. TypeOK'
    BY <1>1, <1>4, TransferMoves DEF TypeOK
  <2>2. InSync' /\ BufferBound' /\ OffWhole'
    BY <1>1, <1>4 DEF InSync, BufferBound, OffWhole
  <2>3. QED
    BY <2>1, <2>2 DEF Inv
<1>5. CASE astray
  <2>1. /\ got' \in {got} \cup {Append(got, g) : g \in Packet \cup {Garbled}}
        /\ pktbuf' \in Bytes /\ pktlen' \in Nat /\ pktlen' <= DevMru
        /\ \E k \in 0 .. DevMru : pktlen' = k * UsbMru
        /\ \/ cur' = cur /\ off' = off + Rest /\ off + Rest < cur.len /\ Rest = UsbMru /\ astray'
           \/ /\ cur' = None /\ off' = 0 /\ astray' = (cur \notin EndsShort)
              /\ ~astray' => pktlen' = 0
    BY <1>5, TransferAstray
  <2>2. got' \in Seq(Packet \cup {Garbled})
    <3>1. got' = got \/ \E g \in Packet \cup {Garbled} : got' = Append(got, g)
      BY <2>1
    <3>2. got \in Seq(Packet \cup {Garbled})
      BY <1>1
    <3>3. QED
      BY <3>1, <3>2, AppendType
  <2>3. TypeOK'
    BY <1>1, <2>1, <2>2, TransferMoves DEF TypeOK
  <2>4. InSync'
    BY <1>1, <2>1 DEF InSync
  <2>5. BufferBound'
    BY <1>1, <2>1 DEF BufferBound
  <2>6. OffWhole'
    BY <1>1, <2>1 DEF OffWhole
  <2>7. QED
    BY <2>3, <2>4, <2>5, <2>6 DEF Inv
<1>6. QED
  BY <1>2, <1>3, <1>4, <1>5, TransferInStep

\* Every transfer, and the device's next packet, keeps the invariant.
LEMMA InvNext ==
    Inv /\ [Next]_vars => Inv'
<1> USE PacketsAssumption
<1>1. SUFFICES ASSUME Inv, [Next]_vars PROVE Inv'
  OBVIOUS
<1>2. ASSUME UNCHANGED vars PROVE Inv'
  BY <1>1, <1>2 DEF Inv, TypeOK, InSync, BufferBound, OffWhole, vars
<1>3. CASE Begin
  <2>1. ~astray => pktlen = 0
    BY <1>1, <1>3 DEF Begin, Inv, InSync
  <2>2. /\ cur' \in Packet /\ cur' # None /\ cur'.len \in Nat /\ 0 < cur'.len
        /\ 0 \in Nat /\ 0 = 0 * UsbMru
    BY <1>3 DEF Begin
  <2>3. OffWhole'
    BY <1>3, <2>2 DEF Begin, OffWhole
  <2>4. off' = 0 /\ UNCHANGED <<pktbuf, pktlen, got, astray>>
    BY <1>3 DEF Begin
  <2>5. TypeOK'
    BY <1>1, <2>2, <2>4 DEF Inv, TypeOK
  <2>6. InSync'
    BY <2>1, <2>2, <2>4 DEF InSync
  <2>7. BufferBound'
    BY <1>1, <2>2, <2>4 DEF Inv, BufferBound
  <2>8. QED
    BY <2>3, <2>5, <2>6, <2>7 DEF Inv
<1>4. CASE Transfer
  BY <1>1, <1>4, TransferKeepsInv
<1>5. CASE EmptyTransfer
  BY <1>2, <1>5, EmptyEffect
<1>6. QED
  BY <1>1, <1>2, <1>3, <1>4, <1>5 DEF Next

\* Reassembly stays in step: between two packets device_data_input holds
\* nothing back, whatever their lengths were, unless one went on after it was
\* dropped; and the first short transfer after that brings it back.
THEOREM StaysInSync == Spec => [](TypeOK /\ InSync)
BY InvInit, InvNext, PTL DEF Spec, Inv

\* What device_data_input has collected never outgrows dev->pktbuf, however
\* long the packets are, how they are cut into transfers, and whether or not
\* it is in step with the device: it is a whole number of full transfers.
THEOREM BufferIsNeverOverrun == Spec => []BufferBound
BY InvInit, InvNext, PTL DEF Spec, Inv

\* Every step of the daemon or the device is a step of the channel, or none.
LEMMA StepMapsToChannel ==
    ASSUME Inv, [Next]_vars
    PROVE  Channel!ChanNext \/ UNCHANGED <<cur, got, astray>>
<1>1. CASE UNCHANGED vars \/ EmptyTransfer
  BY <1>1, EmptyEffect DEF vars
<1>2. CASE Begin
  BY <1>2 DEF Begin, Channel!ChanNext, Channel!Send
<1>3. CASE Transfer /\ ~astray
  <2>1. cur \in Packet
    BY <1>3, TransferInStep
  <2>2. CASE cur' = None /\ got' = (IF cur \in Acceptable THEN Append(got, cur) ELSE got) /\ ~astray'
    <3>1. astray' = astray
      BY <1>3, <2>2, TransferMoves DEF Inv, TypeOK
    <3>2. QED
      BY <1>3, <2>1, <2>2, <3>1 DEF Channel!ChanNext, Channel!Deliver, Channel!Discard
  <2>3. CASE cur \in Derailing /\ cur' = cur /\ got' = got /\ astray'
    <3>1. astray' = TRUE
      BY <1>3, <2>3, TransferMoves
    <3>2. QED
      BY <2>3, <3>1 DEF Channel!ChanNext, Channel!Derail
  <2>4. CASE cur' = cur /\ got' = got /\ ~astray'
    <3>1. astray' = astray
      BY <1>3, <2>4, TransferMoves DEF Inv, TypeOK
    <3>2. QED
      BY <2>4, <3>1
  <2>5. QED
    BY <1>3, <2>2, <2>3, <2>4, TransferInStep
<1>4. CASE Transfer /\ astray
  <2>1. /\ cur \in Packet
        /\ got' \in {got} \cup {Append(got, g) : g \in Packet \cup {Garbled}}
        /\ \/ cur' = cur /\ astray'
           \/ cur' = None /\ astray' = (cur \notin EndsShort)
    BY <1>4, TransferAstray
  <2>2. astray' => astray' = astray
    BY <1>4, TransferMoves DEF Inv, TypeOK
  <2>3. QED
    BY <1>4, <2>1, <2>2 DEF Channel!ChanNext, Channel!Misread
<1>5. QED
  BY <1>1, <1>2, <1>3, <1>4 DEF Next

\* device_data_input implements the packet channel: every packet the device
\* sends reaches its handler whole, once and in order, but for those that are
\* too long for the buffer or too short for their protocol; one that goes on
\* after it was dropped may garble what follows, up to the end of the first
\* packet that ends in a short transfer.
THEOREM ImplementsChannel == Spec => Reassembles
<1>1. Init => Channel!ChanInit
  BY DEF Init, Channel!ChanInit
<1>2. Inv /\ [Next]_vars => [Channel!ChanNext]_(Channel!chanVars)
  BY StepMapsToChannel DEF Channel!chanVars
<1>3. QED
  BY <1>1, <1>2, InvInit, InvNext, PTL DEF Spec, Reassembles, Channel!ChanSpec

=============================================================================
