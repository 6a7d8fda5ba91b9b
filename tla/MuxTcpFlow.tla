------------------------- MODULE MuxTcpFlow -------------------------
(***************************************************************************)
(* The flow control of MuxTcp, for every size of windows, buffers and      *)
(* sequence space.  Sequence numbers wrap, so the argument never compares  *)
(* two of them: it compares their distances from the oldest number that is *)
(* still of interest in that direction.                                    *)
(***************************************************************************)
EXTENDS MuxTcp, TLAPS

(* Types.  Windows are integers here: that the device never advertises a   *)
(* negative one is a consequence of the flow control, not of the types.    *)
WideSegment == [flags : Flags, seq : Seqno, ack : Seqno, win : Int, len : Nat]
WideConn == [state : ConnStates, tx_seq : Seqno, tx_ack : Seqno, tx_acked : Seqno,
             rx_ack : Seqno, rx_win : Int, sendable : Int, ib_size : Nat,
             events : SUBSET Events, ack_pending : BOOLEAN, ack_due : BOOLEAN]
WidePeer == [state : {"LISTEN", "SYNRCVD", "EST", "CLOSED"}, snd : Seqno, una : Seqno,
             wnd : Int, rcv : Seqno, buf : Int, owes : BOOLEAN]

\* How far a segment moves the sequence number, and to where.
Extent(s) == IF s.flags \in {"SYN", "SYNACK"} THEN 1 ELSE s.len
End(s) == Add(s.seq, Extent(s))

\* The segments of q follow each other without gap from number a to number b.
Chain(q, a, b) ==
    /\ q = <<>> => a = b
    /\ q # <<>> => q[1].seq = a /\ End(q[Len(q)]) = b
    /\ \A i \in 1 .. Len(q) - 1 : q[i + 1].seq = End(q[i])

\* Their distances from u increase, from lo to hi, without wrapping.
Ordered(q, u, lo, hi) ==
    /\ lo <= hi
    /\ \A i \in 1 .. Len(q) : /\ lo <= Sub(q[i].seq, u)
                              /\ Sub(q[i].seq, u) + Extent(q[i]) <= hi
    /\ \A i, j \in 1 .. Len(q) : i < j => Sub(q[i].seq, u) + Extent(q[i]) <= Sub(q[j].seq, u)

\* The acknowledgements in q increase, seen from u, up to distance hi.
Acks(q, u, hi) ==
    /\ \A i \in 1 .. Len(q) : Sub(q[i].ack, u) <= hi
    /\ \A i, j \in 1 .. Len(q) : i < j => Sub(q[i].ack, u) <= Sub(q[j].ack, u)

\* The windows announced in q reach, seen from u, no further than limit.
Limits(q, u, limit) ==
    \A i \in 1 .. Len(q) : /\ q[i].win * WinUnit <= DevWin
                           /\ Sub(q[i].ack, u) + q[i].win * WinUnit <= limit

(* The state of one connection: c is the daemon's end, p the device's, t and *)
(* f the pipes to and from the device, on whether it is plugged in.          *)

Live(c) == c.state \in {"CONNECTING", "CONNECTED"}
Open(p) == p.state \in {"SYNRCVD", "EST"}

\* The number of the next byte to be sent: the SYN is counted when it is answered.
Sent(c) == IF c.state = "CONNECTING" THEN Add(c.tx_seq, 1) ELSE c.tx_seq

\* From the device: what it has been told is acknowledged, what is on its way
\* to be acknowledged, what the client took, what is buffered, what is in the
\* pipe and what it has sent last are in this order, within one window.
Receiving(c, p, t, f) ==
    LET D(x) == Sub(x, p.una)
    IN  /\ Chain(f, Add(c.tx_ack, c.ib_size), p.snd)
        /\ Acks(t, p.una, D(c.tx_ack))
        /\ Ordered(f, p.una, D(c.tx_ack) + c.ib_size, D(p.snd))
        /\ D(p.snd) <= TxWin + 1
        /\ c.state = "CONNECTED" => D(p.snd) <= D(c.tx_ack) + TxWin
        /\ p.wnd <= TxWin
        /\ \A i \in 1 .. Len(t) : t[i].win * WinUnit <= TxWin

\* To the device: no window it has announced, acted upon or still in the pipe,
\* reaches beyond its buffer, and nothing that was sent does.
Sending(c, p, t, f) ==
    LET F(x) == Sub(x, c.rx_ack)
        limit == F(p.rcv) + DevWin - p.buf
    IN  /\ Chain(t, p.rcv, Sent(c))
        /\ Ordered(t, p.rcv, 0, Sub(Sent(c), p.rcv))
        /\ Sub(Sent(c), p.rcv) + p.buf <= DevWin
        /\ F(Sent(c)) = F(p.rcv) + Sub(Sent(c), p.rcv)
        /\ F(Sent(c)) <= DevWin + 1
        /\ Acks(f, c.rx_ack, F(p.rcv))
        /\ Limits(f, c.rx_ack, limit)
        /\ c.rx_win <= DevWin /\ c.rx_win <= limit

\* What a freed connection has left in the pipe q fits in the device's buffer,
\* which holds b bytes and expects number r.
Harmless(q, r, b) ==
    /\ q # <<>> /\ q[1].flags = "ACK" => q[1].seq = r
    /\ \A i \in 1 .. Len(q) - 1 :
          q[i].flags = "ACK" /\ q[i + 1].flags = "ACK" => q[i + 1].seq = End(q[i])
    /\ \A i \in 1 .. Len(q) : q[i].flags = "ACK" => Sub(q[i].seq, r) + q[i].len + b <= DevWin
    /\ \A i, j \in 1 .. Len(q) :
          i < j /\ q[i].flags = "ACK" /\ q[j].flags = "ACK" =>
              Sub(q[i].seq, r) + q[i].len <= Sub(q[j].seq, r)

\* What the pipes hold before and during the handshake.
Handshake(c, p, t, f, on) ==
    /\ c.state = "NONE" => /\ t = <<>> /\ f = <<>> /\ p.state \in {"LISTEN", "CLOSED"}
                           /\ on => p.state = "LISTEN"
    /\ p.state = "LISTEN" =>
          /\ f = <<>> /\ c.state # "CONNECTED"
          /\ p.snd = 0 /\ p.una = 0 /\ p.rcv = 0 /\ p.buf = 0 /\ p.wnd = 0
          /\ \A i \in 1 .. Len(t) : t[i].flags # "ACK"
    /\ c.state = "CONNECTING" =>
          /\ c.tx_seq = 0 /\ c.tx_ack = 0 /\ c.rx_ack = 0 /\ c.rx_win = 0
          /\ Sub(p.snd, p.una) <= 1
          /\ IF p.state = "LISTEN"
             THEN Len(t) = 1 /\ t[1].flags = "SYN" /\ t[1].seq = 0
             ELSE t = <<>> /\ p.state # "EST"

Flows(c, p, t, f, on) ==
    /\ p.buf >= 0 /\ p.buf <= DevWin
    /\ Handshake(c, p, t, f, on)
    /\ Live(c) => Receiving(c, p, t, f)
    /\ Live(c) /\ Open(p) => Sending(c, p, t, f)
    /\ c.state = "FREED" /\ Open(p) => Harmless(t, p.rcv, p.buf)

\* Most leaves need no arithmetic: they are left to Zenon, the others to SMT.
USE ZenonT(4), SMTT(30), ZenonT(40)

-----------------------------------------------------------------------------
(* Arithmetic of sequence numbers.                                          *)

\* Sequence arithmetic stays in the sequence space.
LEMMA SeqTypes ==
    ASSUME NEW a \in Int, NEW n \in Int
    PROVE  Add(a, n) \in Seqno /\ Sub(a, n) \in Seqno
  BY SizesAssumption DEF Add, Sub, Seqno

\* Sequence numbers are integers, and 0 is one.
LEMMA SeqInts == Seqno \subseteq Int /\ 0 \in Seqno
  BY SizesAssumption DEF Seqno

\* A number is its remainder and a multiple of the modulus.
LEMMA Quotient ==
    ASSUME NEW m \in Nat \ {0}, NEW a \in Int
    PROVE  a % m \in 0 .. m - 1 /\ \E k \in Int : a = (a % m) + k * m
<1>1. a % m \in 0 .. m - 1
  OBVIOUS
<1>2. a \div m \in Int /\ a = (a % m) + (a \div m) * m
  OBVIOUS
<1> QED
  BY Zenon, <1>1, <1>2

\* Multiples of the modulus do not change the remainder.
LEMMA Remainder ==
    ASSUME NEW m \in Nat \ {0}, NEW r \in 0 .. m - 1, NEW k \in Int
    PROVE  (r + k * m) % m = r
OBVIOUS

\* The remainder of a sum.
LEMMA SumRemainder ==
    ASSUME NEW m \in Nat \ {0}, NEW a \in Int, NEW b \in Int
    PROVE  ((a % m) + b) % m = (a + b) % m
<1>1. PICK k \in Int : a = (a % m) + k * m
  BY Zenon, Quotient
<1> DEFINE r == a % m
           s == (r + b) % m
<1>2. r \in Int
  BY Quotient
<1>3. s \in 0 .. m - 1 /\ \E l \in Int : r + b = s + l * m
  <2> HIDE DEF r
  <2>1. r + b \in Int
    BY <1>2
  <2> QED
    BY Zenon, <2>1, Quotient
<1>4. PICK l \in Int : r + b = s + l * m
  BY Zenon, <1>3
<1> HIDE DEF r, s
<1>5. a = r + k * m
  BY <1>1 DEF r
<1>6. k + l \in Int /\ (k + l) * m = k * m + l * m
  OBVIOUS
<1>7. k * m \in Int /\ l * m \in Int
  OBVIOUS
<1>8. a + b = s + (k + l) * m
  BY <1>2, <1>3, <1>4, <1>5, <1>6, <1>7
<1>9. \A n \in Int : (s + n * m) % m = s
  BY <1>3, Remainder
<1>10. (s + (k + l) * m) % m = s
  BY Zenon, <1>6, <1>9
<1> QED
  BY <1>8, <1>10 DEF r, s

\* Counting n bytes and then k bytes, as tx_ack and ib_size do.
LEMMA AddAdd ==
    ASSUME NEW a \in Int, NEW n \in Int, NEW k \in Int
    PROVE  Add(Add(a, n), k) = Add(a, n + k)
<1>1. SeqMod \in Nat \ {0} /\ a + n \in Int /\ (a + n) + k = a + (n + k)
  BY SizesAssumption
<1>2. (((a + n) % SeqMod) + k) % SeqMod = ((a + n) + k) % SeqMod
  BY Zenon, <1>1, SumRemainder
<1> QED
  BY <1>1, <1>2 DEF Add

\* Going n of m steps, then the rest.
LEMMA AddSplit ==
    ASSUME NEW a \in Int, NEW n \in Int, NEW m \in Int
    PROVE  Add(Add(a, n), m - n) = Add(a, m)
<1> DEFINE k == m - n
<1>1. k \in Int /\ n + k = m
  OBVIOUS
<1> HIDE DEF k
<1>2. Add(Add(a, n), k) = Add(a, n + k)
  BY <1>1, AddAdd
<1>3. Add(Add(a, n), k) = Add(a, m)
  BY <1>1, <1>2
<1> QED
  BY <1>3 DEF k

\* Sequence numbers are integers below the modulus.
LEMMA SeqnoInts ==
    /\ SeqMod \in Nat \ {0}
    /\ \A x \in Seqno : x \in Int /\ 0 <= x /\ x < SeqMod
    /\ \A x \in Int : 0 <= x /\ x < SeqMod => x \in Seqno
BY SizesAssumption DEF Seqno

\* Distances, case by case.
LEMMA SubCases ==
    ASSUME NEW x \in Seqno, NEW u \in Seqno
    PROVE  /\ Sub(x, u) = IF u <= x THEN x - u ELSE x - u + SeqMod
           /\ Sub(x, u) \in Nat /\ Sub(x, u) < SeqMod
<1>1. /\ x \in Int /\ 0 <= x /\ x < SeqMod /\ u \in Int /\ 0 <= u /\ u < SeqMod
      /\ SeqMod \in Nat \ {0}
  BY SeqnoInts
<1>2. CASE u <= x
  <2>1. x - u \in 0 .. SeqMod - 1
    BY <1>1, <1>2
  <2>2. \A z \in 0 .. SeqMod - 1 : z % SeqMod = z
    BY <1>1
  <2> QED
    BY <1>1, <1>2, <2>1, <2>2 DEF Sub
<1>3. CASE ~(u <= x)
  <2>1. x - u \in Int /\ -SeqMod < x - u /\ x - u < 0
    BY <1>1, <1>3
  <2>2. \A z \in Int : -SeqMod < z /\ z < 0 => z % SeqMod = z + SeqMod
    BY <1>1
  <2> QED
    BY <1>1, <1>3, <2>1, <2>2 DEF Sub
<1> QED
  BY <1>2, <1>3

\* Sums, case by case.
LEMMA AddCases ==
    ASSUME NEW x \in Seqno, NEW n \in Nat, n < SeqMod
    PROVE  Add(x, n) = IF x + n < SeqMod THEN x + n ELSE x + n - SeqMod
<1>1. x \in Int /\ 0 <= x /\ x < SeqMod /\ SeqMod \in Nat \ {0}
  BY SeqnoInts
<1>2. \A z \in 0 .. SeqMod - 1 : z % SeqMod = z
  BY <1>1
<1>3. \A z \in SeqMod .. 2 * SeqMod - 1 : z % SeqMod = z - SeqMod
  BY <1>1
<1>4. CASE x + n < SeqMod
  BY <1>1, <1>2, <1>4 DEF Add
<1>5. CASE ~(x + n < SeqMod)
  <2>1. x + n \in SeqMod .. 2 * SeqMod - 1
    BY <1>1, <1>5
  <2> QED
    BY <1>1, <1>3, <1>5, <2>1 DEF Add
<1> QED
  BY <1>4, <1>5

\* A number moved forward by n is n further away, unless it wraps around.
LEMMA Forward ==
    ASSUME NEW x \in Seqno, NEW u \in Seqno, NEW n \in Nat, Sub(x, u) + n < SeqMod
    PROVE  Add(x, n) \in Seqno /\ Sub(Add(x, n), u) = Sub(x, u) + n
<1>1. /\ x \in Int /\ 0 <= x /\ x < SeqMod /\ u \in Int /\ 0 <= u /\ u < SeqMod
      /\ SeqMod \in Nat \ {0}
  BY SeqnoInts
<1>2. /\ Sub(x, u) = IF u <= x THEN x - u ELSE x - u + SeqMod
      /\ Sub(x, u) \in Nat
  BY SubCases
<1>3. n < SeqMod
  BY <1>1, <1>2
<1> DEFINE y == Add(x, n)
<1>4. y = IF x + n < SeqMod THEN x + n ELSE x + n - SeqMod
  BY <1>3, AddCases
<1>5. y \in Seqno
  BY <1>1, <1>3, <1>4, SeqnoInts
<1>6. Sub(y, u) = IF u <= y THEN y - u ELSE y - u + SeqMod
  BY <1>5, SubCases
<1> HIDE DEF y
<1>7. Sub(y, u) = Sub(x, u) + n
  BY <1>1, <1>2, <1>3, <1>4, <1>6
<1> QED
  BY <1>5, <1>7 DEF y

\* Distances from a number v that is not further away.
LEMMA Rebase ==
    ASSUME NEW x \in Seqno, NEW u \in Seqno, NEW v \in Seqno, Sub(v, u) <= Sub(x, u)
    PROVE  Sub(x, v) = Sub(x, u) - Sub(v, u)
<1>1. /\ x \in Int /\ 0 <= x /\ x < SeqMod /\ u \in Int /\ 0 <= u /\ u < SeqMod
      /\ v \in Int /\ 0 <= v /\ v < SeqMod /\ SeqMod \in Nat \ {0}
  BY SeqnoInts
<1>2. Sub(x, u) = IF u <= x THEN x - u ELSE x - u + SeqMod
  BY SubCases
<1>3. Sub(v, u) = IF u <= v THEN v - u ELSE v - u + SeqMod
  BY SubCases
<1>4. Sub(x, v) = IF v <= x THEN x - v ELSE x - v + SeqMod
  BY SubCases
<1> QED
  BY <1>1, <1>2, <1>3, <1>4

\* Nothing added, and the distance of a number from itself.
LEMMA Nothing ==
    ASSUME NEW x \in Seqno
    PROVE  Add(x, 0) = x /\ Sub(x, x) = 0
<1>1. x \in Int /\ 0 <= x /\ x < SeqMod /\ SeqMod \in Nat \ {0}
  BY SeqnoInts
<1> QED
  BY <1>1, AddCases, SubCases

-----------------------------------------------------------------------------
(* Segments in a pipe.                                                      *)

\* The numbers of a segment.
LEMMA SegmentNumbers ==
    ASSUME NEW s \in WideSegment
    PROVE  /\ s.seq \in Seqno /\ s.ack \in Seqno /\ s.len \in Nat /\ s.win \in Int
           /\ Extent(s) \in Nat /\ End(s) \in Seqno
<1>1. s.seq \in Seqno /\ s.ack \in Seqno /\ s.len \in Nat /\ s.win \in Int
  BY DEF WideSegment
<1>2. Extent(s) \in Nat
  BY <1>1 DEF Extent
<1>3. s.seq \in Int /\ Extent(s) \in Int
  BY <1>1, <1>2, SeqnoInts
<1>4. End(s) \in Seqno
  BY <1>3, SeqTypes DEF End
<1> QED
  BY <1>1, <1>2, <1>4

\* The pipe without its first segment.
LEMMA TailFacts ==
    ASSUME NEW q \in Seq(WideSegment), q # <<>>
    PROVE  /\ Tail(q) \in Seq(WideSegment) /\ Len(Tail(q)) = Len(q) - 1
           /\ Len(q) \in Nat /\ Len(q) >= 1 /\ Head(q) = q[1] /\ Head(q) \in WideSegment
           /\ \A i \in 1 .. Len(q) - 1 : Tail(q)[i] = q[i + 1]
           /\ \A i \in 1 .. Len(q) : q[i] \in WideSegment
           /\ Tail(q) = <<>> <=> Len(q) = 1
<1>1. Tail(q) \in Seq(WideSegment) /\ Len(Tail(q)) = Len(q) - 1
  OBVIOUS
<1>2. Len(q) \in Nat /\ Len(q) >= 1 /\ Head(q) = q[1] /\ Head(q) \in WideSegment
  OBVIOUS
<1>3. \A i \in 1 .. Len(q) - 1 : Tail(q)[i] = q[i + 1]
  OBVIOUS
<1>4. \A i \in 1 .. Len(q) : q[i] \in WideSegment
  OBVIOUS
<1>5. \A t \in Seq(WideSegment) : t = <<>> <=> Len(t) = 0
  OBVIOUS
<1>6. Tail(q) = <<>> <=> Len(q) = 1
  <2> DEFINE t == Tail(q)
  <2>1. t \in Seq(WideSegment) /\ Len(t) = Len(q) - 1
    BY <1>1
  <2> HIDE DEF t
  <2>2. t = <<>> <=> Len(q) = 1
    BY <1>2, <1>5, <2>1
  <2> QED
    BY <2>2 DEF t
<1> QED
  BY <1>1, <1>2, <1>3, <1>4, <1>6

\* The pipe with one more segment.
LEMMA AppendFacts ==
    ASSUME NEW q \in Seq(WideSegment), NEW s \in WideSegment
    PROVE  /\ Append(q, s) \in Seq(WideSegment) /\ Len(Append(q, s)) = Len(q) + 1
           /\ Len(q) \in Nat /\ Append(q, s) # <<>>
           /\ \A i \in 1 .. Len(q) : Append(q, s)[i] = q[i] /\ q[i] \in WideSegment
           /\ Append(q, s)[Len(q) + 1] = s
           /\ q = <<>> <=> Len(q) = 0
OBVIOUS

\* Taking a segment out at the front.
LEMMA ChainTail ==
    ASSUME NEW q \in Seq(WideSegment), q # <<>>, NEW a, NEW b, Chain(q, a, b)
    PROVE  Head(q).seq = a /\ Chain(Tail(q), End(Head(q)), b)
<1> DEFINE t == Tail(q)
           n == Len(q)
<1>1. /\ t \in Seq(WideSegment) /\ Len(t) = n - 1 /\ n \in Nat /\ n >= 1
      /\ Head(q) = q[1] /\ \A i \in 1 .. n - 1 : t[i] = q[i + 1]
      /\ t = <<>> <=> n = 1
  BY TailFacts
<1>2. q[1].seq = a /\ End(q[n]) = b /\ \A i \in 1 .. n - 1 : q[i + 1].seq = End(q[i])
  BY DEF Chain
<1> HIDE DEF t, n
<1>3. t = <<>> => End(Head(q)) = b
  BY <1>1, <1>2
<1>4. t # <<>> => t[1].seq = End(Head(q)) /\ End(t[Len(t)]) = b
  <2> SUFFICES ASSUME t # <<>> PROVE t[1].seq = End(Head(q)) /\ End(t[Len(t)]) = b
    OBVIOUS
  <2>1. n > 1
    BY <1>1
  <2>2. t[1] = q[2] /\ q[2].seq = End(q[1])
    BY <1>1, <1>2, <2>1
  <2>3. t[n - 1] = q[n]
    BY <1>1, <2>1
  <2> QED
    BY <1>1, <1>2, <2>2, <2>3
<1>5. ASSUME NEW i \in 1 .. Len(t) - 1 PROVE t[i + 1].seq = End(t[i])
  <2>1. i \in 1 .. n - 1 /\ i + 1 \in 1 .. n - 1 /\ (i + 1) + 1 = i + 2
    BY <1>1
  <2>2. t[i] = q[i + 1] /\ t[i + 1] = q[(i + 1) + 1]
    BY <1>1, <2>1
  <2> QED
    BY <1>2, <2>1, <2>2
<1>6. Chain(t, End(Head(q)), b)
  BY <1>3, <1>4, <1>5 DEF Chain
<1> QED
  BY <1>1, <1>2, <1>6 DEF t

\* Putting one in at the end.
LEMMA ChainAppend ==
    ASSUME NEW q \in Seq(WideSegment), NEW s \in WideSegment, NEW a, NEW b, Chain(q, a, b),
           s.seq = b
    PROVE  Chain(Append(q, s), a, End(s))
<1> DEFINE t == Append(q, s)
           n == Len(q)
<1>1. /\ t \in Seq(WideSegment) /\ Len(t) = n + 1 /\ n \in Nat /\ t # <<>>
      /\ \A i \in 1 .. n : t[i] = q[i]
      /\ t[n + 1] = s /\ (q = <<>> <=> n = 0)
  BY AppendFacts
<1>2. /\ q = <<>> => a = b
      /\ q # <<>> => q[1].seq = a /\ End(q[n]) = b
      /\ \A i \in 1 .. n - 1 : q[i + 1].seq = End(q[i])
  BY DEF Chain
<1> HIDE DEF t, n
<1>3. t[1].seq = a
  <2>1. CASE n = 0
    BY <1>1, <1>2, <2>1
  <2>2. CASE n # 0
    <3>1. t[1] = q[1]
      BY <1>1, <2>2
    <3> QED
      BY <1>1, <1>2, <2>2, <3>1
  <2> QED
    BY <2>1, <2>2
<1>4. ASSUME NEW i \in 1 .. n PROVE t[i + 1].seq = End(t[i])
  <2>1. t[i] = q[i]
    BY <1>1
  <2>2. CASE i = n
    BY <1>1, <1>2, <2>1, <2>2
  <2>3. CASE i # n
    <3>1. i \in 1 .. n - 1 /\ i + 1 \in 1 .. n
      BY <1>1, <2>3
    <3>2. t[i + 1] = q[i + 1]
      BY <1>1, <3>1
    <3> QED
      BY <1>2, <2>1, <3>1, <3>2
  <2> QED
    BY <2>2, <2>3
<1>5. Len(t) - 1 = n /\ End(t[Len(t)]) = End(s)
  BY <1>1
<1>6. Chain(t, a, End(s))
  BY <1>1, <1>3, <1>4, <1>5 DEF Chain
<1> QED
  BY <1>6 DEF t

\* Distances are numbers.
LEMMA Distances ==
    ASSUME NEW q \in Seq(WideSegment), NEW u \in Seqno, NEW i \in 1 .. Len(q)
    PROVE  /\ q[i] \in WideSegment /\ q[i].seq \in Seqno /\ q[i].ack \in Seqno
           /\ Sub(q[i].seq, u) \in Nat /\ Sub(q[i].ack, u) \in Nat
           /\ Extent(q[i]) \in Nat /\ q[i].len \in Nat /\ q[i].win \in Int
<1>1. q[i] \in WideSegment
  OBVIOUS
<1> QED
  BY Zenon, <1>1, SegmentNumbers, SubCases

\* The same for the order of the numbers: taking a segment out, ...
LEMMA OrderedTail ==
    ASSUME NEW q \in Seq(WideSegment), q # <<>>, NEW u \in Seqno, NEW lo \in Int, NEW hi \in Int,
           Ordered(q, u, lo, hi)
    PROVE  /\ lo <= Sub(Head(q).seq, u) /\ Sub(Head(q).seq, u) + Extent(Head(q)) <= hi
           /\ Ordered(Tail(q), u, Sub(Head(q).seq, u) + Extent(Head(q)), hi)
<1> DEFINE t == Tail(q)
           n == Len(q)
           new == Sub(Head(q).seq, u) + Extent(Head(q))
<1>1. /\ t \in Seq(WideSegment) /\ Len(t) = n - 1 /\ n \in Nat /\ n >= 1
      /\ Head(q) = q[1] /\ \A i \in 1 .. n - 1 : t[i] = q[i + 1]
  BY TailFacts
<1>2. /\ \A i \in 1 .. n : lo <= Sub(q[i].seq, u) /\ Sub(q[i].seq, u) + Extent(q[i]) <= hi
      /\ \A i, j \in 1 .. n : i < j => Sub(q[i].seq, u) + Extent(q[i]) <= Sub(q[j].seq, u)
  BY DEF Ordered
<1>3. new = Sub(q[1].seq, u) + Extent(q[1])
  BY <1>1
<1> HIDE DEF t, n, new
<1>4. 1 \in 1 .. n
  BY <1>1
<1>5. lo <= Sub(q[1].seq, u) /\ new <= hi
  BY <1>2, <1>3, <1>4
<1>6. ASSUME NEW i \in 1 .. Len(t)
      PROVE  new <= Sub(t[i].seq, u) /\ Sub(t[i].seq, u) + Extent(t[i]) <= hi
  <2>1. i + 1 \in 1 .. n /\ 1 < i + 1 /\ t[i] = q[i + 1]
    BY <1>1
  <2> QED
    BY <1>2, <1>3, <1>4, <2>1
<1>7. ASSUME NEW i \in 1 .. Len(t), NEW j \in 1 .. Len(t), i < j
      PROVE  Sub(t[i].seq, u) + Extent(t[i]) <= Sub(t[j].seq, u)
  <2>1. /\ i + 1 \in 1 .. n /\ j + 1 \in 1 .. n /\ i + 1 < j + 1
        /\ t[i] = q[i + 1] /\ t[j] = q[j + 1]
    BY <1>1, <1>7
  <2> QED
    BY <1>2, <2>1
<1>8. Ordered(t, u, new, hi)
  BY <1>5, <1>6, <1>7 DEF Ordered
<1> QED
  BY <1>1, <1>5, <1>8 DEF t, new

\* ... putting one in, ...
LEMMA OrderedAppend ==
    ASSUME NEW q \in Seq(WideSegment), NEW s \in WideSegment, NEW u \in Seqno, NEW lo \in Int,
           NEW hi \in Int, Ordered(q, u, lo, hi), Sub(s.seq, u) = hi
    PROVE  Ordered(Append(q, s), u, lo, hi + Extent(s))
<1> DEFINE t == Append(q, s)
           n == Len(q)
<1>1. /\ t \in Seq(WideSegment) /\ Len(t) = n + 1 /\ n \in Nat
      /\ \A i \in 1 .. n : t[i] = q[i]
      /\ t[n + 1] = s
  BY AppendFacts
<1>2. /\ lo <= hi
      /\ \A i \in 1 .. n : lo <= Sub(q[i].seq, u) /\ Sub(q[i].seq, u) + Extent(q[i]) <= hi
      /\ \A i, j \in 1 .. n : i < j => Sub(q[i].seq, u) + Extent(q[i]) <= Sub(q[j].seq, u)
  BY DEF Ordered
<1>3. Extent(s) \in Nat /\ \A i \in 1 .. n : Sub(q[i].seq, u) \in Nat /\ Extent(q[i]) \in Nat
  BY SegmentNumbers, Distances
<1> HIDE DEF t, n
<1>4. ASSUME NEW i \in 1 .. Len(t)
      PROVE  lo <= Sub(t[i].seq, u) /\ Sub(t[i].seq, u) + Extent(t[i]) <= hi + Extent(s)
  <2>1. CASE i = n + 1
    BY <1>1, <1>2, <1>3, <2>1
  <2>2. CASE i \in 1 .. n
    <3>1. t[i] = q[i]
      BY <1>1, <2>2
    <3>2. Sub(q[i].seq, u) + Extent(q[i]) \in Int
      BY <1>3, <2>2
    <3> QED
      BY <1>2, <1>3, <2>2, <3>1, <3>2
  <2> QED
    BY <1>1, <2>1, <2>2
<1>5. ASSUME NEW i \in 1 .. Len(t), NEW j \in 1 .. Len(t), i < j
      PROVE  Sub(t[i].seq, u) + Extent(t[i]) <= Sub(t[j].seq, u)
  <2>1. i \in 1 .. n /\ t[i] = q[i]
    BY <1>1, <1>5
  <2>2. CASE j = n + 1
    BY <1>1, <1>2, <2>1, <2>2
  <2>3. CASE j \in 1 .. n
    <3>1. t[j] = q[j]
      BY <1>1, <2>3
    <3> QED
      BY <1>2, <1>5, <2>1, <2>3, <3>1
  <2> QED
    BY <1>1, <2>2, <2>3
<1>6. lo <= hi + Extent(s)
  BY <1>2, <1>3
<1>7. Ordered(t, u, lo, hi + Extent(s))
  BY <1>4, <1>5, <1>6 DEF Ordered
<1> QED
  BY <1>7 DEF t

\* ... with a lower bound that is lower, ...
LEMMA OrderedWiden ==
    ASSUME NEW q \in Seq(WideSegment), NEW u \in Seqno, NEW lo \in Int, NEW hi \in Int,
           NEW low \in Int, low <= lo, Ordered(q, u, lo, hi)
    PROVE  Ordered(q, u, low, hi)
<1>1. \A i \in 1 .. Len(q) : Sub(q[i].seq, u) \in Nat
  BY Distances
<1> QED
  BY <1>1 DEF Ordered

\* ... and seen from a later number.
LEMMA OrderedRebase ==
    ASSUME NEW q \in Seq(WideSegment), NEW u \in Seqno, NEW lo \in Int, NEW hi \in Int,
           NEW v \in Seqno, Sub(v, u) <= lo, Ordered(q, u, lo, hi)
    PROVE  Ordered(q, v, lo - Sub(v, u), hi - Sub(v, u))
<1>1. Sub(v, u) \in Nat
  BY SubCases
<1>2. /\ lo <= hi
      /\ \A i \in 1 .. Len(q) : lo <= Sub(q[i].seq, u) /\ Sub(q[i].seq, u) + Extent(q[i]) <= hi
      /\ \A i, j \in 1 .. Len(q) :
            i < j => Sub(q[i].seq, u) + Extent(q[i]) <= Sub(q[j].seq, u)
  BY DEF Ordered
<1>3. ASSUME NEW i \in 1 .. Len(q)
      PROVE  /\ Sub(q[i].seq, u) \in Nat /\ Extent(q[i]) \in Nat
             /\ Sub(q[i].seq, v) = Sub(q[i].seq, u) - Sub(v, u)
  <2>1. q[i].seq \in Seqno /\ Sub(q[i].seq, u) \in Nat /\ Extent(q[i]) \in Nat
    BY Distances
  <2>2. Sub(v, u) <= Sub(q[i].seq, u)
    BY <1>1, <1>2, <2>1
  <2> QED
    BY <2>1, <2>2, Rebase
<1>4. lo - Sub(v, u) <= hi - Sub(v, u)
  BY <1>1, <1>2
<1>5. ASSUME NEW i \in 1 .. Len(q)
      PROVE  /\ lo - Sub(v, u) <= Sub(q[i].seq, v)
             /\ Sub(q[i].seq, v) + Extent(q[i]) <= hi - Sub(v, u)
  BY <1>1, <1>2, <1>3
<1>6. ASSUME NEW i \in 1 .. Len(q), NEW j \in 1 .. Len(q), i < j
      PROVE  Sub(q[i].seq, v) + Extent(q[i]) <= Sub(q[j].seq, v)
  BY <1>1, <1>2, <1>3, <1>6
<1> QED
  BY <1>4, <1>5, <1>6 DEF Ordered

\* Acknowledgements: dropping the first segment, ...
LEMMA AcksDrop ==
    ASSUME NEW q \in Seq(WideSegment), q # <<>>, NEW u \in Seqno, NEW hi \in Int, Acks(q, u, hi)
    PROVE  Acks(Tail(q), u, hi)
<1> DEFINE t == Tail(q)
           n == Len(q)
<1>1. /\ Len(t) = n - 1 /\ n \in Nat /\ n >= 1 /\ \A i \in 1 .. n - 1 : t[i] = q[i + 1]
  BY TailFacts
<1>2. /\ \A i \in 1 .. n : Sub(q[i].ack, u) <= hi
      /\ \A i, j \in 1 .. n : i < j => Sub(q[i].ack, u) <= Sub(q[j].ack, u)
  BY DEF Acks
<1> HIDE DEF t, n
<1>3. ASSUME NEW i \in 1 .. Len(t) PROVE i + 1 \in 1 .. n /\ t[i] = q[i + 1]
  BY <1>1
<1>4. \A i \in 1 .. Len(t) : Sub(t[i].ack, u) <= hi
  BY <1>2, <1>3
<1>5. ASSUME NEW i \in 1 .. Len(t), NEW j \in 1 .. Len(t), i < j
      PROVE  Sub(t[i].ack, u) <= Sub(t[j].ack, u)
  <2>1. i + 1 < j + 1
    BY <1>1, <1>5
  <2> QED
    BY <1>2, <1>3, <2>1
<1>6. Acks(t, u, hi)
  BY <1>4, <1>5 DEF Acks
<1> QED
  BY <1>6 DEF t

\* ... taking its acknowledgement as the one to count from, ...
LEMMA AcksTake ==
    ASSUME NEW q \in Seq(WideSegment), q # <<>>, NEW u \in Seqno, NEW hi \in Int, Acks(q, u, hi)
    PROVE  /\ Head(q).ack \in Seqno /\ Sub(Head(q).ack, u) \in Nat /\ Sub(Head(q).ack, u) <= hi
           /\ Acks(Tail(q), Head(q).ack, hi - Sub(Head(q).ack, u))
           /\ \A i \in 1 .. Len(Tail(q)) :
                 /\ Tail(q)[i] = q[i + 1] /\ i + 1 \in 1 .. Len(q)
                 /\ Sub(Tail(q)[i].ack, Head(q).ack) = Sub(q[i + 1].ack, u) - Sub(Head(q).ack, u)
<1> DEFINE t == Tail(q)
           n == Len(q)
           v == Head(q).ack
<1>1. /\ t \in Seq(WideSegment) /\ Len(t) = n - 1 /\ n \in Nat /\ n >= 1
      /\ Head(q) = q[1] /\ \A i \in 1 .. n - 1 : t[i] = q[i + 1]
  BY TailFacts
<1>2. /\ \A i \in 1 .. n : Sub(q[i].ack, u) <= hi
      /\ \A i, j \in 1 .. n : i < j => Sub(q[i].ack, u) <= Sub(q[j].ack, u)
  BY DEF Acks
<1>3. v = q[1].ack /\ \A i \in 1 .. n : q[i].ack \in Seqno /\ Sub(q[i].ack, u) \in Nat
  BY <1>1, Distances
<1> HIDE DEF t, n, v
<1>4. 1 \in 1 .. n
  BY <1>1
<1>5. v \in Seqno /\ Sub(v, u) \in Nat /\ Sub(v, u) <= hi
  BY <1>2, <1>3, <1>4
<1>6. ASSUME NEW i \in 1 .. Len(t)
      PROVE  /\ i + 1 \in 1 .. n /\ t[i] = q[i + 1]
             /\ Sub(t[i].ack, v) = Sub(q[i + 1].ack, u) - Sub(v, u)
  <2>1. i + 1 \in 1 .. n /\ 1 < i + 1 /\ t[i] = q[i + 1]
    BY <1>1
  <2>2. Sub(v, u) <= Sub(q[i + 1].ack, u) /\ q[i + 1].ack \in Seqno
    BY <1>2, <1>3, <1>4, <2>1
  <2> QED
    BY <1>5, <2>1, <2>2, Rebase
<1>7. ASSUME NEW i \in 1 .. Len(t) PROVE Sub(t[i].ack, v) <= hi - Sub(v, u)
  <2>1. Sub(q[i + 1].ack, u) <= hi /\ Sub(q[i + 1].ack, u) \in Nat
    BY <1>2, <1>3, <1>6
  <2> QED
    BY <1>5, <1>6, <2>1
<1>8. ASSUME NEW i \in 1 .. Len(t), NEW j \in 1 .. Len(t), i < j
      PROVE  Sub(t[i].ack, v) <= Sub(t[j].ack, v)
  <2>1. i + 1 \in 1 .. n /\ j + 1 \in 1 .. n /\ i + 1 < j + 1
    BY <1>1, <1>8
  <2>2. /\ Sub(q[i + 1].ack, u) <= Sub(q[j + 1].ack, u)
        /\ Sub(q[i + 1].ack, u) \in Nat /\ Sub(q[j + 1].ack, u) \in Nat
    BY <1>2, <1>3, <2>1
  <2> QED
    BY <1>5, <1>6, <2>2
<1>9. Acks(t, v, hi - Sub(v, u))
  BY <1>7, <1>8 DEF Acks
<1> QED
  BY <1>5, <1>6, <1>9 DEF t, n, v

\* ... and putting a segment in.
LEMMA AcksAppend ==
    ASSUME NEW q \in Seq(WideSegment), NEW s \in WideSegment, NEW u \in Seqno, NEW hi \in Int,
           Acks(q, u, hi), hi <= Sub(s.ack, u)
    PROVE  Acks(Append(q, s), u, Sub(s.ack, u))
<1> DEFINE t == Append(q, s)
           n == Len(q)
<1>1. /\ Len(t) = n + 1 /\ n \in Nat /\ \A i \in 1 .. n : t[i] = q[i]
      /\ t[n + 1] = s
  BY AppendFacts
<1>2. /\ \A i \in 1 .. n : Sub(q[i].ack, u) <= hi
      /\ \A i, j \in 1 .. n : i < j => Sub(q[i].ack, u) <= Sub(q[j].ack, u)
  BY DEF Acks
<1>3. Sub(s.ack, u) \in Nat /\ \A i \in 1 .. n : Sub(q[i].ack, u) \in Nat
  BY SegmentNumbers, SubCases, Distances
<1> HIDE DEF t, n
<1>4. ASSUME NEW i \in 1 .. n PROVE Sub(t[i].ack, u) <= Sub(s.ack, u)
  <2>1. Sub(q[i].ack, u) <= hi /\ Sub(q[i].ack, u) \in Nat /\ t[i] = q[i]
    BY <1>1, <1>2, <1>3
  <2> QED
    BY <1>3, <2>1
<1>5. ASSUME NEW i \in 1 .. Len(t) PROVE Sub(t[i].ack, u) <= Sub(s.ack, u)
  <2>1. CASE i = n + 1
    BY <1>1, <1>3, <2>1
  <2>2. CASE i \in 1 .. n
    BY <1>4, <2>2
  <2> QED
    BY <1>1, <2>1, <2>2
<1>6. ASSUME NEW i \in 1 .. Len(t), NEW j \in 1 .. Len(t), i < j
      PROVE  Sub(t[i].ack, u) <= Sub(t[j].ack, u)
  <2>1. i \in 1 .. n
    BY <1>1, <1>6
  <2>2. CASE j = n + 1
    BY <1>1, <1>4, <2>1, <2>2
  <2>3. CASE j \in 1 .. n
    BY <1>1, <1>2, <1>6, <2>1, <2>3
  <2> QED
    BY <1>1, <2>2, <2>3
<1>7. Acks(t, u, Sub(s.ack, u))
  BY <1>5, <1>6 DEF Acks
<1> QED
  BY <1>7 DEF t

\* A greater bound.
LEMMA AcksRaise ==
    ASSUME NEW q \in Seq(WideSegment), NEW u \in Seqno, NEW hi \in Int, NEW high \in Int,
           hi <= high, Acks(q, u, hi)
    PROVE  Acks(q, u, high)
<1>1. \A i \in 1 .. Len(q) : Sub(q[i].ack, u) \in Nat
  BY Distances
<1> QED
  BY <1>1 DEF Acks

\* The windows in a pipe, once the first segment is taken, ...
LEMMA LimitsTake ==
    ASSUME NEW q \in Seq(WideSegment), q # <<>>, NEW u \in Seqno, NEW hi \in Int, Acks(q, u, hi),
           NEW limit \in Int, Limits(q, u, limit)
    PROVE  /\ Head(q).win * WinUnit <= DevWin
           /\ Head(q).win * WinUnit <= limit - Sub(Head(q).ack, u)
           /\ Limits(Tail(q), Head(q).ack, limit - Sub(Head(q).ack, u))
<1> DEFINE W(i) == q[i].win * WinUnit
<1>1. /\ Len(q) \in Nat /\ Len(q) >= 1 /\ Head(q) = q[1]
      /\ \A i \in 1 .. Len(q) : q[i] \in WideSegment
  BY TailFacts
<1>2. \A i \in 1 .. Len(q) : W(i) <= DevWin /\ Sub(q[i].ack, u) + W(i) <= limit
  BY DEF Limits
<1>3. \A i \in 1 .. Len(q) : W(i) \in Int /\ Sub(q[i].ack, u) \in Nat
  <2>1. \A i \in 1 .. Len(q) : q[i].win \in Int /\ Sub(q[i].ack, u) \in Nat
    BY Distances
  <2> QED
    BY <2>1, SizesAssumption
<1>4. 1 \in 1 .. Len(q) /\ Head(q).win * WinUnit = W(1)
  BY <1>1
<1>5. \A i \in 1 .. Len(Tail(q)) :
         /\ i + 1 \in 1 .. Len(q) /\ Tail(q)[i].win * WinUnit = W(i + 1)
         /\ Sub(Tail(q)[i].ack, Head(q).ack) = Sub(q[i + 1].ack, u) - Sub(Head(q).ack, u)
  BY Zenon, AcksTake
<1> HIDE DEF W
<1>6. Sub(Head(q).ack, u) \in Nat
  BY AcksTake
<1>7. W(1) <= DevWin /\ W(1) <= limit - Sub(Head(q).ack, u)
  <2>1. Sub(Head(q).ack, u) + W(1) <= limit /\ W(1) \in Int /\ W(1) <= DevWin
    BY <1>1, <1>2, <1>3, <1>4
  <2> QED
    BY <1>6, <2>1
<1>8. ASSUME NEW i \in 1 .. Len(Tail(q))
      PROVE  /\ Tail(q)[i].win * WinUnit <= DevWin
             /\ Sub(Tail(q)[i].ack, Head(q).ack) + Tail(q)[i].win * WinUnit
                    <= limit - Sub(Head(q).ack, u)
  <2>1. /\ W(i + 1) <= DevWin /\ Sub(q[i + 1].ack, u) + W(i + 1) <= limit
        /\ W(i + 1) \in Int /\ Sub(q[i + 1].ack, u) \in Nat
    BY <1>2, <1>3, <1>5
  <2> QED
    BY <1>5, <1>6, <2>1
<1> QED
  BY <1>4, <1>7, <1>8 DEF Limits

\* ... and once another is sent, with a limit that may have grown.
LEMMA LimitsAppend ==
    ASSUME NEW q \in Seq(WideSegment), NEW s \in WideSegment, NEW u \in Seqno, NEW limit \in Int,
           Limits(q, u, limit), s.win * WinUnit <= DevWin,
           Sub(s.ack, u) + s.win * WinUnit <= limit
    PROVE  Limits(Append(q, s), u, limit)
<1>1. /\ Len(Append(q, s)) = Len(q) + 1 /\ Len(q) \in Nat /\ Append(q, s)[Len(q) + 1] = s
      /\ \A i \in 1 .. Len(q) : Append(q, s)[i] = q[i]
  BY AppendFacts
<1>2. ASSUME NEW i \in 1 .. Len(Append(q, s))
      PROVE  /\ Append(q, s)[i].win * WinUnit <= DevWin
             /\ Sub(Append(q, s)[i].ack, u) + Append(q, s)[i].win * WinUnit <= limit
  <2>1. CASE i = Len(q) + 1
    BY <1>1, <2>1
  <2>2. CASE i \in 1 .. Len(q)
    BY <1>1, <2>2 DEF Limits
  <2> QED
    BY <1>1, <2>1, <2>2
<1> QED
  BY <1>2 DEF Limits

\* A larger limit holds as well.
LEMMA LimitsRaise ==
    ASSUME NEW q \in Seq(WideSegment), NEW u \in Seqno, NEW limit \in Int, NEW high \in Int,
           limit <= high, Limits(q, u, limit)
    PROVE  Limits(q, u, high)
<1>1. ASSUME NEW i \in 1 .. Len(q)
      PROVE  /\ q[i].win * WinUnit <= DevWin
             /\ Sub(q[i].ack, u) + q[i].win * WinUnit <= high
  <2> DEFINE w == q[i].win * WinUnit
  <2>1. q[i].win \in Int /\ Sub(q[i].ack, u) \in Nat
    BY Distances
  <2>2. w \in Int
    BY <2>1, SizesAssumption
  <2>3. w <= DevWin /\ Sub(q[i].ack, u) + w <= limit
    BY DEF Limits
  <2> HIDE DEF w
  <2>4. w <= DevWin /\ Sub(q[i].ack, u) + w <= high
    BY <2>1, <2>2, <2>3
  <2> QED
    BY <2>4 DEF w
<1> QED
  BY <1>1 DEF Limits

\* The windows of the daemon stay below a bound as segments come and go.
LEMMA WindowsTake ==
    ASSUME NEW q \in Seq(WideSegment), q # <<>>, \A i \in 1 .. Len(q) : q[i].win * WinUnit <= TxWin
    PROVE  /\ Head(q).win * WinUnit <= TxWin
           /\ \A i \in 1 .. Len(Tail(q)) : Tail(q)[i].win * WinUnit <= TxWin
<1>1. /\ Len(q) \in Nat /\ Len(q) >= 1 /\ Head(q) = q[1] /\ Len(Tail(q)) = Len(q) - 1
      /\ \A i \in 1 .. Len(q) - 1 : Tail(q)[i] = q[i + 1]
  BY TailFacts
<1>2. ASSUME NEW i \in 1 .. Len(Tail(q)) PROVE Tail(q)[i].win * WinUnit <= TxWin
  <2>1. Tail(q)[i] = q[i + 1] /\ i + 1 \in 1 .. Len(q)
    BY <1>1
  <2> QED
    BY <2>1
<1>3. 1 \in 1 .. Len(q)
  BY <1>1
<1> QED
  BY <1>1, <1>2, <1>3

\* ... and of a pipe with one more segment.
LEMMA WindowsAppend ==
    ASSUME NEW q \in Seq(WideSegment), NEW s \in WideSegment, s.win * WinUnit <= TxWin,
           \A i \in 1 .. Len(q) : q[i].win * WinUnit <= TxWin
    PROVE  \A i \in 1 .. Len(Append(q, s)) : Append(q, s)[i].win * WinUnit <= TxWin
<1>1. /\ Len(Append(q, s)) = Len(q) + 1 /\ Len(q) \in Nat /\ Append(q, s)[Len(q) + 1] = s
      /\ \A i \in 1 .. Len(q) : Append(q, s)[i] = q[i]
  BY AppendFacts
<1>2. ASSUME NEW i \in 1 .. Len(Append(q, s)) PROVE Append(q, s)[i].win * WinUnit <= TxWin
  <2>1. CASE i = Len(q) + 1
    BY <1>1, <2>1
  <2>2. CASE i \in 1 .. Len(q)
    BY <1>1, <2>2
  <2> QED
    BY <1>1, <2>1, <2>2
<1> QED
  BY <1>2

-----------------------------------------------------------------------------
(* What is left in the pipe when a connection is freed.                     *)

\* A chain that fits in the device's buffer is harmless, ...
LEMMA HarmlessChain ==
    ASSUME NEW q \in Seq(WideSegment), NEW r \in Seqno, NEW b \in Int, NEW top, NEW hi \in Int,
           Chain(q, r, top), Ordered(q, r, 0, hi), hi + b <= DevWin
    PROVE  Harmless(q, r, b)
<1> DEFINE n == Len(q)
<1>1. /\ q # <<>> => q[1].seq = r
      /\ \A i \in 1 .. n - 1 : q[i + 1].seq = End(q[i])
  BY DEF Chain
<1>2. /\ \A i \in 1 .. n : Sub(q[i].seq, r) + Extent(q[i]) <= hi
      /\ \A i, j \in 1 .. n : i < j => Sub(q[i].seq, r) + Extent(q[i]) <= Sub(q[j].seq, r)
  BY DEF Ordered
<1>3. \A i \in 1 .. n : q[i].flags = "ACK" => Extent(q[i]) = q[i].len
  BY DEF Extent
<1>4. \A i \in 1 .. n : Sub(q[i].seq, r) \in Nat /\ Extent(q[i]) \in Nat
  BY Zenon, Distances
<1> HIDE DEF n
<1>5. ASSUME NEW i \in 1 .. n, q[i].flags = "ACK"
      PROVE  Sub(q[i].seq, r) + q[i].len + b <= DevWin
  <2>1. /\ Sub(q[i].seq, r) \in Nat /\ q[i].len \in Nat
        /\ Sub(q[i].seq, r) + q[i].len <= hi
    BY <1>2, <1>3, <1>4, <1>5
  <2> QED
    <3> DEFINE x == Sub(q[i].seq, r)
               y == q[i].len
    <3>1. x \in Nat /\ y \in Nat /\ x + y <= hi
      BY <2>1
    <3> HIDE DEF x, y
    <3>2. x + y + b <= DevWin
      BY <3>1, SizesAssumption
    <3> QED
      BY <3>2 DEF x, y
<1>6. ASSUME NEW i \in 1 .. n, NEW j \in 1 .. n, i < j, q[i].flags = "ACK"
      PROVE  Sub(q[i].seq, r) + q[i].len <= Sub(q[j].seq, r)
  BY <1>2, <1>3, <1>6
<1> QED
  BY <1>1, <1>5, <1>6 DEF Harmless, n

\* ... and so is a pipe without data.
LEMMA HarmlessEmpty ==
    ASSUME NEW q \in Seq(WideSegment), NEW r, NEW b, \A i \in 1 .. Len(q) : q[i].flags # "ACK"
    PROVE  Harmless(q, r, b)
<1>1. q # <<>> => 1 \in 1 .. Len(q)
  OBVIOUS
<1>2. \A i \in 1 .. Len(q) - 1 : i \in 1 .. Len(q)
  OBVIOUS
<1> QED
  BY <1>1, <1>2 DEF Harmless

\* A segment without data may follow.
LEMMA HarmlessAppend ==
    ASSUME NEW q \in Seq(WideSegment), NEW s \in WideSegment, NEW r, NEW b, Harmless(q, r, b),
           s.flags # "ACK"
    PROVE  Harmless(Append(q, s), r, b)
<1> DEFINE t == Append(q, s)
           n == Len(q)
<1>1. /\ Len(t) = n + 1 /\ n \in Nat /\ \A i \in 1 .. n : t[i] = q[i]
      /\ t[n + 1] = s /\ (q = <<>> <=> n = 0)
  BY AppendFacts
<1>2. /\ q # <<>> /\ q[1].flags = "ACK" => q[1].seq = r
      /\ \A i \in 1 .. n - 1 :
            q[i].flags = "ACK" /\ q[i + 1].flags = "ACK" => q[i + 1].seq = End(q[i])
      /\ \A i \in 1 .. n : q[i].flags = "ACK" => Sub(q[i].seq, r) + q[i].len + b <= DevWin
      /\ \A i, j \in 1 .. n :
            i < j /\ q[i].flags = "ACK" /\ q[j].flags = "ACK" =>
                Sub(q[i].seq, r) + q[i].len <= Sub(q[j].seq, r)
  BY DEF Harmless
<1> HIDE DEF t, n
<1>3. \A i \in 1 .. Len(t) : t[i].flags = "ACK" => i \in 1 .. n /\ t[i] = q[i]
  <2>1. ASSUME NEW i \in 1 .. Len(t), t[i].flags = "ACK" PROVE i \in 1 .. n /\ t[i] = q[i]
    <3>1. i # n + 1
      BY <1>1, <2>1
    <3>2. i \in 1 .. n
      BY <1>1, <3>1
    <3> QED
      BY <1>1, <3>2
  <2> QED
    BY <2>1
<1>4. t # <<>> /\ t[1].flags = "ACK" => t[1].seq = r
  <2>1. 1 \in 1 .. Len(t)
    BY <1>1
  <2>2. ASSUME t[1].flags = "ACK" PROVE t[1].seq = r
    <3>1. 1 \in 1 .. n /\ t[1] = q[1]
      BY <1>3, <2>1, <2>2
    <3>2. q # <<>>
      BY <1>1, <3>1
    <3> QED
      BY <1>2, <2>2, <3>1, <3>2
  <2> QED
    BY <2>2
<1>5. ASSUME NEW i \in 1 .. Len(t) - 1, t[i].flags = "ACK", t[i + 1].flags = "ACK"
      PROVE  t[i + 1].seq = End(t[i])
  <2>1. i \in 1 .. Len(t) /\ i + 1 \in 1 .. Len(t)
    BY <1>1
  <2>2. i \in 1 .. n /\ i + 1 \in 1 .. n /\ t[i] = q[i] /\ t[i + 1] = q[i + 1]
    BY <1>3, <1>5, <2>1
  <2>3. i \in 1 .. n - 1
    BY <1>1, <2>2
  <2> QED
    BY <1>2, <1>5, <2>2, <2>3
<1>6. \A i \in 1 .. Len(t) : t[i].flags = "ACK" => Sub(t[i].seq, r) + t[i].len + b <= DevWin
  BY <1>2, <1>3
<1>7. ASSUME NEW i \in 1 .. Len(t), NEW j \in 1 .. Len(t), i < j, t[i].flags = "ACK",
             t[j].flags = "ACK"
      PROVE  Sub(t[i].seq, r) + t[i].len <= Sub(t[j].seq, r)
  BY <1>2, <1>3, <1>7
<1> QED
  BY <1>4, <1>5, <1>6, <1>7 DEF Harmless, t

\* The device takes the first segment.
LEMMA HarmlessTake ==
    ASSUME NEW q \in Seq(WideSegment), q # <<>>, Head(q).flags = "ACK", NEW r \in Seqno,
           NEW b \in Nat, Harmless(q, r, b)
    PROVE  /\ b + Head(q).len <= DevWin
           /\ Harmless(Tail(q), Add(r, Head(q).len), b + Head(q).len)
<1> DEFINE t == Tail(q)
           n == Len(q)
           k == Head(q).len
           v == Add(r, k)
<1>1. /\ t \in Seq(WideSegment) /\ Len(t) = n - 1 /\ n \in Nat /\ n >= 1
      /\ Head(q) = q[1] /\ \A i \in 1 .. n - 1 : t[i] = q[i + 1]
      /\ t = <<>> <=> n = 1
  BY TailFacts
<1>2. /\ q[1].flags = "ACK" => q[1].seq = r
      /\ \A i \in 1 .. n - 1 :
            q[i].flags = "ACK" /\ q[i + 1].flags = "ACK" => q[i + 1].seq = End(q[i])
      /\ \A i \in 1 .. n : q[i].flags = "ACK" => Sub(q[i].seq, r) + q[i].len + b <= DevWin
      /\ \A i, j \in 1 .. n :
            i < j /\ q[i].flags = "ACK" /\ q[j].flags = "ACK" =>
                Sub(q[i].seq, r) + q[i].len <= Sub(q[j].seq, r)
  BY DEF Harmless
<1>3. \A i \in 1 .. n : Sub(q[i].seq, r) \in Nat /\ q[i].seq \in Seqno /\ q[i].len \in Nat
  BY Distances
<1>4. q[1].flags = "ACK" /\ q[1].seq = r /\ k = q[1].len
  BY <1>1, <1>2
<1>5. q[1].flags = "ACK" => End(q[1]) = v
  BY <1>4 DEF End, Extent
<1> HIDE DEF t, n, k, v
<1>6. 1 \in 1 .. n /\ k \in Nat /\ Sub(r, r) = 0
  BY <1>1, <1>3, <1>4, Nothing
<1>7. k + b <= DevWin
  <2>1. Sub(q[1].seq, r) + q[1].len + b <= DevWin
    BY <1>2, <1>4, <1>6
  <2> QED
    BY <1>4, <1>6, <2>1
<1>8. v \in Seqno /\ Sub(v, r) = k
  <2>1. Sub(r, r) + k < SeqMod
    BY <1>6, <1>7, WindowAssumption, SizesAssumption
  <2> QED
    BY <1>6, <2>1, Forward DEF v
<1>9. ASSUME NEW i \in 1 .. Len(t), t[i].flags = "ACK"
      PROVE  /\ t[i] = q[i + 1] /\ i + 1 \in 1 .. n
             /\ Sub(t[i].seq, v) = Sub(q[i + 1].seq, r) - k
             /\ Sub(q[i + 1].seq, r) \in Nat /\ q[i + 1].len \in Nat
  <2>1. t[i] = q[i + 1] /\ i + 1 \in 1 .. n /\ 1 < i + 1
    BY <1>1
  <2>2. Sub(q[1].seq, r) + q[1].len <= Sub(q[i + 1].seq, r)
    BY <1>2, <1>4, <1>6, <1>9, <2>1
  <2>3. Sub(q[i + 1].seq, r) \in Nat /\ q[i + 1].seq \in Seqno /\ q[i + 1].len \in Nat
    BY <1>3, <2>1
  <2>5. Sub(r, r) + k <= Sub(q[i + 1].seq, r)
    BY <1>4, <2>2
  <2>6. k <= Sub(q[i + 1].seq, r)
    BY <1>6, <2>3, <2>5
  <2>4. Sub(q[i + 1].seq, v) = Sub(q[i + 1].seq, r) - k
    BY <1>8, <2>3, <2>6, Rebase
  <2> QED
    BY <2>1, <2>3, <2>4
<1>10. t # <<>> /\ t[1].flags = "ACK" => t[1].seq = v
  <2>1. ASSUME t # <<>>, t[1].flags = "ACK" PROVE t[1].seq = v
    <3>1. n # 1
      BY <1>1, <2>1
    <3>2. 1 \in 1 .. n - 1 /\ t[1] = q[1 + 1]
      BY <1>1, <3>1
    <3>3. q[1 + 1].seq = End(q[1])
      BY <1>2, <1>4, <2>1, <3>2
    <3> QED
      BY <1>4, <1>5, <3>2, <3>3
  <2> QED
    BY <2>1
<1>11. ASSUME NEW i \in 1 .. Len(t) - 1, t[i].flags = "ACK", t[i + 1].flags = "ACK"
       PROVE  t[i + 1].seq = End(t[i])
  <2>1. i \in 1 .. n - 1 /\ i + 1 \in 1 .. n - 1 /\ i \in 1 .. Len(t) /\ i + 1 \in 1 .. Len(t)
    BY <1>1
  <2>2. t[i] = q[i + 1] /\ t[i + 1] = q[(i + 1) + 1]
    BY <1>1, <2>1
  <2> QED
    BY <1>2, <1>11, <2>1, <2>2
<1>12. ASSUME NEW i \in 1 .. Len(t), t[i].flags = "ACK"
       PROVE  Sub(t[i].seq, v) + t[i].len + (b + k) <= DevWin
  <2>1. Sub(q[i + 1].seq, r) + q[i + 1].len + b <= DevWin
    BY <1>2, <1>9, <1>12
  <2>2. Sub(t[i].seq, v) = Sub(q[i + 1].seq, r) - k /\ t[i].len = q[i + 1].len
    BY <1>9, <1>12
  <2>3. Sub(q[i + 1].seq, r) \in Nat /\ q[i + 1].len \in Nat
    BY <1>9, <1>12
  <2> DEFINE x == Sub(q[i + 1].seq, r)
             y == q[i + 1].len
  <2>4. x \in Nat /\ y \in Nat /\ x + y + b <= DevWin
    BY <2>1, <2>3
  <2> HIDE DEF x, y
  <2>5. (x - k) + y + (b + k) <= DevWin
    BY <1>6, <2>4, SizesAssumption
  <2> QED
    BY <2>2, <2>5 DEF x, y
<1>13. ASSUME NEW i \in 1 .. Len(t), NEW j \in 1 .. Len(t), i < j, t[i].flags = "ACK",
              t[j].flags = "ACK"
       PROVE  Sub(t[i].seq, v) + t[i].len <= Sub(t[j].seq, v)
  <2>1. /\ Sub(t[i].seq, v) = Sub(q[i + 1].seq, r) - k /\ t[i] = q[i + 1] /\ i + 1 \in 1 .. n
        /\ Sub(q[i + 1].seq, r) \in Nat /\ q[i + 1].len \in Nat
    BY <1>9, <1>13
  <2>2. /\ Sub(t[j].seq, v) = Sub(q[j + 1].seq, r) - k /\ t[j] = q[j + 1] /\ j + 1 \in 1 .. n
        /\ Sub(q[j + 1].seq, r) \in Nat
    BY <1>9, <1>13
  <2>3. i + 1 < j + 1
    BY <1>1, <1>13
  <2>4. Sub(q[i + 1].seq, r) + q[i + 1].len <= Sub(q[j + 1].seq, r)
    BY <1>2, <1>13, <2>1, <2>2, <2>3
  <2> DEFINE x == Sub(q[i + 1].seq, r)
             y == q[i + 1].len
             z == Sub(q[j + 1].seq, r)
  <2>5. x \in Nat /\ y \in Nat /\ z \in Nat /\ x + y <= z
    BY <2>1, <2>2, <2>4
  <2> HIDE DEF x, y, z
  <2>6. (x - k) + y <= z - k
    BY <1>6, <2>5
  <2> QED
    BY <2>1, <2>2, <2>6 DEF x, y, z
<1>14. Harmless(t, v, b + k)
  BY <1>10, <1>11, <1>12, <1>13 DEF Harmless
<1> QED
  BY <1>6, <1>7, <1>14 DEF t, k, v

\* The device's process consumes data.
LEMMA HarmlessConsume ==
    ASSUME NEW q \in Seq(WideSegment), NEW r \in Seqno, NEW b \in Int, NEW a \in Int, a <= b,
           Harmless(q, r, b)
    PROVE  Harmless(q, r, a)
<1>1. \A i \in 1 .. Len(q) : Sub(q[i].seq, r) \in Nat /\ q[i].len \in Nat
  BY Distances
<1>2. ASSUME NEW i \in 1 .. Len(q), q[i].flags = "ACK"
      PROVE  Sub(q[i].seq, r) + q[i].len + a <= DevWin
  <2>1. Sub(q[i].seq, r) + q[i].len + b <= DevWin
    BY <1>2 DEF Harmless
  <2> DEFINE x == Sub(q[i].seq, r)
             y == q[i].len
  <2>2. x \in Nat /\ y \in Nat /\ x + y + b <= DevWin
    BY <1>1, <2>1
  <2> HIDE DEF x, y
  <2>3. x + y + a <= DevWin
    BY <2>2, SizesAssumption
  <2> QED
    BY <2>3 DEF x, y
<1> QED
  BY <1>2 DEF Harmless

-----------------------------------------------------------------------------
(* From the device to the client.                                           *)

\* The numbers behind Receiving.
LEMMA ReceivingFacts ==
    ASSUME NEW c \in WideConn, NEW p \in WidePeer, NEW t \in Seq(WideSegment),
           NEW f \in Seq(WideSegment), Receiving(c, p, t, f)
    PROVE  /\ c.tx_ack \in Seqno /\ c.ib_size \in Nat /\ p.una \in Seqno /\ p.snd \in Seqno
           /\ c.tx_ack \in Int /\ p.wnd \in Int
           /\ Sub(c.tx_ack, p.una) \in Nat /\ Sub(p.snd, p.una) \in Nat
           /\ Sub(c.tx_ack, p.una) + c.ib_size <= Sub(p.snd, p.una)
           /\ Sub(p.snd, p.una) < SeqMod /\ Sub(p.snd, p.una) <= TxWin + 1
<1>1. c.tx_ack \in Seqno /\ c.ib_size \in Nat /\ p.una \in Seqno /\ p.snd \in Seqno /\ p.wnd \in Int
  BY DEF WideConn, WidePeer
<1>2. /\ c.tx_ack \in Int /\ Sub(c.tx_ack, p.una) \in Nat
      /\ Sub(p.snd, p.una) \in Nat /\ Sub(p.snd, p.una) < SeqMod
  BY Zenon, <1>1, SubCases, SeqnoInts
<1>3. Sub(c.tx_ack, p.una) + c.ib_size <= Sub(p.snd, p.una) /\ Sub(p.snd, p.una) <= TxWin + 1
  BY DEF Receiving, Ordered
<1> QED
  BY <1>1, <1>2, <1>3

\* The client takes size bytes out of the in-buffer.
LEMMA ReceivingServes ==
    ASSUME NEW c \in WideConn, NEW d \in WideConn, NEW p \in WidePeer,
           NEW t \in Seq(WideSegment), NEW f \in Seq(WideSegment), Receiving(c, p, t, f),
           NEW size \in 0 .. c.ib_size, d.tx_ack = Add(c.tx_ack, size),
           d.ib_size = c.ib_size - size, d.state = c.state
    PROVE  Receiving(d, p, t, f)
<1> DEFINE a == Sub(c.tx_ack, p.una)
           b == Sub(p.snd, p.una)
<1>1. /\ c.tx_ack \in Seqno /\ c.ib_size \in Nat /\ p.una \in Seqno /\ p.snd \in Seqno
      /\ c.tx_ack \in Int /\ a \in Nat /\ b \in Nat /\ a + c.ib_size <= b /\ b < SeqMod
  BY ReceivingFacts
<1>2. size \in Nat /\ size <= c.ib_size
  BY <1>1
<1>3. Sub(d.tx_ack, p.una) = a + size
  <2>1. a + size < SeqMod
    BY <1>1, <1>2, SeqnoInts
  <2> QED
    BY <1>1, <1>2, <2>1, Forward
<1>4. Add(d.tx_ack, d.ib_size) = Add(c.tx_ack, c.ib_size)
  <2> DEFINE ib == c.ib_size
             x == c.tx_ack
  <2>1. ib \in Int /\ size \in Int /\ x \in Int
    BY <1>1, <1>2
  <2> HIDE DEF ib, x
  <2>2. Add(Add(x, size), ib - size) = Add(x, ib)
    BY <2>1, AddSplit
  <2> QED
    BY <2>2 DEF ib, x
<1>5. Acks(t, p.una, Sub(d.tx_ack, p.una))
  <2>1. Acks(t, p.una, a) /\ a <= a + size /\ a + size \in Int
    BY <1>1, <1>2 DEF Receiving
  <2> HIDE DEF a
  <2>2. Acks(t, p.una, a + size)
    BY <1>1, <2>1, AcksRaise
  <2> QED
    BY <1>3, <2>2
<1>6. Sub(d.tx_ack, p.una) + d.ib_size = a + c.ib_size
  <2> HIDE DEF a
  <2> QED
    BY <1>1, <1>2, <1>3
<1>7. d.state = "CONNECTED" => b <= Sub(d.tx_ack, p.una) + TxWin
  <2>1. d.state = "CONNECTED" => b <= a + TxWin
    BY DEF Receiving
  <2>2. TxWin \in Int
    BY SizesAssumption
  <2> HIDE DEF a, b
  <2> QED
    BY <1>1, <1>2, <1>3, <2>1, <2>2
<1>8. /\ Chain(f, Add(c.tx_ack, c.ib_size), p.snd) /\ Ordered(f, p.una, a + c.ib_size, b)
      /\ b <= TxWin + 1 /\ p.wnd <= TxWin /\ \A i \in 1 .. Len(t) : t[i].win * WinUnit <= TxWin
  BY DEF Receiving
<1> QED
  BY <1>4, <1>5, <1>6, <1>7, <1>8 DEF Receiving

\* The daemon sends a segment that acknowledges what the client took.
LEMMA ReceivingSends ==
    ASSUME NEW c \in WideConn, NEW p \in WidePeer, NEW t \in Seq(WideSegment),
           NEW f \in Seq(WideSegment), Receiving(c, p, t, f), NEW s \in WideSegment,
           s.ack = c.tx_ack, s.win * WinUnit <= TxWin
    PROVE  Receiving(c, p, Append(t, s), f)
<1>1. p.una \in Seqno /\ Sub(c.tx_ack, p.una) \in Int /\ Sub(c.tx_ack, p.una) <= Sub(s.ack, p.una)
  BY ReceivingFacts
<1>2. Acks(Append(t, s), p.una, Sub(c.tx_ack, p.una))
  <2>1. Acks(t, p.una, Sub(c.tx_ack, p.una))
    BY DEF Receiving
  <2>2. Acks(Append(t, s), p.una, Sub(s.ack, p.una))
    BY <1>1, <2>1, AcksAppend
  <2> QED
    BY <2>2
<1>3. \A i \in 1 .. Len(Append(t, s)) : Append(t, s)[i].win * WinUnit <= TxWin
  <2>1. \A i \in 1 .. Len(t) : t[i].win * WinUnit <= TxWin
    BY DEF Receiving
  <2> QED
    BY <2>1, WindowsAppend
<1> QED
  BY <1>2, <1>3 DEF Receiving

\* The daemon takes the next segment out of the pipe: it fits in the in-buffer.
LEMMA ReceivingTakes ==
    ASSUME NEW c \in WideConn, NEW d \in WideConn, NEW p \in WidePeer,
           NEW t \in Seq(WideSegment), NEW f \in Seq(WideSegment), Receiving(c, p, t, f),
           c.state = "CONNECTED", f # <<>>, Head(f).flags = "ACK"
    PROVE  /\ c.ib_size + Head(f).len <= InbufSize
           /\ d.tx_ack = c.tx_ack /\ d.ib_size = c.ib_size + Head(f).len =>
                 Receiving(d, p, t, Tail(f))
<1> DEFINE a == Sub(c.tx_ack, p.una)
           b == Sub(p.snd, p.una)
           x == Sub(Head(f).seq, p.una)
           k == Head(f).len
<1>1. /\ c.tx_ack \in Seqno /\ c.ib_size \in Nat /\ p.una \in Seqno /\ p.snd \in Seqno
      /\ c.tx_ack \in Int /\ a \in Nat /\ b \in Nat /\ a + c.ib_size <= b /\ b < SeqMod
  BY ReceivingFacts
<1>2. Head(f) \in WideSegment /\ Tail(f) \in Seq(WideSegment) /\ Extent(Head(f)) = k
  BY TailFacts DEF Extent
<1>3. Head(f).seq \in Seqno /\ k \in Nat /\ x \in Nat
  BY Zenon, <1>1, <1>2, SegmentNumbers, SubCases
<1>4. /\ Chain(f, Add(c.tx_ack, c.ib_size), p.snd) /\ Ordered(f, p.una, a + c.ib_size, b)
      /\ b <= TxWin + 1 /\ b <= a + TxWin /\ p.wnd <= TxWin
      /\ Acks(t, p.una, a) /\ \A i \in 1 .. Len(t) : t[i].win * WinUnit <= TxWin
  BY DEF Receiving
<1>5. a + c.ib_size <= x /\ x + k <= b /\ Ordered(Tail(f), p.una, x + k, b)
  <2>1. a + c.ib_size \in Int /\ b \in Int
    BY <1>1
  <2> HIDE DEF a, b
  <2>2. /\ a + c.ib_size <= Sub(Head(f).seq, p.una)
        /\ Sub(Head(f).seq, p.una) + Extent(Head(f)) <= b
        /\ Ordered(Tail(f), p.una, Sub(Head(f).seq, p.una) + Extent(Head(f)), b)
    BY <1>1, <1>4, <2>1, OrderedTail
  <2> QED
    BY <1>2, <2>2
<1>6. Chain(Tail(f), Add(c.tx_ack, c.ib_size + k), p.snd)
  <2>1. Head(f).seq = Add(c.tx_ack, c.ib_size) /\ Chain(Tail(f), End(Head(f)), p.snd)
    BY <1>4, ChainTail
  <2>2. End(Head(f)) = Add(Add(c.tx_ack, c.ib_size), k)
    BY <1>2, <2>1 DEF End
  <2>3. Add(Add(c.tx_ack, c.ib_size), k) = Add(c.tx_ack, c.ib_size + k)
    <3> DEFINE ib == c.ib_size
               a0 == c.tx_ack
    <3>1. ib \in Int /\ k \in Int /\ a0 \in Int
      BY <1>1, <1>3
    <3> HIDE DEF ib, k, a0
    <3>2. Add(Add(a0, ib), k) = Add(a0, ib + k)
      BY <3>1, AddAdd
    <3> QED
      BY <3>2 DEF ib, a0
  <2> QED
    BY <2>1, <2>2, <2>3
<1>7. Ordered(Tail(f), p.una, a + (c.ib_size + k), b) /\ c.ib_size + k <= TxWin
  <2> DEFINE ib == c.ib_size
             low == a + (ib + k)
             new == x + k
  <2>0. /\ ib \in Nat /\ a \in Nat /\ b \in Nat /\ x \in Nat /\ k \in Nat
        /\ a + ib <= x /\ x + k <= b /\ b <= a + TxWin
    BY <1>1, <1>3, <1>4, <1>5
  <2>2. Ordered(Tail(f), p.una, new, b) /\ p.una \in Seqno /\ b \in Int
    BY <1>1, <1>5
  <2> HIDE DEF a, b, x, k, ib
  <2>1. low <= new /\ low \in Int /\ new \in Int /\ ib + k <= TxWin
    BY <2>0, SizesAssumption
  <2> HIDE DEF low, new
  <2>3. Ordered(Tail(f), p.una, low, b)
    BY Zenon, <1>2, <2>1, <2>2, OrderedWiden
  <2> QED
    BY <2>1, <2>3 DEF low, ib
<1>8. c.ib_size + k <= InbufSize
  <2> DEFINE ib == c.ib_size
  <2>1. ib \in Nat /\ k \in Nat /\ ib + k <= TxWin
    BY <1>1, <1>3, <1>7
  <2> HIDE DEF k, ib
  <2>2. ib + k <= InbufSize
    BY <2>1, SizesAssumption, WindowAssumption
  <2> QED
    BY <2>2 DEF ib
<1>9. ASSUME d.tx_ack = c.tx_ack, d.ib_size = c.ib_size + k PROVE Receiving(d, p, t, Tail(f))
  BY <1>4, <1>6, <1>7, <1>9 DEF Receiving
<1> QED
  BY <1>8, <1>9

\* The daemon counts the SYN of the device.
LEMMA ReceivingEstablishes ==
    ASSUME NEW c \in WideConn, NEW d \in WideConn, NEW p \in WidePeer,
           NEW t \in Seq(WideSegment), NEW f \in Seq(WideSegment), Receiving(c, p, t, f),
           c.ib_size = 0, Sub(p.snd, p.una) <= 1, f # <<>>, Head(f).flags = "SYNACK",
           d.tx_ack = Add(c.tx_ack, 1), d.ib_size = 0
    PROVE  Receiving(d, p, t, Tail(f))
<1> DEFINE a == Sub(c.tx_ack, p.una)
           b == Sub(p.snd, p.una)
           x == Sub(Head(f).seq, p.una)
<1>1. /\ c.tx_ack \in Seqno /\ p.una \in Seqno /\ p.snd \in Seqno
      /\ c.tx_ack \in Int /\ a \in Nat /\ b \in Nat /\ a + 0 <= b /\ b < SeqMod
  BY ReceivingFacts
<1>2. Head(f) \in WideSegment /\ Tail(f) \in Seq(WideSegment) /\ Extent(Head(f)) = 1
  BY TailFacts DEF Extent
<1>3. Head(f).seq \in Seqno /\ x \in Nat
  BY Zenon, <1>1, <1>2, SegmentNumbers, SubCases
<1>4. /\ Chain(f, Add(c.tx_ack, 0), p.snd) /\ Ordered(f, p.una, a + 0, b)
      /\ b <= TxWin + 1 /\ p.wnd <= TxWin
      /\ Acks(t, p.una, a) /\ \A i \in 1 .. Len(t) : t[i].win * WinUnit <= TxWin
  BY DEF Receiving
<1>5. a <= x /\ x + 1 <= b /\ Ordered(Tail(f), p.una, x + 1, b)
  <2>1. a + 0 \in Int /\ b \in Int /\ a + 0 = a
    BY <1>1
  <2> HIDE DEF a, b
  <2>2. /\ a + 0 <= Sub(Head(f).seq, p.una)
        /\ Sub(Head(f).seq, p.una) + Extent(Head(f)) <= b
        /\ Ordered(Tail(f), p.una, Sub(Head(f).seq, p.una) + Extent(Head(f)), b)
    BY <1>1, <1>4, <2>1, OrderedTail
  <2> QED
    BY <1>2, <2>1, <2>2
<1>6. a = 0 /\ x = 0 /\ b = 1
  <2>1. b <= 1
    OBVIOUS
  <2> HIDE DEF a, b, x
  <2> QED
    BY <1>1, <1>3, <1>5, <2>1
<1>7. Sub(d.tx_ack, p.una) = 1
  <2>1. a + 1 < SeqMod
    BY <1>6, WindowAssumption, SizesAssumption
  <2>2. Sub(Add(c.tx_ack, 1), p.una) = a + 1
    BY <1>1, <2>1, Forward
  <2> QED
    BY <1>6, <2>2
<1>8. Chain(Tail(f), Add(d.tx_ack, 0), p.snd)
  <2>1. Head(f).seq = Add(c.tx_ack, 0) /\ Chain(Tail(f), End(Head(f)), p.snd)
    BY <1>4, ChainTail
  <2>2. End(Head(f)) = Add(Add(c.tx_ack, 0), 1)
    BY <1>2, <2>1 DEF End
  <2>3. Add(c.tx_ack, 0) = c.tx_ack
    BY <1>1, Nothing
  <2>4. Add(d.tx_ack, 0) = d.tx_ack
    <3>1. d.tx_ack \in Seqno
      BY DEF WideConn
    <3> QED
      BY <3>1, Nothing
  <2> QED
    BY <2>1, <2>2, <2>3, <2>4
<1>9. Ordered(Tail(f), p.una, 1 + 0, b)
  BY <1>5, <1>6
<1>10. Acks(t, p.una, 1)
  <2>1. Acks(t, p.una, 0)
    BY <1>4, <1>6
  <2> QED
    BY <1>1, <2>1, AcksRaise
<1>11. b <= 1 + TxWin
  BY <1>4, <1>6, SizesAssumption
<1> QED
  BY <1>4, <1>7, <1>8, <1>9, <1>10, <1>11 DEF Receiving

\* The device hears of an acknowledgement and a window.
LEMMA ReceivingAcked ==
    ASSUME NEW c \in WideConn, NEW p \in WidePeer, NEW r \in WidePeer,
           NEW t \in Seq(WideSegment), NEW f \in Seq(WideSegment), Receiving(c, p, t, f),
           t # <<>>, r.una = Head(t).ack, r.wnd = Head(t).win * WinUnit, r.snd = p.snd
    PROVE  Receiving(c, r, Tail(t), f)
<1> DEFINE a == Sub(c.tx_ack, p.una)
           b == Sub(p.snd, p.una)
           k == Sub(r.una, p.una)
           ib == c.ib_size
<1>1. /\ c.tx_ack \in Seqno /\ ib \in Nat /\ p.una \in Seqno /\ p.snd \in Seqno
      /\ a \in Nat /\ b \in Nat /\ a + ib <= b
  BY ReceivingFacts
<1>2. /\ Chain(f, Add(c.tx_ack, ib), p.snd) /\ Ordered(f, p.una, a + ib, b)
      /\ b <= TxWin + 1 /\ (c.state = "CONNECTED" => b <= a + TxWin)
      /\ Acks(t, p.una, a) /\ \A i \in 1 .. Len(t) : t[i].win * WinUnit <= TxWin
  BY DEF Receiving
<1>3. /\ r.una \in Seqno /\ k \in Nat /\ k <= a /\ Acks(Tail(t), r.una, a - k)
  <2>1. a \in Int
    BY <1>1
  <2> HIDE DEF a
  <2> QED
    BY <1>1, <1>2, <2>1, AcksTake
<1>4. /\ r.wnd <= TxWin /\ \A i \in 1 .. Len(Tail(t)) : Tail(t)[i].win * WinUnit <= TxWin
  BY <1>2, WindowsTake
<1>5. Sub(c.tx_ack, r.una) = a - k
  BY <1>1, <1>3, Rebase
<1>6. k <= b /\ k <= a + ib /\ a + ib \in Int /\ b \in Int
  <2> HIDE DEF a, b, k, ib
  <2> QED
    BY <1>1, <1>3
<1>7. Sub(p.snd, r.una) = b - k
  BY <1>1, <1>3, <1>6, Rebase
<1>8. Ordered(f, r.una, (a + ib) - k, b - k)
  <2> DEFINE lo == a + ib
  <2>1. lo \in Int /\ k <= lo /\ Ordered(f, p.una, lo, b) /\ b \in Int
    BY <1>2, <1>6
  <2> HIDE DEF lo, a, b
  <2>2. Ordered(f, r.una, lo - k, b - k)
    BY <1>1, <1>3, <2>1, OrderedRebase
  <2> QED
    BY <2>2 DEF lo
<1>9. /\ (a + ib) - k = (a - k) + ib
      /\ b - k <= TxWin + 1
      /\ c.state = "CONNECTED" => b - k <= (a - k) + TxWin
  <2>1. /\ b <= TxWin + 1 /\ (c.state = "CONNECTED" => b <= a + TxWin)
        /\ a \in Nat /\ b \in Nat /\ k \in Nat /\ ib \in Nat
    BY <1>1, <1>2, <1>3
  <2>2. TxWin \in Nat
    BY SizesAssumption
  <2> HIDE DEF a, b, k, ib
  <2>3. (a + ib) - k = (a - k) + ib /\ b - k <= TxWin + 1
    BY <2>1, <2>2
  <2>4. ASSUME b <= a + TxWin PROVE b - k <= (a - k) + TxWin
    BY <2>1, <2>2, <2>4
  <2> QED
    BY <2>1, <2>3, <2>4
<1>10. Ordered(f, r.una, Sub(c.tx_ack, r.una) + c.ib_size, Sub(p.snd, r.una))
  <2>1. Sub(c.tx_ack, r.una) + c.ib_size = (a + ib) - k
    BY <1>5, <1>9
  <2> HIDE DEF a, b, k, ib
  <2> QED
    BY <1>7, <1>8, <2>1
<1> QED
  BY <1>2, <1>3, <1>4, <1>5, <1>7, <1>9, <1>10 DEF Receiving

\* The device drops a segment.
LEMMA ReceivingDrops ==
    ASSUME NEW c \in WideConn, NEW p \in WidePeer, NEW r \in WidePeer,
           NEW t \in Seq(WideSegment), NEW f \in Seq(WideSegment), Receiving(c, p, t, f),
           t # <<>>, r.una = p.una, r.wnd = p.wnd, r.snd = p.snd
    PROVE  Receiving(c, r, Tail(t), f)
<1>1. Acks(Tail(t), p.una, Sub(c.tx_ack, p.una))
  <2>1. p.una \in Seqno /\ Sub(c.tx_ack, p.una) \in Int
    BY ReceivingFacts
  <2>2. Acks(t, p.una, Sub(c.tx_ack, p.una))
    BY DEF Receiving
  <2> QED
    BY <2>1, <2>2, AcksDrop
<1>2. \A i \in 1 .. Len(Tail(t)) : Tail(t)[i].win * WinUnit <= TxWin
  <2>1. \A i \in 1 .. Len(t) : t[i].win * WinUnit <= TxWin
    BY DEF Receiving
  <2> QED
    BY <2>1, WindowsTake
<1> QED
  BY <1>1, <1>2 DEF Receiving

\* The device sends n bytes within the window, or a segment without data.
LEMMA ReceivingMore ==
    ASSUME NEW c \in WideConn, NEW p \in WidePeer, NEW r \in WidePeer,
           NEW t \in Seq(WideSegment), NEW f \in Seq(WideSegment), Receiving(c, p, t, f),
           NEW s \in WideSegment, s.seq = p.snd, NEW n \in Nat, n = Extent(s),
           n > 0 => Sub(p.snd, p.una) + n <= p.wnd,
           r.snd = Add(p.snd, n), r.una = p.una, r.wnd = p.wnd
    PROVE  Receiving(c, r, t, Append(f, s))
<1> DEFINE a == Sub(c.tx_ack, p.una)
           b == Sub(p.snd, p.una)
           ib == c.ib_size
<1>1. /\ c.tx_ack \in Seqno /\ ib \in Nat /\ p.una \in Seqno /\ p.snd \in Seqno
      /\ a \in Nat /\ b \in Nat /\ a + ib <= b /\ b <= TxWin + 1 /\ p.wnd \in Int
  BY ReceivingFacts
<1>2. /\ Chain(f, Add(c.tx_ack, ib), p.snd) /\ Ordered(f, p.una, a + ib, b)
      /\ (c.state = "CONNECTED" => b <= a + TxWin) /\ p.wnd <= TxWin
      /\ Acks(t, p.una, a) /\ \A i \in 1 .. Len(t) : t[i].win * WinUnit <= TxWin
  BY DEF Receiving
<1>3. /\ b + n <= TxWin + 1 /\ b + n < SeqMod
      /\ c.state = "CONNECTED" => b + n <= a + TxWin
  <2> DEFINE w == p.wnd
  <2>1. /\ n > 0 => b + n <= w
        /\ (c.state = "CONNECTED" => b <= a + TxWin) /\ w <= TxWin /\ w \in Int
    BY <1>1, <1>2
  <2>2. a \in Nat /\ b \in Nat /\ b <= TxWin + 1
    BY <1>1
  <2>3. TxWin \in Nat /\ SeqMod \in Nat /\ TxWin + 1 < SeqMod
    BY SizesAssumption, WindowAssumption
  <2> HIDE DEF a, b, ib, w
  <2>4. b + n <= TxWin + 1 /\ b + n < SeqMod
    BY <2>1, <2>2, <2>3
  <2>5. ASSUME b <= a + TxWin PROVE b + n <= a + TxWin
    BY <2>1, <2>2, <2>3, <2>5
  <2> QED
    BY <2>1, <2>4, <2>5
<1>4. Sub(r.snd, p.una) = b + n
  BY <1>1, <1>3, Forward
<1>5. Chain(Append(f, s), Add(c.tx_ack, ib), r.snd)
  <2>1. End(s) = r.snd
    BY DEF End
  <2>2. Chain(Append(f, s), Add(c.tx_ack, ib), End(s))
    BY <1>2, ChainAppend
  <2> QED
    BY <2>1, <2>2
<1>6. Ordered(Append(f, s), p.una, a + ib, b + n)
  <2> DEFINE lo == a + ib
  <2>1. lo \in Int /\ b \in Int /\ Ordered(f, p.una, lo, b) /\ Sub(s.seq, p.una) = b
    BY <1>1, <1>2
  <2> HIDE DEF lo, b
  <2>2. Ordered(Append(f, s), p.una, lo, b + Extent(s))
    BY <1>1, <2>1, OrderedAppend
  <2> QED
    BY <2>2 DEF lo
<1> QED
  BY <1>2, <1>3, <1>4, <1>5, <1>6 DEF Receiving

-----------------------------------------------------------------------------
(* From the client to the device.                                           *)

\* The numbers behind Sending.
LEMMA SendingFacts ==
    ASSUME NEW c \in WideConn, NEW p \in WidePeer, NEW t \in Seq(WideSegment),
           NEW f \in Seq(WideSegment), Sending(c, p, t, f)
    PROVE  /\ Sent(c) \in Seqno /\ c.rx_ack \in Seqno /\ p.rcv \in Seqno
           /\ c.rx_win \in Int /\ p.buf \in Int
           /\ Sub(Sent(c), p.rcv) \in Nat /\ Sub(p.rcv, c.rx_ack) \in Nat
           /\ Sub(Sent(c), c.rx_ack) \in Nat
           /\ Sub(Sent(c), c.rx_ack) = Sub(p.rcv, c.rx_ack) + Sub(Sent(c), p.rcv)
           /\ Sub(Sent(c), c.rx_ack) <= DevWin + 1
           /\ Sub(Sent(c), p.rcv) + p.buf <= DevWin
<1>1. c.tx_seq \in Seqno /\ c.rx_ack \in Seqno /\ p.rcv \in Seqno /\ c.rx_win \in Int /\ p.buf \in Int
  BY DEF WideConn, WidePeer
<1>2. c.tx_seq \in Int
  BY <1>1, SeqnoInts
<1>3. Sent(c) \in Seqno
  BY <1>1, <1>2, SeqTypes DEF Sent
<1>4. /\ Sub(Sent(c), p.rcv) \in Nat /\ Sub(p.rcv, c.rx_ack) \in Nat
      /\ Sub(Sent(c), c.rx_ack) \in Nat
  BY Zenon, <1>1, <1>3, SubCases
<1>5. /\ Sub(Sent(c), c.rx_ack) = Sub(p.rcv, c.rx_ack) + Sub(Sent(c), p.rcv)
      /\ Sub(Sent(c), c.rx_ack) <= DevWin + 1
      /\ Sub(Sent(c), p.rcv) + p.buf <= DevWin
  BY DEF Sending
<1> QED
  BY <1>1, <1>3, <1>4, <1>5

\* A segment that respects the window fits behind what is in the pipe.
LEMMA SendingExtends ==
    ASSUME NEW c \in WideConn, NEW p \in WidePeer, NEW t \in Seq(WideSegment),
           NEW f \in Seq(WideSegment), Sending(c, p, t, f), p.buf >= 0,
           NEW s \in WideSegment, s.flags = "ACK", s.seq = Sent(c), NEW n \in Nat, s.len = n,
           n > 0 => Sub(Sent(c), c.rx_ack) + n <= c.rx_win
    PROVE  /\ Chain(Append(t, s), p.rcv, Add(Sent(c), n))
           /\ Ordered(Append(t, s), p.rcv, 0, Sub(Sent(c), p.rcv) + n)
           /\ Sub(Sent(c), p.rcv) + n + p.buf <= DevWin
           /\ Sub(Add(Sent(c), n), p.rcv) = Sub(Sent(c), p.rcv) + n
           /\ Sub(Add(Sent(c), n), c.rx_ack) = Sub(Sent(c), c.rx_ack) + n
           /\ Sub(Sent(c), c.rx_ack) + n <= DevWin + 1
<1> DEFINE x == Sent(c)
           g == Sub(x, p.rcv)
           h == Sub(p.rcv, c.rx_ack)
           e == Sub(x, c.rx_ack)
           b == p.buf
           w == c.rx_win
<1>1. /\ x \in Seqno /\ c.rx_ack \in Seqno /\ p.rcv \in Seqno /\ w \in Int /\ b \in Int
      /\ g \in Nat /\ h \in Nat /\ e \in Nat /\ e = h + g /\ e <= DevWin + 1 /\ g + b <= DevWin
  BY SendingFacts
<1>2. /\ Chain(t, p.rcv, x) /\ Ordered(t, p.rcv, 0, g)
      /\ w <= DevWin /\ w <= h + DevWin - b
  BY DEF Sending
<1>3. Extent(s) = n /\ End(s) = Add(x, n)
  BY DEF End, Extent
<1>4. /\ g + n + b <= DevWin /\ e + n <= DevWin + 1 /\ g + n < SeqMod /\ e + n < SeqMod
  <2>1. /\ w \in Int /\ b \in Int /\ g \in Nat /\ h \in Nat /\ e \in Nat /\ e = h + g
        /\ e <= DevWin + 1 /\ g + b <= DevWin /\ w <= DevWin /\ w <= h + DevWin - b
        /\ b >= 0 /\ (n > 0 => e + n <= w)
    BY <1>1, <1>2
  <2>2. DevWin \in Nat /\ SeqMod \in Nat /\ DevWin + 1 < SeqMod
    BY SizesAssumption, WindowAssumption
  <2> HIDE DEF x, g, h, e, b, w
  <2>3. CASE n = 0
    BY <2>1, <2>2, <2>3
  <2>4. CASE n > 0
    <3>1. e + n <= DevWin /\ e + n <= h + DevWin - b
      BY <2>1, <2>2, <2>4
    <3>2. g + n + b <= DevWin
      BY <2>1, <2>2, <3>1
    <3> QED
      BY <2>1, <2>2, <3>1, <3>2
  <2> QED
    BY <2>3, <2>4
<1>5. Sub(Add(x, n), p.rcv) = g + n /\ Sub(Add(x, n), c.rx_ack) = e + n
  <2> HIDE DEF x
  <2> QED
    BY <1>1, <1>4, Forward
<1>6. Chain(Append(t, s), p.rcv, End(s))
  BY <1>2, ChainAppend
<1>7. Ordered(Append(t, s), p.rcv, 0, g + Extent(s))
  <2>1. g \in Int /\ Sub(s.seq, p.rcv) = g
    BY <1>1
  <2> HIDE DEF g
  <2> QED
    BY <1>1, <1>2, <2>1, OrderedAppend
<1> QED
  BY <1>3, <1>4, <1>5, <1>6, <1>7

\* The daemon sends n bytes, or an acknowledgement.
LEMMA SendingSends ==
    ASSUME NEW c \in WideConn, NEW d \in WideConn, NEW p \in WidePeer, NEW t \in Seq(WideSegment),
           NEW f \in Seq(WideSegment), Sending(c, p, t, f), p.buf >= 0,
           NEW s \in WideSegment, s.flags = "ACK", s.seq = Sent(c), NEW n \in Nat, s.len = n,
           n > 0 => Sub(Sent(c), c.rx_ack) + n <= c.rx_win,
           d.rx_ack = c.rx_ack, d.rx_win = c.rx_win, Sent(d) = Add(Sent(c), n)
    PROVE  Sending(d, p, Append(t, s), f)
<1> DEFINE x == Sent(c)
           y == Sent(d)
           g == Sub(x, p.rcv)
           h == Sub(p.rcv, c.rx_ack)
           e == Sub(x, c.rx_ack)
<1>1. /\ Chain(Append(t, s), p.rcv, y) /\ Ordered(Append(t, s), p.rcv, 0, g + n)
      /\ g + n + p.buf <= DevWin /\ Sub(y, p.rcv) = g + n
      /\ Sub(y, c.rx_ack) = e + n /\ e + n <= DevWin + 1
  BY SendingExtends
<1>2. e + n = h + (g + n)
  <2>1. e \in Nat /\ h \in Nat /\ g \in Nat /\ e = h + g
    BY SendingFacts
  <2> HIDE DEF e, h, g
  <2> QED
    BY <2>1
<1>3. /\ Acks(f, c.rx_ack, h) /\ Limits(f, c.rx_ack, h + DevWin - p.buf)
      /\ c.rx_win <= DevWin /\ c.rx_win <= h + DevWin - p.buf
  BY DEF Sending
<1>4. Sub(y, d.rx_ack) = Sub(p.rcv, d.rx_ack) + Sub(y, p.rcv)
  BY <1>1, <1>2
<1>5. Sub(y, p.rcv) + p.buf <= DevWin /\ Sub(y, d.rx_ack) <= DevWin + 1
  BY <1>1
<1>6. Ordered(Append(t, s), p.rcv, 0, Sub(y, p.rcv))
  BY <1>1
<1> QED
  BY <1>1, <1>3, <1>4, <1>5, <1>6 DEF Sending

\* The daemon copies the header of the next segment from the device.
LEMMA SendingTakes ==
    ASSUME NEW c \in WideConn, NEW d \in WideConn, NEW p \in WidePeer, NEW t \in Seq(WideSegment),
           NEW f \in Seq(WideSegment), Sending(c, p, t, f), f # <<>>,
           d.rx_ack = Head(f).ack, d.rx_win = Head(f).win * WinUnit, Sent(d) = Sent(c)
    PROVE  Sending(d, p, t, Tail(f))
<1> DEFINE x == Sent(c)
           u == c.rx_ack
           v == d.rx_ack
           g == Sub(x, p.rcv)
           h == Sub(p.rcv, u)
           e == Sub(x, u)
           k == Sub(v, u)
           b == p.buf
           limit == h + DevWin - b
<1>1. /\ x \in Seqno /\ u \in Seqno /\ p.rcv \in Seqno /\ b \in Int
      /\ g \in Nat /\ h \in Nat /\ e \in Nat /\ e = h + g /\ e <= DevWin + 1
  BY SendingFacts
<1>2. /\ Chain(t, p.rcv, x) /\ Ordered(t, p.rcv, 0, g) /\ g + b <= DevWin
      /\ Acks(f, u, h) /\ Limits(f, u, limit)
  BY DEF Sending
<1>3. v \in Seqno /\ k \in Nat /\ k <= h /\ Acks(Tail(f), v, h - k)
  <2>1. h \in Int
    BY <1>1
  <2> HIDE DEF h, u
  <2> QED
    BY <1>1, <1>2, <2>1, AcksTake
<1>4. limit \in Int
  <2>1. h \in Int /\ b \in Int /\ DevWin \in Int
    BY <1>1, SizesAssumption
  <2> HIDE DEF h, b
  <2> QED
    BY <2>1
<1>5. d.rx_win <= DevWin /\ d.rx_win <= limit - k /\ Limits(Tail(f), v, limit - k)
  <2>1. h \in Int
    BY <1>1
  <2> HIDE DEF limit, h, u
  <2> QED
    BY <1>1, <1>2, <1>4, <2>1, LimitsTake
<1>6. Sub(p.rcv, v) = h - k
  BY <1>1, <1>3, Rebase
<1>7. k <= e
  <2> HIDE DEF e, h, g, k
  <2> QED
    BY <1>1, <1>3
<1>8. Sub(x, v) = e - k
  <2> HIDE DEF x
  <2> QED
    BY <1>1, <1>3, <1>7, Rebase
<1>9. e - k = (h - k) + g /\ e - k <= DevWin + 1 /\ limit - k = (h - k) + DevWin - b
  <2>1. /\ e \in Nat /\ h \in Nat /\ g \in Nat /\ k \in Nat /\ b \in Int /\ e = h + g
        /\ e <= DevWin + 1
    BY <1>1, <1>3
  <2>2. DevWin \in Nat
    BY SizesAssumption
  <2> HIDE DEF e, h, g, k, b
  <2> QED
    BY <2>1, <2>2
<1>10. /\ Sub(Sent(d), v) = Sub(p.rcv, v) + Sub(Sent(d), p.rcv) /\ Sub(Sent(d), v) <= DevWin + 1
       /\ limit - k = Sub(p.rcv, v) + DevWin - p.buf
  <2>1. Sub(Sent(d), v) = e - k /\ Sub(p.rcv, v) = h - k /\ Sub(Sent(d), p.rcv) = g /\ p.buf = b
    BY <1>6, <1>8
  <2> HIDE DEF e, h, g, k, b, limit, v
  <2> QED
    BY <1>9, <2>1
<1>11. Limits(Tail(f), v, Sub(p.rcv, v) + DevWin - p.buf) /\ d.rx_win <= Sub(p.rcv, v) + DevWin - p.buf
  <2> HIDE DEF limit, k, v
  <2> QED
    BY <1>5, <1>10
<1>12. Acks(Tail(f), v, Sub(p.rcv, v))
  BY <1>3, <1>6
<1> QED
  BY <1>2, <1>5, <1>10, <1>11, <1>12 DEF Sending

\* The device takes the next segment, which is the one it expects and fits in
\* its buffer.
LEMMA SendingTaken ==
    ASSUME NEW c \in WideConn, NEW p \in WidePeer, NEW r \in WidePeer, NEW t \in Seq(WideSegment),
           NEW f \in Seq(WideSegment), Sending(c, p, t, f), p.buf >= 0,
           t # <<>>, Head(t).flags = "ACK",
           r.rcv = Add(p.rcv, Head(t).len), r.buf = p.buf + Head(t).len
    PROVE  r.buf <= DevWin /\ Sending(c, r, Tail(t), f)
<1> DEFINE x == Sent(c)
           u == c.rx_ack
           v == r.rcv
           g == Sub(x, p.rcv)
           h == Sub(p.rcv, u)
           e == Sub(x, u)
           k == Head(t).len
           b == p.buf
<1>1. /\ x \in Seqno /\ u \in Seqno /\ p.rcv \in Seqno /\ b \in Int
      /\ g \in Nat /\ h \in Nat /\ e \in Nat /\ e = h + g /\ e <= DevWin + 1 /\ g + b <= DevWin
  BY SendingFacts
<1>2. /\ Chain(t, p.rcv, x) /\ Ordered(t, p.rcv, 0, g)
      /\ Acks(f, u, h) /\ Limits(f, u, h + DevWin - b)
      /\ c.rx_win <= DevWin /\ c.rx_win <= h + DevWin - b
  BY DEF Sending
<1>3. /\ Head(t) \in WideSegment /\ Tail(t) \in Seq(WideSegment) /\ Extent(Head(t)) = k /\ k \in Nat
      /\ End(Head(t)) = Add(Head(t).seq, k)
  BY TailFacts, SegmentNumbers DEF Extent, End
<1>4. Head(t).seq = p.rcv /\ Chain(Tail(t), v, x)
  BY <1>2, <1>3, ChainTail
<1>5. k <= g /\ Ordered(Tail(t), p.rcv, k, g)
  <2>1. g \in Int
    BY <1>1
  <2>2. Sub(Head(t).seq, p.rcv) = 0
    BY <1>1, <1>4, Nothing
  <2> HIDE DEF g, k
  <2>3. /\ Sub(Head(t).seq, p.rcv) + Extent(Head(t)) <= g
        /\ Ordered(Tail(t), p.rcv, Sub(Head(t).seq, p.rcv) + Extent(Head(t)), g)
    BY <1>1, <1>2, <2>1, OrderedTail
  <2>4. 0 + k = k
    BY <1>3
  <2> QED
    BY <1>3, <2>2, <2>3, <2>4
<1>6. k + b <= DevWin /\ h + k <= DevWin + 1 /\ k < SeqMod /\ h + k < SeqMod
  <2>1. /\ e \in Nat /\ h \in Nat /\ g \in Nat /\ k \in Nat /\ b \in Int /\ e = h + g
        /\ e <= DevWin + 1 /\ k <= g /\ g + b <= DevWin /\ b >= 0
    BY <1>1, <1>3, <1>5
  <2>2. DevWin \in Nat /\ SeqMod \in Nat /\ DevWin + 1 < SeqMod
    BY SizesAssumption, WindowAssumption
  <2> HIDE DEF e, h, g, k, b
  <2> QED
    BY <2>1, <2>2
<1>7. v \in Seqno /\ Sub(v, p.rcv) = k /\ Sub(v, u) = h + k
  <2>1. Sub(p.rcv, p.rcv) = 0
    BY <1>1, Nothing
  <2>5. v = Add(p.rcv, k)
    OBVIOUS
  <2>2. v \in Seqno /\ Sub(v, u) = h + k
    <3> HIDE DEF k, u, v
    <3> QED
      BY <1>1, <1>3, <1>6, <2>5, Forward
  <2>3. Sub(p.rcv, p.rcv) + k < SeqMod /\ 0 + k = k
    <3> HIDE DEF k
    <3> QED
      BY <1>3, <1>6, <2>1
  <2>4. Sub(v, p.rcv) = Sub(p.rcv, p.rcv) + k
    <3> HIDE DEF k, v
    <3> QED
      BY <1>1, <1>3, <2>3, <2>5, Forward
  <2> QED
    BY <2>1, <2>2, <2>3, <2>4
<1>8. Sub(x, v) = g - k
  <2> HIDE DEF x, k, v
  <2> QED
    BY <1>1, <1>5, <1>7, Rebase
<1>9. Ordered(Tail(t), v, 0, g - k)
  <2>1. g \in Int /\ k \in Int
    BY <1>1, <1>3
  <2> HIDE DEF g, k, v
  <2>3. k - k = 0 /\ Sub(v, p.rcv) <= k
    BY <1>7, <2>1
  <2>2. Ordered(Tail(t), v, k - Sub(v, p.rcv), g - Sub(v, p.rcv))
    BY Zenon, <1>1, <1>3, <1>5, <1>7, <2>1, <2>3, OrderedRebase
  <2> QED
    BY <1>7, <2>2, <2>3
<1>10. /\ (g - k) + (b + k) <= DevWin /\ e = (h + k) + (g - k) /\ h <= h + k
       /\ h + DevWin - b = (h + k) + DevWin - (b + k) /\ b + k <= DevWin
  <2>1. /\ e \in Nat /\ h \in Nat /\ g \in Nat /\ k \in Nat /\ b \in Int /\ e = h + g
        /\ g + b <= DevWin /\ k + b <= DevWin
    BY <1>1, <1>3, <1>6
  <2>2. DevWin \in Nat
    BY SizesAssumption
  <2> HIDE DEF e, h, g, k, b
  <2> QED
    BY <2>1, <2>2
<1>11. Acks(f, u, h + k)
  <2>1. h \in Int /\ h + k \in Int
    BY <1>1, <1>3
  <2> HIDE DEF h, k, u
  <2> QED
    BY <1>1, <1>2, <1>10, <2>1, AcksRaise
<1>12. /\ Chain(Tail(t), r.rcv, Sent(c)) /\ Ordered(Tail(t), r.rcv, 0, Sub(Sent(c), r.rcv))
       /\ Acks(f, u, Sub(r.rcv, u))
  BY <1>4, <1>7, <1>8, <1>9, <1>11
<1>13. /\ Sub(Sent(c), r.rcv) + r.buf <= DevWin
       /\ Sub(Sent(c), u) = Sub(r.rcv, u) + Sub(Sent(c), r.rcv)
       /\ h + DevWin - b = Sub(r.rcv, u) + DevWin - r.buf
  <2>1. /\ Sub(Sent(c), r.rcv) = g - k /\ r.buf = b + k /\ Sub(r.rcv, u) = h + k
        /\ Sub(Sent(c), u) = e
    BY <1>7, <1>8
  <2> HIDE DEF e, h, g, k, b, u, v, x
  <2> QED
    BY <1>10, <2>1
<1>14. Limits(f, u, Sub(r.rcv, u) + DevWin - r.buf) /\ c.rx_win <= Sub(r.rcv, u) + DevWin - r.buf
  <2>1. Limits(f, u, h + DevWin - b) /\ c.rx_win <= h + DevWin - b
    BY <1>2
  <2> HIDE DEF h, b, u
  <2> QED
    BY <1>13, <2>1
<1>15. Sending(c, r, Tail(t), f)
  BY Zenon, <1>1, <1>2, <1>12, <1>13, <1>14 DEF Sending
<1> QED
  BY <1>10, <1>15

\* The device announces what it has received and the room it has left.
LEMMA SendingMore ==
    ASSUME NEW c \in WideConn, NEW p \in WidePeer, NEW r \in WidePeer, NEW t \in Seq(WideSegment),
           NEW f \in Seq(WideSegment), Sending(c, p, t, f), p.buf >= 0,
           NEW s \in WideSegment, s.ack = p.rcv, s.win * WinUnit <= DevWin - p.buf,
           r.rcv = p.rcv, r.buf = p.buf
    PROVE  Sending(c, r, t, Append(f, s))
<1> DEFINE h == Sub(p.rcv, c.rx_ack)
           b == p.buf
           w == s.win * WinUnit
           limit == h + DevWin - b
<1>1. c.rx_ack \in Seqno /\ p.rcv \in Seqno /\ b \in Int /\ h \in Nat
  BY SendingFacts
<1>2. Acks(f, c.rx_ack, h) /\ Limits(f, c.rx_ack, limit)
  BY DEF Sending
<1>3. w \in Int
  BY SegmentNumbers, SizesAssumption
<1>4. w <= DevWin /\ h + w <= limit /\ limit \in Int /\ h \in Int /\ h <= h
  <2>1. b >= 0 /\ w <= DevWin - b /\ DevWin \in Nat
    BY SizesAssumption
  <2> HIDE DEF h, b, w
  <2> QED
    BY <1>1, <1>3, <2>1
<1>5. Acks(Append(f, s), c.rx_ack, h)
  <2>1. Sub(s.ack, c.rx_ack) = h
    OBVIOUS
  <2> HIDE DEF h
  <2>2. Acks(Append(f, s), c.rx_ack, Sub(s.ack, c.rx_ack))
    BY <1>1, <1>2, <1>4, <2>1, AcksAppend
  <2> QED
    BY <2>1, <2>2
<1>6. Limits(Append(f, s), c.rx_ack, limit)
  <2>1. Sub(s.ack, c.rx_ack) + s.win * WinUnit <= limit /\ s.win * WinUnit <= DevWin
    BY <1>4
  <2> HIDE DEF limit, h
  <2> QED
    BY <1>1, <1>2, <1>4, <2>1, LimitsAppend
<1> QED
  BY <1>5, <1>6 DEF Sending

\* The device's process consumes data: every limit grows.
LEMMA SendingConsumes ==
    ASSUME NEW c \in WideConn, NEW p \in WidePeer, NEW r \in WidePeer, NEW t \in Seq(WideSegment),
           NEW f \in Seq(WideSegment), Sending(c, p, t, f), r.rcv = p.rcv, r.buf <= p.buf
    PROVE  Sending(c, r, t, f)
<1> DEFINE h == Sub(p.rcv, c.rx_ack)
           g == Sub(Sent(c), p.rcv)
           b == p.buf
           a == r.buf
           w == c.rx_win
           limit == h + DevWin - b
           high == h + DevWin - a
<1>1. /\ c.rx_ack \in Seqno /\ b \in Int /\ h \in Nat /\ g \in Nat /\ w \in Int
      /\ g + b <= DevWin
  BY SendingFacts
<1>2. a \in Int /\ a <= b
  BY DEF WidePeer
<1>3. Limits(f, c.rx_ack, limit) /\ w <= limit
  BY DEF Sending
<1>4. limit \in Int /\ high \in Int /\ limit <= high /\ g + a <= DevWin
  <2>1. DevWin \in Nat
    BY SizesAssumption
  <2> HIDE DEF h, g, b, a
  <2> QED
    BY <1>1, <1>2, <2>1
<1>5. Limits(f, c.rx_ack, high) /\ w <= high
  <2> HIDE DEF limit, high, w
  <2>1. w <= high
    BY <1>1, <1>3, <1>4
  <2> QED
    BY <1>1, <1>3, <1>4, <2>1, LimitsRaise
<1> QED
  BY <1>4, <1>5 DEF Sending

-----------------------------------------------------------------------------
(* One step of the daemon: c is the connection before, d after it.          *)

\* A step that leaves the numbers alone.
LEMMA FlowsSame ==
    ASSUME NEW c, NEW d, NEW p, NEW t, NEW f, NEW on, Flows(c, p, t, f, on),
           d.state = c.state, d.tx_seq = c.tx_seq, d.tx_ack = c.tx_ack, d.ib_size = c.ib_size,
           d.rx_ack = c.rx_ack, d.rx_win = c.rx_win
    PROVE  Flows(d, p, t, f, on)
<1>1. Sent(d) = Sent(c) /\ Live(d) = Live(c)
  BY DEF Sent, Live
<1>2. Receiving(c, p, t, f) => Receiving(d, p, t, f)
  BY DEF Receiving
<1>3. Sending(c, p, t, f) => Sending(d, p, t, f)
  BY <1>1 DEF Sending
<1>4. Handshake(d, p, t, f, on)
  BY DEF Flows, Handshake
<1> QED
  BY <1>1, <1>2, <1>3, <1>4 DEF Flows

\* What Flows says of an established connection.
LEMMA FlowsConnected ==
    ASSUME NEW c \in WideConn, NEW p \in WidePeer, NEW t, NEW f, NEW on, Flows(c, p, t, f, on),
           c.state = "CONNECTED"
    PROVE  /\ Receiving(c, p, t, f) /\ (Open(p) => Sending(c, p, t, f))
           /\ p.buf >= 0 /\ p.buf <= DevWin /\ p.state # "LISTEN"
           /\ \A d, t2, f2 : d.state = "CONNECTED" => Handshake(d, p, t2, f2, on)
BY DEF Flows, Handshake, Live

\* The client takes size bytes, nothing is sent.
LEMMA FlowsServes ==
    ASSUME NEW c \in WideConn, NEW d \in WideConn, NEW p \in WidePeer, NEW t \in Seq(WideSegment),
           NEW f \in Seq(WideSegment), NEW on, Flows(c, p, t, f, on),
           c.state = "CONNECTED", d.state = "CONNECTED",
           NEW size \in 0 .. c.ib_size, d.tx_ack = Add(c.tx_ack, size),
           d.ib_size = c.ib_size - size,
           d.rx_ack = c.rx_ack, d.rx_win = c.rx_win, d.tx_seq = c.tx_seq
    PROVE  Flows(d, p, t, f, on)
<1>1. Receiving(d, p, t, f)
  BY FlowsConnected, ReceivingServes
<1>2. Sending(c, p, t, f) => Sending(d, p, t, f)
  <2>1. Sent(d) = Sent(c)
    BY DEF Sent
  <2> QED
    BY <2>1 DEF Sending
<1> QED
  BY <1>1, <1>2, FlowsConnected DEF Flows

\* The same, and a segment is sent: n bytes the window allows, or an ACK.
LEMMA FlowsSends ==
    ASSUME NEW c \in WideConn, NEW d \in WideConn, NEW p \in WidePeer, NEW t \in Seq(WideSegment),
           NEW f \in Seq(WideSegment), NEW on, Flows(c, p, t, f, on),
           c.state = "CONNECTED", d.state = "CONNECTED",
           NEW size \in 0 .. c.ib_size, d.tx_ack = Add(c.tx_ack, size),
           d.ib_size = c.ib_size - size, d.rx_ack = c.rx_ack, d.rx_win = c.rx_win,
           NEW n \in Nat, d.tx_seq = Add(c.tx_seq, n),
           n > 0 => Sub(c.tx_seq, c.rx_ack) + n <= c.rx_win,
           NEW s \in WideSegment, s.flags = "ACK", s.seq = c.tx_seq, s.ack = d.tx_ack,
           s.win * WinUnit <= TxWin, s.len = n
    PROVE  Flows(d, p, Append(t, s), f, on)
<1>1. Receiving(d, p, Append(t, s), f)
  <2>1. Receiving(d, p, t, f)
    BY FlowsConnected, ReceivingServes
  <2> QED
    BY <2>1, ReceivingSends
<1>2. ASSUME Open(p) PROVE Sending(d, p, Append(t, s), f)
  <2>1. Sending(c, p, t, f) /\ p.buf >= 0
    BY <1>2, FlowsConnected
  <2>2. Sent(c) = c.tx_seq /\ Sent(d) = d.tx_seq
    BY DEF Sent
  <2> QED
    BY <2>1, <2>2, SendingSends
<1> QED
  BY <1>1, <1>2, FlowsConnected DEF Flows

\* A segment from the device fits in the in-buffer.
LEMMA FlowsFits ==
    ASSUME NEW c \in WideConn, NEW p \in WidePeer, NEW t \in Seq(WideSegment),
           NEW f \in Seq(WideSegment), NEW on, Flows(c, p, t, f, on),
           c.state = "CONNECTED", f # <<>>, Head(f).flags = "ACK"
    PROVE  c.ib_size + Head(f).len <= InbufSize
BY FlowsConnected, ReceivingTakes

\* The daemon receives a segment of an established connection and answers it.
LEMMA FlowsReceives ==
    ASSUME NEW c \in WideConn, NEW d \in WideConn, NEW p \in WidePeer, NEW t \in Seq(WideSegment),
           NEW f \in Seq(WideSegment), NEW on, Flows(c, p, t, f, on),
           c.state = "CONNECTED", f # <<>>, Head(f).flags = "ACK",
           d.state = "CONNECTED", d.tx_seq = c.tx_seq, d.tx_ack = c.tx_ack,
           d.ib_size = c.ib_size + Head(f).len,
           d.rx_ack = Head(f).ack, d.rx_win = Head(f).win * WinUnit,
           NEW s \in WideSegment, s.flags = "ACK", s.seq = d.tx_seq, s.ack = d.tx_ack,
           s.win * WinUnit <= TxWin, s.len = 0
    PROVE  Flows(d, p, Append(t, s), Tail(f), on)
<1>1. Tail(f) \in Seq(WideSegment)
  BY TailFacts
<1>2. Receiving(d, p, Append(t, s), Tail(f))
  <2>1. Receiving(d, p, t, Tail(f))
    BY FlowsConnected, ReceivingTakes
  <2> QED
    BY Zenon, <1>1, <2>1, ReceivingSends
<1>3. ASSUME Open(p) PROVE Sending(d, p, Append(t, s), Tail(f))
  <2>1. Sending(c, p, t, f) /\ p.buf >= 0
    BY <1>3, FlowsConnected
  <2>2. Sent(d) = Sent(c) /\ Sent(d) = d.tx_seq
    BY DEF Sent
  <2>3. Sending(d, p, t, Tail(f))
    BY Zenon, <2>1, <2>2, SendingTakes
  <2>4. Add(Sent(d), 0) = Sent(d)
    BY Zenon, <1>1, <2>3, SendingFacts, Nothing
  <2>5. ~(0 > 0) /\ 0 \in Nat
    OBVIOUS
  <2> QED
    BY Zenon, <1>1, <2>1, <2>2, <2>3, <2>4, <2>5, SendingSends
<1> QED
  BY <1>2, <1>3, FlowsConnected DEF Flows

\* The daemon receives the SYNACK and answers it.
LEMMA FlowsEstablishes ==
    ASSUME NEW c \in WideConn, NEW d \in WideConn, NEW p \in WidePeer, NEW t \in Seq(WideSegment),
           NEW f \in Seq(WideSegment), NEW on, Flows(c, p, t, f, on),
           c.state = "CONNECTING", c.ib_size = 0, f # <<>>, Head(f).flags = "SYNACK",
           d.state = "CONNECTED", d.tx_seq = Add(c.tx_seq, 1), d.tx_ack = Add(c.tx_ack, 1),
           d.ib_size = 0, d.rx_ack = Head(f).ack, d.rx_win = Head(f).win * WinUnit,
           NEW s \in WideSegment, s.flags = "ACK", s.seq = d.tx_seq, s.ack = d.tx_ack,
           s.win * WinUnit <= TxWin, s.len = 0
    PROVE  Flows(d, p, Append(t, s), Tail(f), on)
<1>0. /\ p.state # "LISTEN" /\ Sub(p.snd, p.una) <= 1 /\ p.buf >= 0 /\ p.buf <= DevWin
      /\ Receiving(c, p, t, f) /\ (Open(p) => Sending(c, p, t, f))
  BY DEF Flows, Handshake, Live
<1>1. Tail(f) \in Seq(WideSegment)
  BY TailFacts
<1>2. Receiving(d, p, Append(t, s), Tail(f))
  <2>1. Receiving(d, p, t, Tail(f))
    BY <1>0, ReceivingEstablishes
  <2> QED
    BY Zenon, <1>1, <2>1, ReceivingSends
<1>3. ASSUME Open(p) PROVE Sending(d, p, Append(t, s), Tail(f))
  <2>1. Sending(c, p, t, f) /\ p.buf >= 0
    BY <1>0, <1>3
  <2>2. Sent(d) = Sent(c) /\ Sent(d) = d.tx_seq
    BY DEF Sent
  <2>3. Sending(d, p, t, Tail(f))
    BY Zenon, <2>1, <2>2, SendingTakes
  <2>4. Add(Sent(d), 0) = Sent(d)
    BY Zenon, <1>1, <2>3, SendingFacts, Nothing
  <2>5. ~(0 > 0) /\ 0 \in Nat
    OBVIOUS
  <2> QED
    BY Zenon, <1>1, <2>1, <2>2, <2>3, <2>4, <2>5, SendingSends
<1>4. Handshake(d, p, Append(t, s), Tail(f), on)
  BY <1>0 DEF Handshake
<1> QED
  BY <1>0, <1>2, <1>3, <1>4 DEF Flows

\* The connection is freed: what it has sent is harmless, ...
LEMMA FlowsEnds ==
    ASSUME NEW c \in WideConn, NEW d \in WideConn, NEW p \in WidePeer, NEW t \in Seq(WideSegment),
           NEW f \in Seq(WideSegment), NEW on, Flows(c, p, t, f, on),
           c.state \in {"NONE", "CONNECTING", "CONNECTED", "FREED"}, d.state = "FREED"
    PROVE  Flows(d, p, t, f, on)
<1>1. Handshake(d, p, t, f, on) /\ ~Live(d) /\ p.buf >= 0 /\ p.buf <= DevWin
  BY DEF Flows, Handshake, Live
<1>2. ASSUME Open(p) PROVE Harmless(t, p.rcv, p.buf)
  <2>1. CASE c.state = "FREED"
    BY <1>2, <2>1 DEF Flows
  <2>2. CASE c.state = "NONE"
    BY <1>2, <2>2 DEF Flows, Handshake, Open
  <2>3. CASE Live(c)
    <3>1. Sending(c, p, t, f)
      BY <1>2, <2>3 DEF Flows
    <3>2. /\ p.rcv \in Seqno /\ p.buf \in Int /\ Sub(Sent(c), p.rcv) \in Int
      BY <3>1, SendingFacts
    <3>3. /\ Chain(t, p.rcv, Sent(c)) /\ Ordered(t, p.rcv, 0, Sub(Sent(c), p.rcv))
          /\ Sub(Sent(c), p.rcv) + p.buf <= DevWin
      BY <3>1 DEF Sending
    <3> QED
      BY <3>2, <3>3, HarmlessChain
  <2> QED
    BY <2>1, <2>2, <2>3 DEF Live
<1> QED
  BY <1>1, <1>2 DEF Flows

\* ... also when the last segment left and only its end was lost, ...
LEMMA FlowsHalf ==
    ASSUME NEW c \in WideConn, NEW d \in WideConn, NEW p \in WidePeer, NEW t \in Seq(WideSegment),
           NEW f \in Seq(WideSegment), NEW on, Flows(c, p, t, f, on),
           c.state = "CONNECTED", d.state = "FREED",
           NEW n \in Nat, n > 0 => Sub(c.tx_seq, c.rx_ack) + n <= c.rx_win,
           NEW s \in WideSegment, s.flags = "ACK", s.seq = c.tx_seq, s.len = n
    PROVE  Flows(d, p, Append(t, s), f, on)
<1>1. /\ p.buf >= 0 /\ p.buf <= DevWin /\ p.state # "LISTEN" /\ (Open(p) => Sending(c, p, t, f))
  BY FlowsConnected
<1>2. Handshake(d, p, Append(t, s), f, on) /\ ~Live(d)
  BY <1>1 DEF Handshake, Live
<1>3. ASSUME Open(p) PROVE Harmless(Append(t, s), p.rcv, p.buf)
  <2>1. Sending(c, p, t, f) /\ Sent(c) = c.tx_seq
    BY <1>1, <1>3 DEF Sent
  <2> DEFINE g == Sub(Sent(c), p.rcv)
             hi == g + n
             q == Append(t, s)
  <2>2. /\ Chain(q, p.rcv, Add(Sent(c), n)) /\ Ordered(q, p.rcv, 0, hi)
        /\ hi + p.buf <= DevWin
    BY <1>1, <2>1, SendingExtends
  <2>3. g \in Nat /\ p.rcv \in Seqno /\ p.buf \in Int
    BY <2>1, SendingFacts
  <2>4. hi \in Int
    <3> HIDE DEF g
    <3> QED
      BY <2>3
  <2>5. q \in Seq(WideSegment)
    BY AppendFacts
  <2> HIDE DEF hi, q
  <2>6. Harmless(q, p.rcv, p.buf)
    BY <2>2, <2>3, <2>4, <2>5, HarmlessChain
  <2> QED
    BY <2>6 DEF q
<1> QED
  BY <1>1, <1>2, <1>3 DEF Flows

\* ... when an RST follows, ...
LEMMA FlowsResets ==
    ASSUME NEW c \in WideConn, NEW d \in WideConn, NEW p \in WidePeer, NEW t \in Seq(WideSegment),
           NEW f \in Seq(WideSegment), NEW on, Flows(c, p, t, f, on),
           c.state = "FREED", d.state = "FREED", NEW s \in WideSegment, s.flags # "ACK"
    PROVE  Flows(d, p, Append(t, s), f, on)
<1>1. p.buf >= 0 /\ p.buf <= DevWin /\ ~Live(d)
  BY DEF Flows, Live
<1>2. Open(p) => Harmless(Append(t, s), p.rcv, p.buf)
  BY HarmlessAppend DEF Flows
<1>3. ASSUME p.state = "LISTEN" PROVE \A i \in 1 .. Len(Append(t, s)) : Append(t, s)[i].flags # "ACK"
  <2>1. \A i \in 1 .. Len(t) : t[i].flags # "ACK"
    BY <1>3 DEF Flows, Handshake
  <2>2. /\ Len(Append(t, s)) = Len(t) + 1 /\ Len(t) \in Nat /\ Append(t, s)[Len(t) + 1] = s
        /\ \A i \in 1 .. Len(t) : Append(t, s)[i] = t[i]
    BY AppendFacts
  <2>3. ASSUME NEW i \in 1 .. Len(Append(t, s)) PROVE Append(t, s)[i].flags # "ACK"
    <3>1. CASE i = Len(t) + 1
      BY <2>2, <3>1
    <3>2. CASE i \in 1 .. Len(t)
      BY <2>1, <2>2, <3>2
    <3> QED
      BY <2>2, <3>1, <3>2
  <2> QED
    BY <2>3
<1>4. Handshake(d, p, Append(t, s), f, on)
  BY <1>3 DEF Flows, Handshake
<1> QED
  BY <1>1, <1>2, <1>4 DEF Flows

\* ... and when more comes from the device.
LEMMA FlowsIgnores ==
    ASSUME NEW c \in WideConn, NEW d \in WideConn, NEW p \in WidePeer, NEW t \in Seq(WideSegment),
           NEW f \in Seq(WideSegment), NEW on, Flows(c, p, t, f, on),
           c.state = "FREED", d.state = "FREED", f # <<>>
    PROVE  Flows(d, p, t, Tail(f), on)
BY DEF Flows, Handshake, Live

\* The daemon sends the SYN.
LEMMA FlowsStarts ==
    ASSUME NEW c \in WideConn, NEW d \in WideConn, NEW p \in WidePeer, NEW t \in Seq(WideSegment),
           NEW f \in Seq(WideSegment), NEW on, Flows(c, p, t, f, on),
           c.state = "NONE", on, d.state = "CONNECTING", d.tx_seq = 0, d.tx_ack = 0,
           d.rx_ack = 0, d.rx_win = 0, d.ib_size = 0,
           NEW s \in WideSegment, s.flags = "SYN", s.seq = 0, s.ack = 0, s.win * WinUnit <= TxWin
    PROVE  Flows(d, p, Append(t, s), f, on)
<1>1. /\ t = <<>> /\ f = <<>> /\ p.state = "LISTEN" /\ p.buf >= 0 /\ p.buf <= DevWin
      /\ p.snd = 0 /\ p.una = 0 /\ p.rcv = 0 /\ p.buf = 0 /\ p.wnd = 0
  BY DEF Flows, Handshake
<1>2. 0 \in Seqno /\ Add(0, 0) = 0 /\ Sub(0, 0) = 0 /\ TxWin \in Nat
  BY SeqInts, Nothing, SizesAssumption
<1> DEFINE q == Append(t, s)
<1>3. Len(q) = 1 /\ q[1] = s
  BY <1>1, AppendFacts
<1>4. Len(f) = 0
  BY <1>1
<1> HIDE DEF q
<1>5. Chain(f, Add(d.tx_ack, d.ib_size), p.snd)
  BY <1>1, <1>2, <1>4 DEF Chain
<1>6. Acks(q, p.una, Sub(d.tx_ack, p.una))
  BY <1>1, <1>2, <1>3 DEF Acks
<1>7. Ordered(f, p.una, Sub(d.tx_ack, p.una) + d.ib_size, Sub(p.snd, p.una))
  BY <1>1, <1>2, <1>4 DEF Ordered
<1>8. Receiving(d, p, q, f)
  BY <1>1, <1>2, <1>3, <1>5, <1>6, <1>7 DEF Receiving
<1>9. Handshake(d, p, q, f, on)
  BY <1>1, <1>2, <1>3 DEF Handshake
<1> QED
  BY Zenon, <1>1, <1>8, <1>9 DEF Flows, q, Open

\* The device is unplugged.
LEMMA FlowsRemoved ==
    ASSUME NEW d, NEW p, NEW r, p.buf >= 0, p.buf <= DevWin, r.buf = p.buf,
           r.state = "CLOSED", d.state \in {"NONE", "FREED"}
    PROVE  Flows(d, r, <<>>, <<>>, FALSE)
BY DEF Flows, Handshake, Live, Open

\* The device answers the SYN: it accepts the connection or refuses it.
LEMMA FlowsAccepts ==
    ASSUME NEW c \in WideConn, NEW p \in WidePeer, NEW r \in WidePeer, NEW t \in Seq(WideSegment),
           NEW f \in Seq(WideSegment), NEW on, Flows(c, p, t, f, on),
           c.state \in {"NONE", "CONNECTING", "CONNECTED", "FREED"},
           p.state = "LISTEN", t # <<>>,
           r.rcv = Add(Head(t).seq, 1), r.wnd = Head(t).win * WinUnit,
           r.una = p.una, r.buf = p.buf,
           NEW s \in WideSegment, s.seq = p.snd, s.ack = r.rcv, s.win * WinUnit <= DevWin,
           s.len = 0, r.snd = Add(p.snd, Extent(s)), Extent(s) <= 1,
           r.state \in {"SYNRCVD", "CLOSED"}
    PROVE  Flows(c, r, Tail(t), Append(f, s), on)
<1>1. /\ p.snd = 0 /\ p.una = 0 /\ p.rcv = 0 /\ p.buf = 0 /\ f = <<>>
      /\ c.state \in {"CONNECTING", "FREED"}
      /\ \A i \in 1 .. Len(t) : t[i].flags # "ACK"
  BY DEF Flows, Handshake
<1> DEFINE g == Append(f, s)
           e == Extent(s)
           q == Tail(t)
<1>2. /\ Len(g) = 1 /\ g[1] = s /\ g # <<>>
  BY <1>1, AppendFacts
<1>3. /\ q \in Seq(WideSegment) /\ Len(q) = Len(t) - 1 /\ Len(t) \in Nat /\ Len(t) >= 1
      /\ Head(t) = t[1] /\ \A i \in 1 .. Len(t) - 1 : q[i] = t[i + 1]
      /\ q = <<>> <=> Len(t) = 1
  BY TailFacts
<1>4. e \in 0 .. 1
  BY SegmentNumbers
<1>5. /\ 0 \in Seqno /\ 1 \in Seqno /\ DevWin \in Nat /\ TxWin \in Nat /\ SeqMod \in Nat
      /\ \A x \in 0 .. 1 : Add(0, x) = x /\ Sub(x, 0) = x /\ x \in Seqno
      /\ Sub(1, 1) = 0
  <2>1. SeqMod \in Nat \ {0} /\ SeqMod > 1 /\ DevWin \in Nat /\ TxWin \in Nat
    BY SizesAssumption, WindowAssumption
  <2>2. 0 \in Seqno /\ 1 \in Seqno
    BY <2>1 DEF Seqno
  <2>3. ASSUME NEW x \in 0 .. 1 PROVE Add(0, x) = x /\ Sub(x, 0) = x /\ x \in Seqno
    <3>1. x \in Seqno /\ x \in Nat /\ x < SeqMod
      BY <2>1 DEF Seqno
    <3> QED
      BY <2>1, <2>2, <3>1, AddCases, SubCases
  <2> QED
    BY <2>1, <2>2, <2>3, Nothing
<1>6. /\ r.una = 0 /\ r.buf = 0 /\ r.snd = e /\ s.seq = 0 /\ End(s) = e
  BY <1>1, <1>4, <1>5 DEF End
<1>7. CASE c.state = "FREED"
  <2>1. \A i \in 1 .. Len(q) : q[i].flags # "ACK"
    BY <1>1, <1>3
  <2>2. Harmless(q, r.rcv, r.buf)
    BY Zenon, <1>3, <2>1, HarmlessEmpty
  <2>3. Handshake(c, r, q, g, on)
    BY <1>7 DEF Handshake
  <2> QED
    BY <1>5, <1>6, <1>7, <2>2, <2>3 DEF Flows, Live
<1>8. CASE c.state = "CONNECTING"
  <2>1. /\ c.tx_seq = 0 /\ c.tx_ack = 0 /\ c.rx_ack = 0 /\ c.rx_win = 0
        /\ Len(t) = 1 /\ t[1].seq = 0 /\ Receiving(c, p, t, f)
    BY <1>8 DEF Flows, Handshake, Live
  <2>2. q = <<>> /\ Len(q) = 0 /\ r.rcv = 1 /\ Sent(c) = 1
    BY <1>3, <1>5, <1>8, <2>1 DEF Sent
  <2>3. c.ib_size = 0 /\ r.wnd <= TxWin
    <3>1. /\ Sub(c.tx_ack, p.una) + c.ib_size <= Sub(p.snd, p.una) /\ c.ib_size \in Nat
      BY <2>1, ReceivingFacts
    <3>2. Head(t).win * WinUnit <= TxWin
      BY <1>3, <2>1 DEF Receiving
    <3> QED
      BY <1>1, <1>5, <2>1, <3>1, <3>2
  <2>4. Receiving(c, r, q, g)
    <3>0. Sub(c.tx_ack, r.una) = 0 /\ Sub(r.snd, r.una) = e /\ Sub(s.seq, r.una) = 0
      BY <1>4, <1>5, <1>6, <2>1
    <3>1. Chain(g, Add(c.tx_ack, c.ib_size), r.snd)
      BY <1>2, <1>5, <1>6, <2>1, <2>3 DEF Chain
    <3>2. Acks(q, r.una, Sub(c.tx_ack, r.una))
      <4> HIDE DEF q
      <4> QED
        BY <2>2 DEF Acks
    <3>3. Ordered(g, r.una, Sub(c.tx_ack, r.una) + c.ib_size, Sub(r.snd, r.una))
      BY <1>2, <1>4, <2>3, <3>0 DEF Ordered
    <3>4. Sub(r.snd, r.una) <= TxWin + 1
      BY <1>4, <1>5, <3>0
    <3> HIDE DEF q, g
    <3> QED
      BY <1>8, <2>2, <2>3, <3>1, <3>2, <3>3, <3>4 DEF Receiving
  <2>5. Sending(c, r, q, g)
    <3>0. /\ Sub(r.rcv, c.rx_ack) = 1 /\ Sub(Sent(c), r.rcv) = 0 /\ Sub(Sent(c), c.rx_ack) = 1
          /\ Sub(s.ack, c.rx_ack) = 1
      BY <1>5, <2>1, <2>2
    <3>1. Chain(q, r.rcv, Sent(c))
      <4> HIDE DEF q
      <4> QED
        BY <2>2 DEF Chain
    <3>2. Ordered(q, r.rcv, 0, Sub(Sent(c), r.rcv))
      <4> HIDE DEF q
      <4> QED
        BY <2>2, <3>0 DEF Ordered
    <3>3. Acks(g, c.rx_ack, Sub(r.rcv, c.rx_ack))
      BY <1>2, <3>0 DEF Acks
    <3>4. s.win * WinUnit \in Int
      <4>1. s.win \in Int /\ WinUnit \in Int
        BY SegmentNumbers, SizesAssumption
      <4> QED
        BY <4>1
    <3>5. Sub(s.ack, c.rx_ack) + s.win * WinUnit <= Sub(r.rcv, c.rx_ack) + DevWin - r.buf
      BY <1>5, <1>6, <3>0, <3>4
    <3>6. Limits(g, c.rx_ack, Sub(r.rcv, c.rx_ack) + DevWin - r.buf)
      BY <1>2, <3>5 DEF Limits
    <3>7. /\ Sub(Sent(c), r.rcv) + r.buf <= DevWin
          /\ Sub(Sent(c), c.rx_ack) = Sub(r.rcv, c.rx_ack) + Sub(Sent(c), r.rcv)
          /\ Sub(Sent(c), c.rx_ack) <= DevWin + 1
          /\ c.rx_win <= DevWin /\ c.rx_win <= Sub(r.rcv, c.rx_ack) + DevWin - r.buf
      BY <1>5, <1>6, <2>1, <3>0
    <3> HIDE DEF q, g
    <3> QED
      BY <3>1, <3>2, <3>3, <3>6, <3>7 DEF Sending
  <2>6. Handshake(c, r, q, g, on)
    <3>1. Sub(r.snd, r.una) <= 1
      BY <1>4, <1>5, <1>6
    <3> QED
      BY <1>8, <2>1, <2>2, <3>1 DEF Handshake
  <2> QED
    BY <1>5, <1>6, <1>8, <2>4, <2>5, <2>6 DEF Flows
<1> QED
  BY <1>1, <1>7, <1>8

\* The device takes a segment.
LEMMA FlowsTaken ==
    ASSUME NEW c \in WideConn, NEW p \in WidePeer, NEW r \in WidePeer, NEW t \in Seq(WideSegment),
           NEW f \in Seq(WideSegment), NEW on, Flows(c, p, t, f, on),
           c.state \in {"NONE", "CONNECTING", "CONNECTED", "FREED"},
           Open(p), t # <<>>, Head(t).flags = "ACK", r.state = "EST",
           r.una = Head(t).ack, r.wnd = Head(t).win * WinUnit, r.snd = p.snd,
           r.rcv = Add(p.rcv, Head(t).len), r.buf = p.buf + Head(t).len
    PROVE  Flows(c, r, Tail(t), f, on)
<1>1. /\ c.state \in {"CONNECTED", "FREED"} /\ p.buf >= 0
  BY DEF Flows, Handshake, Open
<1>2. p.buf \in Nat /\ p.rcv \in Seqno /\ Head(t).len \in Nat
  BY <1>1, TailFacts, SegmentNumbers DEF WidePeer
<1>3. Handshake(c, r, Tail(t), f, on)
  BY <1>1 DEF Handshake
<1>4. r.buf >= 0
  BY <1>2
<1>5. CASE c.state = "CONNECTED"
  <2>1. Receiving(c, p, t, f) /\ Sending(c, p, t, f)
    BY <1>5 DEF Flows, Live
  <2>2. Receiving(c, r, Tail(t), f)
    BY <2>1, ReceivingAcked
  <2>3. r.buf <= DevWin /\ Sending(c, r, Tail(t), f)
    BY <1>1, <2>1, SendingTaken
  <2> QED
    BY <1>3, <1>4, <1>5, <2>2, <2>3 DEF Flows
<1>6. CASE c.state = "FREED"
  <2>1. Harmless(t, p.rcv, p.buf)
    BY <1>6 DEF Flows
  <2>2. r.buf <= DevWin /\ Harmless(Tail(t), r.rcv, r.buf)
    BY <1>2, <2>1, HarmlessTake
  <2> QED
    BY <1>3, <1>4, <1>6, <2>2 DEF Flows, Live
<1> QED
  BY <1>1, <1>5, <1>6

\* The device drops a segment of a connection it has closed or that is reset.
LEMMA FlowsDrops ==
    ASSUME NEW c \in WideConn, NEW p \in WidePeer, NEW r \in WidePeer, NEW t \in Seq(WideSegment),
           NEW f \in Seq(WideSegment), NEW on, Flows(c, p, t, f, on), t # <<>>,
           p.state = "CLOSED" \/ Head(t).flags = "RST", r.state = "CLOSED",
           r.una = p.una, r.wnd = p.wnd, r.snd = p.snd, r.rcv = p.rcv, r.buf = p.buf
    PROVE  Flows(c, r, Tail(t), f, on)
<1>1. Head(t) = t[1]
  BY TailFacts
<1>2. c.state # "NONE" /\ c.state # "CONNECTING"
  BY <1>1 DEF Flows, Handshake
<1>3. Handshake(c, r, Tail(t), f, on)
  BY <1>2 DEF Handshake
<1>4. Live(c) => Receiving(c, r, Tail(t), f)
  BY ReceivingDrops DEF Flows
<1> QED
  BY <1>3, <1>4 DEF Flows, Open

\* The device sends data, an acknowledgement or the end of the connection.
LEMMA FlowsMore ==
    ASSUME NEW c \in WideConn, NEW p \in WidePeer, NEW r \in WidePeer, NEW t \in Seq(WideSegment),
           NEW f \in Seq(WideSegment), NEW on, Flows(c, p, t, f, on), Open(p),
           NEW s \in WideSegment, NEW n \in Nat, n = Extent(s), s.seq = p.snd, s.ack = p.rcv,
           s.win * WinUnit <= DevWin - p.buf,
           n > 0 => p.state = "EST" /\ Sub(p.snd, p.una) + n <= p.wnd,
           r.state \in {p.state, "CLOSED"},
           r.snd = Add(p.snd, n), r.una = p.una, r.wnd = p.wnd, r.rcv = p.rcv, r.buf = p.buf
    PROVE  Flows(c, r, t, Append(f, s), on)
<1>1. Live(c) => Receiving(c, r, t, Append(f, s))
  BY ReceivingMore DEF Flows
<1>2. Live(c) => Sending(c, r, t, Append(f, s))
  BY SendingMore DEF Flows
<1>3. Handshake(c, r, t, Append(f, s), on)
  <2>1. c.state # "NONE" /\ p.state # "LISTEN" /\ r.state # "LISTEN"
    BY DEF Flows, Handshake, Open
  <2>2. CASE c.state = "CONNECTING"
    <3>1. n = 0 /\ Sub(p.snd, p.una) <= 1 /\ t = <<>> /\ r.state # "EST"
      BY <2>1, <2>2 DEF Flows, Handshake
    <3>2. r.snd = p.snd
      BY <3>1, Nothing DEF WidePeer
    <3> QED
      BY <2>1, <2>2, <3>1, <3>2 DEF Flows, Handshake
  <2> QED
    BY <2>1, <2>2 DEF Handshake
<1> QED
  BY <1>1, <1>2, <1>3 DEF Flows, Open

\* The device's application consumes part of its buffer.
LEMMA FlowsConsumes ==
    ASSUME NEW c \in WideConn, NEW p \in WidePeer, NEW r \in WidePeer, NEW t \in Seq(WideSegment),
           NEW f \in Seq(WideSegment), NEW on, Flows(c, p, t, f, on),
           p.state = "EST", r.state = "EST", r.buf <= p.buf, r.buf >= 0,
           r.snd = p.snd, r.una = p.una, r.wnd = p.wnd, r.rcv = p.rcv
    PROVE  Flows(c, r, t, f, on)
<1>1. Live(c) => Receiving(c, r, t, f)
  BY DEF Flows, Receiving
<1>2. Live(c) => Sending(c, r, t, f)
  BY SendingConsumes DEF Flows, Open
<1>3. r.buf <= DevWin /\ r.buf \in Int /\ p.buf \in Int /\ p.rcv \in Seqno
  BY SizesAssumption DEF Flows, WidePeer
<1>4. c.state = "FREED" => Harmless(t, r.rcv, r.buf)
  BY <1>3, HarmlessConsume DEF Flows, Open
<1>5. Handshake(c, r, t, f, on)
  BY DEF Flows, Handshake
<1> QED
  BY <1>1, <1>2, <1>3, <1>4, <1>5 DEF Flows

=============================================================================
