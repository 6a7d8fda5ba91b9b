---------------------------- MODULE MuxTcpProofs ----------------------------
(***************************************************************************)
(* That client and connection agree, that no wake-up is lost, that a       *)
(* teardown flushes, that neither end's buffer overflows nor a byte is     *)
(* missed in either direction, and that each direction is a bounded pipe:  *)
(* for every size of windows, buffers and sequence space.                  *)
(***************************************************************************)
EXTENDS MuxTcpFlow

\* As in MuxTcpFlow, most leaves need no arithmetic.
USE ZenonT(4), SMTT(30), ZenonT(40)

ClientRecord == [state : ClientStates, events : SUBSET Events, devents : SUBSET Events,
                 ob_size : 0 .. ReplySize]
AppRecord == [open : BOOLEAN, buf : 0 .. AppCap, full : BOOLEAN]
FinRecord == [cause : Causes, client : ClientStates, lost : Nat, stalled : BOOLEAN]

(* What the daemon's own variables satisfy.                                 *)
Mask(c) == (IF Sendable(c) > 0 THEN {"IN"} ELSE {}) \cup (IF c.ib_size > 0 THEN {"OUT"} ELSE {})

Fresh(c) ==
    /\ c.sendable = Sendable(c)
    /\ c.ack_pending <=> c.tx_acked # c.tx_ack
    /\ c.events = Mask(c)

\* The connection c and its client k fit each other.
Fits(c, k) ==
    /\ k.state = "CONNECTING1" <=> c.state = "CONNECTING"
    /\ k.state \in {"CONNECTING2", "CONNECTED"} <=> c.state = "CONNECTED"
    /\ c.state = "CONNECTED" => /\ Fresh(c) /\ k.devents = c.events
                                /\ k.state = "CONNECTED" => k.events = c.events
    /\ c.state \in {"NONE", "CONNECTING", "CONNECTED", "FREED"}
    /\ c.state = "CONNECTING" => c.ib_size = 0

Flushed(f) ==
    f.cause \in {"reset", "removed", "usb"} /\ f.client = "CONNECTED" /\ ~f.stalled => f.lost = 0

Daemon == /\ conn \in WideConn /\ client \in ClientRecord /\ fin \in FinRecord
          /\ Fits(conn, client) /\ Flushed(fin)
Pipes == toDev \in Seq(WideSegment) /\ fromDev \in Seq(WideSegment)
Outside == app \in AppRecord /\ polled \subseteq Events /\ peer \in WidePeer

Inv == Daemon /\ Pipes /\ Outside

-----------------------------------------------------------------------------
(* Lemmas on the operators.                                                 *)

\* send_tcp builds a segment out of any connection.
LEMMA SegmentTypes ==
    ASSUME NEW c \in WideConn, NEW f \in Flags, NEW n \in Nat
    PROVE  TcpSegment(c, f, n) \in WideSegment
  <1>1. TxWin \div WinUnit \in Int
    BY SizesAssumption
  <1>2. QED
    BY <1>1 DEF TcpSegment, WideSegment, WideConn

\* send_anon_rst answers any segment.
LEMMA AnonRstTypes ==
    ASSUME NEW s \in WideSegment PROVE AnonRst(s) \in WideSegment
  BY SeqInts DEF AnonRst, WideSegment, Flags

\* Sending appends a segment or nothing.
LEMMA TransmitTypes ==
    ASSUME NEW q \in Seq(WideSegment), NEW s \in WideSegment, NEW out
    PROVE  Transmit(q, s, out) \in Seq(WideSegment)
  BY DEF Transmit

\* A successful send_tcp changes only the ACK bookkeeping.
LEMMA AckedFacts ==
    ASSUME NEW c \in WideConn
    PROVE  /\ Acked(c) \in WideConn
           /\ Acked(c).state = c.state /\ Acked(c).ib_size = c.ib_size
  BY DEF Acked, WideConn

\* What the window leaves to send is a number.
LEMMA SendableType ==
    ASSUME NEW c \in WideConn PROVE Sendable(c) \in Int
  <1>1. Sub(c.tx_seq, c.rx_ack) \in Int
    BY SeqInts, SeqTypes DEF WideConn
  <1>2. OutbufSize \in Int /\ MaxPayload \in Int /\ c.rx_win \in Int
    BY SizesAssumption DEF WideConn
  <1>3. QED
    BY <1>1, <1>2 DEF Sendable, Least

\* update_connection leaves a connection whose mask and flags are up to date.
LEMMA UpdateFacts ==
    ASSUME NEW c \in WideConn
    PROVE  /\ UpdateConnection(c) \in WideConn
           /\ UpdateConnection(c).state = c.state
           /\ UpdateConnection(c).ib_size = c.ib_size
           /\ Fresh(UpdateConnection(c))
  <1>1. PICK s \in Int, e \in SUBSET Events, b \in BOOLEAN :
          s = Sendable(c) /\ e = Mask(c) /\ b = (c.tx_acked # c.tx_ack)
    BY SendableType DEF Mask, Events
  <1> DEFINE u == [c EXCEPT !.sendable = s, !.events = e, !.ack_pending = b]
  <1>2. UpdateConnection(c) = u
    BY <1>1 DEF UpdateConnection, Mask
  <1>3. /\ u \in WideConn /\ u.state = c.state /\ u.ib_size = c.ib_size
        /\ u.tx_seq = c.tx_seq /\ u.rx_ack = c.rx_ack /\ u.rx_win = c.rx_win
        /\ u.tx_acked = c.tx_acked /\ u.tx_ack = c.tx_ack
        /\ u.sendable = s /\ u.events = e /\ u.ack_pending = b
    BY DEF WideConn
  <1>4. Sendable(u) = Sendable(c)
    BY <1>3 DEF Sendable
  <1>5. Mask(u) = Mask(c)
    BY <1>3, <1>4 DEF Mask
  <1>6. Fresh(u)
    BY <1>1, <1>3, <1>4, <1>5 DEF Fresh
  <1>7. QED
    BY <1>2, <1>3, <1>6

\* client_set_events on a client that has a connection.
LEMMA SetEventsFacts ==
    ASSUME NEW k \in ClientRecord, NEW ev \in SUBSET Events
    PROVE  /\ ClientSetEvents(k, ev) \in ClientRecord
           /\ ClientSetEvents(k, ev).state = k.state
           /\ k.state \in {"CONNECTING2", "CONNECTED"} => ClientSetEvents(k, ev).devents = ev
           /\ k.state = "CONNECTED" => ClientSetEvents(k, ev).events = ev
  BY DEF ClientSetEvents, ClientRecord

\* client_notify_connect on a client that waits for the answer.
LEMMA NotifyFacts ==
    ASSUME NEW k \in ClientRecord, k.state = "CONNECTING1"
    PROVE  /\ NotifyConnect(k, TRUE) \in ClientRecord
           /\ NotifyConnect(k, TRUE).state = "CONNECTING2"
           /\ NotifyConnect(k, FALSE) \in ClientRecord
           /\ NotifyConnect(k, FALSE).state = "COMMAND"
  <1>1. /\ NotifyConnect(k, TRUE) = [k EXCEPT !.state = "CONNECTING2", !.events = {"OUT"},
                                              !.ob_size = ReplySize]
        /\ NotifyConnect(k, FALSE) = [k EXCEPT !.state = "COMMAND", !.events = @ \cup {"OUT"}]
    BY DEF NotifyConnect
  <1>2. ReplySize \in 0 .. ReplySize
    BY DEF ReplySize
  <1>3. k.events \cup {"OUT"} \in SUBSET Events /\ {"OUT"} \in SUBSET Events
    BY DEF ClientRecord, Events
  <1>4. [k EXCEPT !.state = "COMMAND", !.events = @ \cup {"OUT"}] \in ClientRecord
    BY <1>3 DEF ClientRecord, ClientStates
  <1>5. [k EXCEPT !.state = "CONNECTING2", !.events = {"OUT"}, !.ob_size = ReplySize]
            \in ClientRecord
    BY <1>2, <1>3 DEF ClientRecord, ClientStates
  <1>6. QED
    BY <1>1, <1>4, <1>5 DEF ClientRecord

\* A freed connection.
LEMMA FreedFacts ==
    /\ NewConnection \in WideConn /\ NewConnection.state = "CONNECTING"
    /\ NewConnection.ib_size = 0
    /\ FreedConnection \in WideConn /\ FreedConnection.state = "FREED"
  BY SeqInts DEF NewConnection, FreedConnection, WideConn, ConnStates

-----------------------------------------------------------------------------
(* The two ways a handler ends.                                             *)

\* A handler that settles leaves connection and client fitting each other.
LEMMA SettleKeeps ==
    ASSUME fin \in FinRecord, Flushed(fin), NEW c \in WideConn, NEW k \in ClientRecord,
           c.state = "CONNECTED", k.state \in {"CONNECTING2", "CONNECTED"}, Settle(c, k)
    PROVE  Daemon'
  <1> DEFINE u == UpdateConnection(c)
             m == ClientSetEvents(k, u.events)
  <1>1. u \in WideConn /\ u.state = "CONNECTED" /\ Fresh(u)
    BY UpdateFacts
  <1>2. u.events \in SUBSET Events
    BY <1>1 DEF WideConn
  <1>3. /\ m \in ClientRecord /\ m.state = k.state /\ m.devents = u.events
        /\ k.state = "CONNECTED" => m.events = u.events
    BY <1>2, SetEventsFacts
  <1>4. conn' = u /\ client' = m /\ fin' = fin
    BY DEF Settle
  <1>5. Fits(u, m)
    BY <1>1, <1>3 DEF Fits
  <1>6. QED
    BY <1>1, <1>3, <1>4, <1>5 DEF Daemon

\* connection_teardown frees the connection, answers or closes the client, and
\* flushes what the client can take.
LEMMA TeardownKeeps ==
    ASSUME Daemon, NEW c \in WideConn, NEW q \in Seq(WideSegment), NEW alive,
           NEW cause \in Causes, Teardown(c, q, alive, cause),
           c.state \in {"CONNECTING", "REFUSED"} <=> conn.state = "CONNECTING",
           conn.state \in {"CONNECTING", "CONNECTED"},
           conn.state = "CONNECTED" /\ c.ib_size > 0 => "OUT" \in c.events
    PROVE  Daemon' /\ toDev' \in Seq(WideSegment)
  <1>1. PICK out \in Outcomes(0), left \in FlushLeaves(c) :
          /\ toDev' = IF alive /\ c.state \notin {"DYING", "REFUSED"}
                      THEN Transmit(q, TcpSegment(c, "RST", 0), out) ELSE q
          /\ conn' = FreedConnection
          /\ client' = IF c.state \in {"REFUSED", "CONNECTING"}
                       THEN NotifyConnect(client, FALSE)
                       ELSE [client EXCEPT !.state = "CLOSED", !.events = {}, !.ob_size = 0]
          /\ fin' = [cause |-> cause, client |-> client.state, lost |-> left,
                     stalled |-> Flushing(c) /\ left > 0]
    BY DEF Teardown
  <1>2. toDev' \in Seq(WideSegment)
    <2>1. TcpSegment(c, "RST", 0) \in WideSegment
      BY SegmentTypes DEF Flags
    <2>2. QED
      BY <1>1, <2>1, TransmitTypes
  <1>3. client' \in ClientRecord /\ client'.state \in {"COMMAND", "CLOSED"}
    <2>1. conn.state = "CONNECTING" => client.state = "CONNECTING1"
      BY DEF Daemon, Fits
    <2>2. CASE conn.state = "CONNECTING"
      BY <1>1, <2>1, <2>2, NotifyFacts DEF Daemon
    <2>3. CASE conn.state = "CONNECTED"
      <3>1. client' = [client EXCEPT !.state = "CLOSED", !.events = {}, !.ob_size = 0]
        BY <1>1, <2>3
      <3>2. 0 \in 0 .. ReplySize
        BY DEF ReplySize
      <3>3. QED
        BY <3>1, <3>2 DEF Daemon, ClientRecord, ClientStates
    <2>4. QED
      BY <2>2, <2>3
  <1>4. left \in Nat /\ (~Flushing(c) => left = c.ib_size)
    BY DEF FlushLeaves, WideConn
  <1>5. fin' \in FinRecord /\ Flushed(fin')
    <2>1. PICK b \in BOOLEAN : b = (Flushing(c) /\ left > 0)
      OBVIOUS
    <2>2. fin' = [cause |-> cause, client |-> client.state, lost |-> left, stalled |-> b]
      BY <1>1, <2>1
    <2>3. fin' \in FinRecord
      BY <1>4, <2>2 DEF FinRecord, Daemon, ClientRecord
    <2>4. ASSUME client.state = "CONNECTED", ~b PROVE left = 0
      <3>1. conn.state = "CONNECTED"
        BY <2>4 DEF Daemon, Fits
      <3>2. CASE Flushing(c)
        <4>1. ~(left > 0)
          BY <2>1, <2>4, <3>2, Zenon
        <4>2. QED
          BY <1>4, <4>1
      <3>3. CASE ~Flushing(c)
        BY <1>4, <2>4, <3>1, <3>3 DEF Flushing, WideConn
      <3>4. QED
        BY <3>2, <3>3
    <2>5. QED
      BY <2>2, <2>3, <2>4 DEF Flushed
  <1>6. Fits(conn', client')
    BY <1>1, <1>3, FreedFacts DEF Fits
  <1>7. QED
    BY <1>1, <1>2, <1>3, <1>5, <1>6, FreedFacts DEF Daemon

\* A connection with data for its client asks for POLLOUT.
LEMMA DataAsksForOut ==
    ASSUME Daemon, conn.state = "CONNECTED", conn.ib_size > 0
    PROVE  "OUT" \in conn.events
  BY DEF Daemon, Fits, Fresh, Mask

-----------------------------------------------------------------------------
(* device_tcp_input.                                                        *)

\* Copying the header into the connection.
LEMMA HeaderFacts ==
    ASSUME Daemon, NEW seg \in WideSegment
    PROVE  /\ Header(seg) \in WideConn /\ Header(seg).state = conn.state
           /\ Header(seg).ib_size = conn.ib_size /\ Header(seg).events = conn.events
           /\ Header(seg).tx_seq = conn.tx_seq /\ Header(seg).tx_ack = conn.tx_ack
  <1>1. seg.win * WinUnit \in Int /\ seg.ack \in Seqno
    BY SizesAssumption DEF WideSegment
  <1>2. QED
    BY <1>1 DEF Header, WideConn, Daemon

\* A segment for a connection that is gone.
LEMMA NoConnectionKeeps ==
    ASSUME Daemon, Pipes, NEW seg \in WideSegment, TcpInputNoConnection(seg)
    PROVE  Daemon' /\ toDev' \in Seq(WideSegment)
  <1>1. Daemon'
    BY DEF TcpInputNoConnection, Daemon
  <1>2. toDev' \in Seq(WideSegment)
    BY AnonRstTypes, TransmitTypes DEF TcpInputNoConnection, Pipes
  <1>3. QED
    BY <1>1, <1>2

\* Anything but a SYNACK refuses the connection.
LEMMA RefusedKeeps ==
    ASSUME Daemon, Pipes, NEW seg \in WideSegment, TcpInputRefused(seg)
    PROVE  Daemon' /\ toDev' \in Seq(WideSegment)
  <1> DEFINE c == [Header(seg) EXCEPT !.state = IF seg.flags = "RST" THEN "REFUSED" ELSE @]
  <1>1. conn.state = "CONNECTING" /\ Teardown(c, toDev, TRUE, "refused")
    BY DEF TcpInputRefused
  <1>2. c \in WideConn /\ c.state \in {"CONNECTING", "REFUSED"}
    BY <1>1, HeaderFacts DEF WideConn, ConnStates
  <1>3. QED
    BY <1>1, <1>2, TeardownKeeps DEF Pipes, Causes

\* Counting the SYN, or data, in both directions.
LEMMA CountedFacts ==
    ASSUME NEW c \in WideConn, NEW a \in Seqno, NEW b \in Seqno
    PROVE  /\ [c EXCEPT !.tx_seq = a, !.tx_ack = b] \in WideConn
           /\ [c EXCEPT !.tx_seq = a, !.tx_ack = b].state = c.state
  BY DEF WideConn

\* A SYNACK establishes it.
LEMMA EstablishedKeeps ==
    ASSUME Daemon, Pipes, NEW seg \in WideSegment, TcpInputEstablished(seg)
    PROVE  Daemon' /\ toDev' \in Seq(WideSegment)
  <1> DEFINE c == [Header(seg) EXCEPT !.tx_seq = Add(@, 1), !.tx_ack = Add(@, 1)]
  <1>1. conn.state = "CONNECTING" /\ client.state = "CONNECTING1"
    BY DEF TcpInputEstablished, Daemon, Fits
  <1>2. c \in WideConn /\ c.state = "CONNECTING"
    <2>1. Header(seg) \in WideConn /\ Header(seg).state = "CONNECTING"
      BY <1>1, HeaderFacts
    <2>2. Add(Header(seg).tx_seq, 1) \in Seqno /\ Add(Header(seg).tx_ack, 1) \in Seqno
      <3>1. Header(seg).tx_seq \in Seqno /\ Header(seg).tx_ack \in Seqno
        BY <2>1 DEF WideConn
      <3>2. Header(seg).tx_seq \in Int /\ Header(seg).tx_ack \in Int
        BY <3>1, SeqInts
      <3>3. QED
        BY <3>2, SeqTypes
    <2>3. c = [Header(seg) EXCEPT !.tx_seq = Add(Header(seg).tx_seq, 1),
                                  !.tx_ack = Add(Header(seg).tx_ack, 1)]
      OBVIOUS
    <2>4. QED
      BY <2>1, <2>2, <2>3, CountedFacts
  <1>3. TcpSegment(c, "ACK", 0) \in WideSegment
    BY <1>2, SegmentTypes DEF Flags
  <1>4. PICK out \in Outcomes(0) :
          \/ /\ toDev' = Transmit(toDev, TcpSegment(c, "ACK", 0), out)
             /\ Settle([Acked(c) EXCEPT !.state = "CONNECTED"], NotifyConnect(client, TRUE))
          \/ Teardown(c, Transmit(toDev, TcpSegment(c, "ACK", 0), out), TRUE, "usb")
    BY DEF TcpInputEstablished
  <1>5. Transmit(toDev, TcpSegment(c, "ACK", 0), out) \in Seq(WideSegment)
    BY <1>3, TransmitTypes DEF Pipes
  <1>6. CASE /\ toDev' = Transmit(toDev, TcpSegment(c, "ACK", 0), out)
             /\ Settle([Acked(c) EXCEPT !.state = "CONNECTED"], NotifyConnect(client, TRUE))
    <2>1. /\ [Acked(c) EXCEPT !.state = "CONNECTED"] \in WideConn
          /\ [Acked(c) EXCEPT !.state = "CONNECTED"].state = "CONNECTED"
      BY <1>2, AckedFacts DEF WideConn, ConnStates
    <2>2. /\ NotifyConnect(client, TRUE) \in ClientRecord
          /\ NotifyConnect(client, TRUE).state = "CONNECTING2"
      BY <1>1, NotifyFacts DEF Daemon
    <2>3. Daemon'
      BY <1>6, <2>1, <2>2, SettleKeeps DEF Daemon
    <2>4. QED
      BY <1>5, <1>6, <2>3
  <1>7. CASE Teardown(c, Transmit(toDev, TcpSegment(c, "ACK", 0), out), TRUE, "usb")
    BY <1>1, <1>2, <1>5, <1>7, TeardownKeeps DEF Causes
  <1>8. QED
    BY <1>4, <1>6, <1>7

\* Anything but an ACK ends an established connection.
LEMMA ResetKeeps ==
    ASSUME Daemon, Pipes, NEW seg \in WideSegment, TcpInputReset(seg)
    PROVE  Daemon' /\ toDev' \in Seq(WideSegment)
  <1> DEFINE c == [Header(seg) EXCEPT !.state = IF seg.flags = "RST" THEN "DYING" ELSE @]
  <1>1. conn.state = "CONNECTED" /\ Teardown(c, toDev, TRUE, "reset")
    BY DEF TcpInputReset
  <1>2. /\ c \in WideConn /\ c.state \in {"CONNECTED", "DYING"}
        /\ c.ib_size = conn.ib_size /\ c.events = conn.events
    BY <1>1, HeaderFacts DEF WideConn, ConnStates
  <1>3. c.ib_size > 0 => "OUT" \in c.events
    BY <1>1, <1>2, DataAsksForOut
  <1>4. QED
    BY <1>1, <1>2, <1>3, TeardownKeeps DEF Pipes, Causes

\* Data is buffered and acknowledged.
LEMMA DataKeeps ==
    ASSUME Daemon, Pipes, NEW seg \in WideSegment, TcpInputData(seg)
    PROVE  Daemon' /\ toDev' \in Seq(WideSegment)
  <1>1. conn.state = "CONNECTED" /\ client.state \in {"CONNECTING2", "CONNECTED"}
    BY DEF TcpInputData, Daemon, Fits
  <1>2. CASE Teardown(Header(seg), toDev, TRUE, "overflow")
    <2>1. Header(seg).ib_size > 0 => "OUT" \in Header(seg).events
      BY <1>1, HeaderFacts, DataAsksForOut
    <2>2. QED
      BY <1>1, <1>2, <2>1, HeaderFacts, TeardownKeeps DEF Pipes, Causes
  <1> DEFINE h == [Header(seg) EXCEPT !.ib_size = @ + seg.len]
             c == UpdateConnection(h)
  <1>3. h \in WideConn /\ h.state = "CONNECTED"
    BY <1>1, HeaderFacts DEF WideConn, WideSegment
  <1>4. c \in WideConn /\ c.state = "CONNECTED" /\ Fresh(c)
    BY <1>3, UpdateFacts
  <1>5. TcpSegment(c, "ACK", 0) \in WideSegment
    BY <1>4, SegmentTypes DEF Flags
  <1>6. CASE \E out \in Outcomes(0) :
               LET q == Transmit(toDev, TcpSegment(c, "ACK", 0), out)
               IN  \/ out = "ok" /\ toDev' = q /\ Settle(Acked(c), client)
                   \/ out # "ok" /\ Teardown(c, q, TRUE, "usb")
    <2>1. PICK out \in Outcomes(0) :
            \/ /\ toDev' = Transmit(toDev, TcpSegment(c, "ACK", 0), out)
               /\ Settle(Acked(c), client)
            \/ Teardown(c, Transmit(toDev, TcpSegment(c, "ACK", 0), out), TRUE, "usb")
      BY <1>6
    <2>2. Transmit(toDev, TcpSegment(c, "ACK", 0), out) \in Seq(WideSegment)
      BY <1>5, TransmitTypes DEF Pipes
    <2>3. ASSUME Settle(Acked(c), client) PROVE Daemon'
      BY <1>1, <1>4, <2>3, AckedFacts, SettleKeeps DEF Daemon
    <2>4. c.ib_size > 0 => "OUT" \in c.events
      BY <1>4 DEF Fresh, Mask
    <2>5. ASSUME Teardown(c, Transmit(toDev, TcpSegment(c, "ACK", 0), out), TRUE, "usb")
          PROVE  Daemon' /\ toDev' \in Seq(WideSegment)
      BY <1>1, <1>4, <2>2, <2>4, <2>5, TeardownKeeps DEF Causes
    <2>6. QED
      BY <2>1, <2>2, <2>3, <2>5
  <1>7. QED
    BY <1>2, <1>6 DEF TcpInputData

\* device_tcp_input as a whole.
LEMMA DeviceTcpInputKeeps ==
    ASSUME Inv, DeviceTcpInput PROVE Inv'
  <1>1. Head(fromDev) \in WideSegment /\ Tail(fromDev) \in Seq(WideSegment)
    BY DEF DeviceTcpInput, Inv, Pipes
  <1>2. Daemon' /\ toDev' \in Seq(WideSegment)
    BY <1>1, NoConnectionKeeps, RefusedKeeps, EstablishedKeeps, ResetKeeps, DataKeeps
       DEF DeviceTcpInput, Inv
  <1>3. QED
    BY <1>1, <1>2 DEF DeviceTcpInput, Inv, Pipes, Outside, envVars

-----------------------------------------------------------------------------
(* client_process.                                                          *)

\* device_client_process from the read on.
LEMMA ClientReadKeeps ==
    ASSUME Daemon, Pipes, Outside, client.state = "CONNECTED", conn.state = "CONNECTED",
           NEW c \in WideConn, c.state = "CONNECTED", (c.ib_size > 0 => "OUT" \in c.events),
           NEW a \in AppRecord, a.buf = app.buf, ClientRead(c, a)
    PROVE  Daemon' /\ toDev' \in Seq(WideSegment) /\ app' \in AppRecord
  <1>1. CASE Settle(c, client) /\ toDev' = toDev /\ app' = a
    <2>1. Daemon'
      BY <1>1, SettleKeeps DEF Daemon
    <2>2. QED
      BY <1>1, <2>1 DEF Pipes
  <1>2. CASE Teardown(c, toDev, TRUE, "client") /\ app' = a
    BY <1>2, TeardownKeeps DEF Pipes, Causes
  <1>3. CASE \E n \in 1 .. Least(conn.sendable, app.buf) : \E out \in Outcomes(n) :
               LET q == Transmit(toDev, TcpSegment(c, "ACK", n), out)
               IN  /\ \/ /\ out = "ok" /\ toDev' = q
                         /\ Settle([Acked(c) EXCEPT !.tx_seq = Add(@, n)], client)
                      \/ out # "ok" /\ Teardown(c, q, TRUE, "usb")
                   /\ app' = [a EXCEPT !.buf = @ - n]
    <2>0. PICK n \in 1 .. Least(conn.sendable, app.buf) : \E out \in Outcomes(n) :
            /\ \/ /\ toDev' = Transmit(toDev, TcpSegment(c, "ACK", n), out)
                  /\ Settle([Acked(c) EXCEPT !.tx_seq = Add(@, n)], client)
               \/ Teardown(c, Transmit(toDev, TcpSegment(c, "ACK", n), out), TRUE, "usb")
            /\ app' = [a EXCEPT !.buf = @ - n]
      BY <1>3
    <2>1. PICK out \in Outcomes(n) :
            /\ \/ /\ toDev' = Transmit(toDev, TcpSegment(c, "ACK", n), out)
                  /\ Settle([Acked(c) EXCEPT !.tx_seq = Add(@, n)], client)
               \/ Teardown(c, Transmit(toDev, TcpSegment(c, "ACK", n), out), TRUE, "usb")
            /\ app' = [a EXCEPT !.buf = @ - n]
      BY <2>0
    <2>2. n \in Nat /\ n <= app.buf /\ n >= 1
      <3>1. conn.sendable \in Int /\ app.buf \in Int
        BY SizesAssumption DEF Daemon, Outside, WideConn, AppRecord
      <3>2. QED
        BY <3>1 DEF Least
    <2>3. app' \in AppRecord
      <3>1. a.buf - n \in 0 .. AppCap
        BY <2>2, SizesAssumption DEF AppRecord
      <3>2. QED
        BY <2>1, <3>1 DEF AppRecord
    <2>4. Transmit(toDev, TcpSegment(c, "ACK", n), out) \in Seq(WideSegment)
      <3>1. TcpSegment(c, "ACK", n) \in WideSegment
        BY <2>2, SegmentTypes DEF Flags
      <3>2. QED
        BY <3>1, TransmitTypes DEF Pipes
    <2>5. ASSUME Settle([Acked(c) EXCEPT !.tx_seq = Add(@, n)], client) PROVE Daemon'
      <3> DEFINE s == Add(Acked(c).tx_seq, n)
                 e == [Acked(c) EXCEPT !.tx_seq = s]
      <3>1. Acked(c) \in WideConn /\ Acked(c).state = "CONNECTED"
        BY AckedFacts
      <3>2. s \in Seqno
        <4>1. Acked(c).tx_seq \in Seqno
          BY <3>1 DEF WideConn
        <4>2. Acked(c).tx_seq \in Int
          BY <4>1, SeqInts
        <4>3. QED
          BY <2>2, <4>2, SeqTypes
      <3>3. e \in WideConn /\ e.state = "CONNECTED"
        BY <3>1, <3>2 DEF WideConn
      <3>4. Settle(e, client)
        BY <2>5
      <3>5. QED
        BY <3>3, <3>4, SettleKeeps DEF Daemon
    <2>6. ASSUME Teardown(c, Transmit(toDev, TcpSegment(c, "ACK", n), out), TRUE, "usb")
          PROVE  Daemon' /\ toDev' \in Seq(WideSegment)
      BY <2>4, <2>6, TeardownKeeps DEF Causes
    <2>7. QED
      BY <2>1, <2>3, <2>4, <2>5, <2>6
  <1>4. QED
    BY <1>1, <1>2, <1>3 DEF ClientRead

\* device_client_process as a whole.
LEMMA DeviceClientProcessKeeps ==
    ASSUME Daemon, Pipes, Outside, DeviceClientProcess
    PROVE  Daemon' /\ toDev' \in Seq(WideSegment) /\ app' \in AppRecord
  <1>1. /\ client.state = "CONNECTED" /\ conn.state = "CONNECTED" /\ conn \in WideConn
        /\ app \in AppRecord
    BY DEF DeviceClientProcess, Daemon, Fits, Outside
  <1>2. conn.ib_size > 0 => "OUT" \in conn.events
    BY <1>1, DataAsksForOut
  <1>3. CASE Teardown(conn, toDev, TRUE, "client") /\ UNCHANGED app
    BY <1>1, <1>2, <1>3, TeardownKeeps DEF Pipes, Causes
  <1>4. CASE \E size \in 1 .. conn.ib_size, full \in BOOLEAN :
               /\ size < conn.ib_size => full
               /\ ClientRead([conn EXCEPT !.tx_ack = Add(@, size), !.ib_size = @ - size],
                             [app EXCEPT !.full = full])
    <2>1. PICK size \in 1 .. conn.ib_size, full \in BOOLEAN :
            ClientRead([conn EXCEPT !.tx_ack = Add(@, size), !.ib_size = @ - size],
                       [app EXCEPT !.full = full])
      BY <1>4
    <2> DEFINE k == Add(conn.tx_ack, size)
               left == conn.ib_size - size
               c == [conn EXCEPT !.tx_ack = k, !.ib_size = left]
               a == [app EXCEPT !.full = full]
    <2>2. left \in Nat /\ size \in Int /\ conn.ib_size > 0
      BY <1>1 DEF WideConn
    <2>3. k \in Seqno
      <3>1. conn.tx_ack \in Seqno
        BY <1>1 DEF WideConn
      <3>2. conn.tx_ack \in Int
        BY <3>1, SeqInts
      <3>3. QED
        BY <2>2, <3>2, SeqTypes
    <2>4. c \in WideConn /\ c.state = "CONNECTED" /\ c.events = conn.events
      BY <1>1, <2>2, <2>3 DEF WideConn
    <2>5. a \in AppRecord /\ a.buf = app.buf
      BY <1>1 DEF AppRecord
    <2>6. ClientRead(c, a)
      BY <2>1
    <2>7. QED
      BY <1>1, <1>2, <2>2, <2>4, <2>5, <2>6, ClientReadKeeps
  <1>5. CASE ClientRead(conn, app)
    BY <1>1, <1>2, <1>5, ClientReadKeeps
  <1>6. QED
    BY <1>3, <1>4, <1>5 DEF DeviceClientProcess

\* A client whose Connect is in progress: it leaves, or its result goes out.
LEMMA ConnectingKeeps ==
    ASSUME Daemon, Pipes, Outside, ClientProcessConnecting
    PROVE  Daemon' /\ toDev' \in Seq(WideSegment) /\ app' \in AppRecord
  <1>t. conn \in WideConn /\ client \in ClientRecord /\ app \in AppRecord
    BY DEF Daemon, Outside
  <1>1. CASE AbortConnect /\ UNCHANGED app
    <2>1. PICK out \in Outcomes(0) :
            /\ toDev' = Transmit(toDev, TcpSegment(conn, "RST", 0), out)
            /\ conn' = FreedConnection
            /\ client' = [client EXCEPT !.state = "CLOSED", !.events = {}, !.ob_size = 0]
            /\ fin' = [cause |-> "aborted", client |-> client.state,
                       lost |-> conn.ib_size, stalled |-> FALSE]
      BY <1>1 DEF AbortConnect
    <2>2. toDev' \in Seq(WideSegment)
      <3>1. TcpSegment(conn, "RST", 0) \in WideSegment
        BY <1>t, SegmentTypes DEF Flags
      <3>2. QED
        BY <2>1, <3>1, TransmitTypes DEF Pipes
    <2>3. client' \in ClientRecord /\ client'.state = "CLOSED"
      <3>1. client' = [client EXCEPT !.state = "CLOSED", !.events = {}, !.ob_size = 0]
        BY <2>1
      <3>2. 0 \in 0 .. ReplySize
        BY DEF ReplySize
      <3>3. QED
        BY <1>t, <3>1, <3>2 DEF ClientRecord, ClientStates
    <2>4. fin' \in FinRecord /\ Flushed(fin')
      <3>1. conn.ib_size \in Nat /\ client.state \in ClientStates /\ "aborted" \in Causes
        BY <1>t DEF WideConn, ClientRecord, Causes
      <3>2. fin' \in FinRecord /\ fin'.cause = "aborted"
        BY <2>1, <3>1 DEF FinRecord
      <3>3. QED
        BY <3>2 DEF Flushed
    <2>5. Fits(conn', client')
      BY <2>1, <2>3, FreedFacts DEF Fits
    <2>6. QED
      BY <1>1, <1>t, <2>1, <2>2, <2>3, <2>4, <2>5, FreedFacts DEF Daemon
  <1>2. CASE client.state = "CONNECTING2" /\ OutputBufferProcess /\ UNCHANGED <<conn, toDev, fin>>
    <2>1. PICK sent \in 1 .. client.ob_size :
            /\ client' = IF sent < client.ob_size THEN [client EXCEPT !.ob_size = @ - sent]
                         ELSE [client EXCEPT !.ob_size = 0, !.state = "CONNECTED",
                                             !.events = client.devents]
            /\ app' = [app EXCEPT !.full = sent < client.ob_size]
      BY <1>2 DEF OutputBufferProcess
    <2>2. app' \in AppRecord
      <3>1. (sent < client.ob_size) \in BOOLEAN
        OBVIOUS
      <3>2. QED
        BY <1>t, <2>1, <3>1 DEF AppRecord
    <2>3. client.ob_size - sent \in 0 .. ReplySize /\ 0 \in 0 .. ReplySize
      BY <1>t, <2>1 DEF ClientRecord, ReplySize
    <2>4. /\ client' \in ClientRecord /\ client'.state \in {"CONNECTING2", "CONNECTED"}
          /\ client'.devents = client.devents
          /\ client'.state = "CONNECTED" => client'.events = client.devents
      <3>1. CASE sent < client.ob_size
        <4>1. client' = [client EXCEPT !.ob_size = client.ob_size - sent]
          BY <2>1, <3>1
        <4>2. QED
          BY <1>2, <1>t, <2>3, <4>1 DEF ClientRecord
      <3>2. CASE ~(sent < client.ob_size)
        <4>1. client' = [client EXCEPT !.ob_size = 0, !.state = "CONNECTED",
                                       !.events = client.devents]
          BY <2>1, <3>2
        <4>2. client.devents \in SUBSET Events
          BY <1>t DEF ClientRecord
        <4>3. QED
          BY <1>t, <2>3, <4>1, <4>2 DEF ClientRecord, ClientStates
      <3>3. QED
        BY <3>1, <3>2
    <2>5. Fits(conn, client')
      BY <1>2, <2>4 DEF Daemon, Fits
    <2>6. QED
      BY <1>2, <2>2, <2>4, <2>5 DEF Daemon, Pipes
  <1>3. QED
    BY <1>1, <1>2 DEF ClientProcessConnecting

\* client_process as a whole.
LEMMA ClientProcessKeeps ==
    ASSUME Inv, ClientProcess PROVE Inv'
  <1>1. Daemon' /\ toDev' \in Seq(WideSegment) /\ app' \in AppRecord
    <2>1. CASE UNCHANGED <<conn, client, toDev, app, fin>>
      BY <2>1 DEF Inv, Daemon, Pipes, Outside
    <2>2. QED
      BY <2>1, ConnectingKeeps, DeviceClientProcessKeeps DEF ClientProcess, Inv
  <1>2. QED
    BY <1>1 DEF ClientProcess, Inv, Pipes, Outside

-----------------------------------------------------------------------------
(* The other handlers, time, and the world outside.                         *)

\* device_start_connect: a connection in its handshake, or an answer at once.
LEMMA StartConnectKeeps ==
    ASSUME Inv, StartConnect PROVE Inv'
  <1>t. /\ conn \in WideConn /\ client \in ClientRecord /\ fin \in FinRecord
        /\ conn.state = "NONE"
        /\ client.state \notin {"CONNECTING1", "CONNECTING2", "CONNECTED"}
    BY DEF Inv, Daemon, Fits, StartConnect
  <1>1. PICK out \in Outcomes(0) :
          /\ toDev' = Transmit(toDev, TcpSegment(NewConnection, "SYN", 0), out)
          /\ \/ /\ conn' = Acked(NewConnection)
                /\ client' = [client EXCEPT !.state = "CONNECTING1"]
                /\ UNCHANGED fin
             \/ /\ conn' = FreedConnection
                /\ client' = [client EXCEPT !.events = @ \cup {"OUT"}]
                /\ fin' = [fin EXCEPT !.cause = "syn"]
    BY DEF StartConnect
  <1>2. toDev' \in Seq(WideSegment)
    <2>1. TcpSegment(NewConnection, "SYN", 0) \in WideSegment
      BY FreedFacts, SegmentTypes DEF Flags
    <2>2. QED
      BY <1>1, <2>1, TransmitTypes DEF Inv, Pipes
  <1>3. Daemon'
    <2>1. CASE /\ conn' = Acked(NewConnection)
               /\ client' = [client EXCEPT !.state = "CONNECTING1"]
               /\ UNCHANGED fin
      <3>1. conn' \in WideConn /\ conn'.state = "CONNECTING" /\ conn'.ib_size = 0
        BY <2>1, FreedFacts, AckedFacts
      <3>2. client' \in ClientRecord /\ client'.state = "CONNECTING1"
        BY <1>t, <2>1 DEF ClientRecord, ClientStates
      <3>3. Fits(conn', client')
        BY <3>1, <3>2 DEF Fits
      <3>4. QED
        BY <2>1, <3>1, <3>2, <3>3 DEF Daemon, Inv
    <2>2. CASE /\ conn' = FreedConnection
               /\ client' = [client EXCEPT !.events = @ \cup {"OUT"}]
               /\ fin' = [fin EXCEPT !.cause = "syn"]
      <3>1. client.events \cup {"OUT"} \in SUBSET Events
        BY <1>t DEF ClientRecord, Events
      <3>2. client' \in ClientRecord /\ client'.state = client.state
        BY <1>t, <2>2, <3>1 DEF ClientRecord
      <3>3. fin' \in FinRecord /\ fin'.cause = "syn"
        BY <1>t, <2>2 DEF FinRecord, Causes
      <3>4. Fits(conn', client') /\ Flushed(fin')
        BY <1>t, <2>2, <3>2, <3>3, FreedFacts DEF Fits, Flushed
      <3>5. QED
        BY <2>2, <3>2, <3>3, <3>4, FreedFacts DEF Daemon
    <2>3. QED
      BY <1>1, <2>1, <2>2
  <1>4. QED
    BY <1>2, <1>3 DEF StartConnect, Inv, Pipes, Outside, envVars

\* device_check_timeouts sends the delayed ACK.
LEMMA CheckTimeoutsKeeps ==
    ASSUME Inv, CheckTimeouts PROVE Inv'
  <1>1. /\ conn \in WideConn /\ conn.state = "CONNECTED"
        /\ client.state \in {"CONNECTING2", "CONNECTED"}
    BY DEF Inv, Daemon, Fits, CheckTimeouts
  <1>2. conn.ib_size > 0 => "OUT" \in conn.events
    BY <1>1, DataAsksForOut DEF Inv
  <1>3. PICK out \in Outcomes(0) :
          \/ /\ toDev' = Transmit(toDev, TcpSegment(conn, "ACK", 0), out)
             /\ Settle(Acked(conn), client)
          \/ Teardown(conn, Transmit(toDev, TcpSegment(conn, "ACK", 0), out), TRUE, "usb")
    BY DEF CheckTimeouts
  <1>4. Transmit(toDev, TcpSegment(conn, "ACK", 0), out) \in Seq(WideSegment)
    <2>1. TcpSegment(conn, "ACK", 0) \in WideSegment
      BY <1>1, SegmentTypes DEF Flags
    <2>2. QED
      BY <2>1, TransmitTypes DEF Inv, Pipes
  <1>5. ASSUME Settle(Acked(conn), client) PROVE Daemon'
    BY <1>1, <1>5, AckedFacts, SettleKeeps DEF Inv, Daemon
  <1>6. ASSUME Teardown(conn, Transmit(toDev, TcpSegment(conn, "ACK", 0), out), TRUE, "usb")
        PROVE  Daemon' /\ toDev' \in Seq(WideSegment)
    BY <1>1, <1>2, <1>4, <1>6, TeardownKeeps DEF Inv, Causes
  <1>7. Daemon' /\ toDev' \in Seq(WideSegment)
    BY <1>3, <1>4, <1>5, <1>6
  <1>8. QED
    BY <1>7 DEF CheckTimeouts, Inv, Pipes, Outside, envVars

\* device_remove tears the connection down without an RST.
LEMMA DeviceRemoveKeeps ==
    ASSUME Inv, DeviceRemove PROVE Inv'
  <1>1. Daemon' /\ toDev' \in Seq(WideSegment)
    <2>1. CASE conn.state \in {"CONNECTING", "CONNECTED"} /\ Teardown(conn, <<>>, FALSE, "removed")
      <3>1. conn.state = "CONNECTED" /\ conn.ib_size > 0 => "OUT" \in conn.events
        BY DataAsksForOut DEF Inv
      <3>2. conn \in WideConn /\ <<>> \in Seq(WideSegment) /\ "removed" \in Causes
        BY DEF Inv, Daemon, Causes
      <3>3. QED
        BY <2>1, <3>1, <3>2, TeardownKeeps DEF Inv
    <2>2. CASE toDev' = <<>> /\ UNCHANGED <<conn, client, fin>>
      BY <2>2 DEF Inv, Daemon
    <2>3. QED
      BY <2>1, <2>2 DEF DeviceRemove
  <1>2. peer' \in WidePeer
    BY DEF DeviceRemove, Inv, Outside, WidePeer
  <1>3. QED
    BY <1>1, <1>2 DEF DeviceRemove, Inv, Pipes, Outside

\* Polling, time and the client's process leave the daemon's state alone.
LEMMA QuietKeeps ==
    ASSUME Inv, Poll \/ Tick \/ App PROVE Inv'
  <1>1. CASE Poll
    BY <1>1 DEF Poll, Inv, Daemon, Pipes, Outside, envVars, Ready, ClientRecord
  <1>2. CASE Tick
    <2> DEFINE c == [conn EXCEPT !.ack_due = TRUE]
    <2>1. conn \in WideConn
      BY DEF Inv, Daemon
    <2>2. /\ c \in WideConn /\ c.state = conn.state /\ c.ib_size = conn.ib_size
          /\ c.tx_seq = conn.tx_seq /\ c.rx_ack = conn.rx_ack /\ c.rx_win = conn.rx_win
          /\ c.tx_acked = conn.tx_acked /\ c.tx_ack = conn.tx_ack
          /\ c.sendable = conn.sendable /\ c.events = conn.events
          /\ c.ack_pending = conn.ack_pending
      BY <2>1 DEF WideConn
    <2>3. Sendable(c) = Sendable(conn)
      BY <2>2 DEF Sendable
    <2>4. Fresh(conn) => Fresh(c)
      BY <2>2, <2>3 DEF Fresh, Mask
    <2>5. Fits(c, client)
      BY <2>2, <2>4 DEF Inv, Daemon, Fits
    <2>6. QED
      BY <1>2, <2>2, <2>5 DEF Tick, Inv, Daemon, Pipes, Outside, envVars
  <1>3. CASE App
    <2>1. app' \in AppRecord
      <3>1. app \in AppRecord
        BY DEF Inv, Outside
      <3>2. CASE AppWrite
        <4>1. app.buf + 1 \in 0 .. AppCap
          BY <3>1, <3>2, SizesAssumption DEF AppWrite, AppRecord
        <4>2. QED
          BY <3>1, <3>2, <4>1 DEF AppWrite, AppRecord
      <3>3. CASE AppDrain \/ AppClose
        BY <3>1, <3>3 DEF AppDrain, AppClose, AppRecord
      <3>4. QED
        BY <1>3, <3>2, <3>3 DEF App
    <2>2. QED
      BY <1>3, <2>1 DEF App, Inv, Daemon, Pipes, Outside
  <1>4. QED
    BY <1>1, <1>2, <1>3

\* The device's endpoint builds segments out of its own state.
LEMMA PeerSegmentTypes ==
    ASSUME NEW p \in WidePeer, NEW f \in Flags, NEW n \in Nat
    PROVE  PeerSegment(p, f, n) \in WideSegment
  <1>1. (DevWin - p.buf) \div WinUnit \in Int
    BY SizesAssumption DEF WidePeer
  <1>2. QED
    BY <1>1 DEF PeerSegment, WideSegment, WidePeer

\* What the endpoint does with a segment keeps its own types.
LEMMA PeerInputKeeps ==
    ASSUME Inv, PeerInput PROVE Inv'
  <1> DEFINE seg == Head(toDev)
  <1>1. /\ peer \in WidePeer /\ seg \in WideSegment
        /\ toDev' \in Seq(WideSegment) /\ fromDev \in Seq(WideSegment)
    BY DEF Inv, Pipes, Outside, PeerInput
  <1>2. seg.win * WinUnit \in Int /\ seg.ack \in Seqno /\ seg.seq \in Seqno /\ seg.len \in Nat
    BY <1>1, SizesAssumption DEF WideSegment
  <1>3. Add(seg.seq, 1) \in Seqno /\ Add(peer.rcv, seg.len) \in Seqno /\ Add(peer.snd, 1) \in Seqno
    <2>1. seg.seq \in Seqno /\ peer.rcv \in Seqno /\ peer.snd \in Seqno
      BY <1>1, <1>2 DEF WidePeer
    <2>2. seg.seq \in Int /\ peer.rcv \in Int /\ peer.snd \in Int /\ seg.len \in Int
      <3>1. \A n \in Nat : n \in Int
        OBVIOUS
      <3>2. QED
        BY <1>2, <2>1, <3>1, SeqInts
    <2>3. QED
      BY <2>2, SeqTypes
  <1>4. peer' \in WidePeer /\ fromDev' \in Seq(WideSegment)
    <2>1. CASE PeerAccept(seg)
      <3> DEFINE p == [peer EXCEPT !.rcv = Add(seg.seq, 1), !.wnd = seg.win * WinUnit]
      <3>1. p \in WidePeer /\ p.snd = peer.snd
        BY <1>1, <1>2, <1>3 DEF WidePeer
      <3>2. \A f \in Flags : PeerSegment(p, f, 0) \in WideSegment
        BY <3>1, PeerSegmentTypes
      <3>3. PICK f \in Flags : fromDev' = Append(fromDev, PeerSegment(p, f, 0))
        BY <2>1 DEF PeerAccept, Flags
      <3>4. \/ peer' = [p EXCEPT !.state = "SYNRCVD", !.snd = Add(p.snd, 1)]
            \/ peer' = [p EXCEPT !.state = "CLOSED"]
        BY <2>1 DEF PeerAccept
      <3>5. peer' \in WidePeer
        BY <1>3, <3>1, <3>4 DEF WidePeer
      <3>6. QED
        BY <1>1, <3>2, <3>3, <3>5
    <2>2. CASE PeerTakes(seg)
      <3>1. PICK b \in BOOLEAN : b = (peer.owes \/ seg.len > 0)
        OBVIOUS
      <3>2. peer' = [peer EXCEPT !.state = "EST", !.una = seg.ack, !.wnd = seg.win * WinUnit,
                                 !.rcv = Add(peer.rcv, seg.len), !.buf = peer.buf + seg.len,
                                 !.owes = b]
        BY <2>2, <3>1 DEF PeerTakes
      <3>3. peer.buf + seg.len \in Int
        BY <1>1, <1>2 DEF WidePeer
      <3>4. peer' \in WidePeer
        BY <1>1, <1>2, <1>3, <3>2, <3>3 DEF WidePeer
      <3>5. QED
        BY <1>1, <2>2, <3>4 DEF PeerTakes
    <2>3. CASE PeerIsReset(seg)
      BY <1>1, <2>3 DEF PeerIsReset, WidePeer
    <2>4. QED
      BY <2>1, <2>2, <2>3 DEF PeerInput
  <1>5. Daemon' /\ app' \in AppRecord /\ polled' \subseteq Events
    BY DEF Inv, Daemon, Outside, PeerInput, PeerUnchanged
  <1>6. QED
    BY <1>1, <1>4, <1>5 DEF Inv, Pipes, Outside

\* What the endpoint does of its own accord keeps its types.
LEMMA PeerMovesKeep ==
    ASSUME Inv, PeerSend \/ PeerAck \/ PeerConsume \/ PeerClose PROVE Inv'
  <1>1. peer \in WidePeer /\ fromDev \in Seq(WideSegment) /\ toDev \in Seq(WideSegment)
    BY DEF Inv, Pipes, Outside
  <1>2. peer' \in WidePeer /\ fromDev' \in Seq(WideSegment)
    <2>1. CASE PeerSend
      <3>1. PICK n \in 1 .. peer.wnd - Outstanding :
              /\ fromDev' = Append(fromDev, PeerSegment(peer, "ACK", n))
              /\ peer' = [peer EXCEPT !.snd = Add(peer.snd, n), !.owes = FALSE]
        BY <2>1 DEF PeerSend
      <3>2. n \in Nat
        <4>1. peer.snd \in Seqno /\ peer.una \in Seqno /\ peer.wnd \in Int
          BY <1>1 DEF WidePeer
        <4>2. Outstanding \in Int
          BY <4>1, SeqInts, SeqTypes DEF Outstanding
        <4>3. QED
          BY <3>1, <4>1, <4>2
      <3>3. Add(peer.snd, n) \in Seqno
        <4>1. peer.snd \in Seqno
          BY <1>1 DEF WidePeer
        <4>2. peer.snd \in Int
          BY <4>1, SeqInts
        <4>3. QED
          BY <3>2, <4>2, SeqTypes
      <3>4. PeerSegment(peer, "ACK", n) \in WideSegment
        BY <1>1, <3>2, PeerSegmentTypes DEF Flags
      <3>5. peer' \in WidePeer
        BY <1>1, <3>1, <3>3 DEF WidePeer
      <3>6. QED
        BY <1>1, <3>1, <3>4, <3>5
    <2>2. CASE PeerAck
      <3>1. PeerSegment(peer, "ACK", 0) \in WideSegment
        BY <1>1, PeerSegmentTypes DEF Flags
      <3>2. /\ fromDev' = Append(fromDev, PeerSegment(peer, "ACK", 0))
            /\ peer' = [peer EXCEPT !.owes = FALSE]
        BY <2>2 DEF PeerAck
      <3>3. peer' \in WidePeer
        BY <1>1, <3>2 DEF WidePeer
      <3>4. QED
        BY <1>1, <3>1, <3>2, <3>3
    <2>3. CASE PeerConsume
      <3>1. PICK n \in 1 .. peer.buf : peer' = [peer EXCEPT !.buf = peer.buf - n, !.owes = TRUE]
        BY <2>3 DEF PeerConsume
      <3>2. peer.buf - n \in Int
        BY <1>1, <3>1 DEF WidePeer
      <3>3. QED
        BY <1>1, <2>3, <3>1, <3>2 DEF PeerConsume, WidePeer
    <2>4. CASE PeerClose
      <3>1. \A f \in {"RST", "FIN"} : PeerSegment(peer, f, 0) \in WideSegment
        BY <1>1, PeerSegmentTypes DEF Flags
      <3>2. PICK f \in {"RST", "FIN"} : fromDev' = Append(fromDev, PeerSegment(peer, f, 0))
        BY <2>4 DEF PeerClose
      <3>3. peer' = [peer EXCEPT !.state = "CLOSED"]
        BY <2>4 DEF PeerClose
      <3>4. peer' \in WidePeer
        BY <1>1, <3>3 DEF WidePeer
      <3>5. QED
        BY <1>1, <3>1, <3>2, <3>4
    <2>5. QED
      BY <2>1, <2>2, <2>3, <2>4
  <1>3. /\ Daemon' /\ app' \in AppRecord /\ polled' \subseteq Events
        /\ toDev' \in Seq(WideSegment)
    BY <1>1 DEF Inv, Daemon, Outside, PeerSend, PeerAck, PeerConsume, PeerClose, PeerUnchanged
  <1>4. QED
    BY <1>2, <1>3 DEF Inv, Pipes, Outside

-----------------------------------------------------------------------------
(* The invariant and what follows from it.                                  *)

\* The invariant holds before any Connect.
LEMMA InvInit == Init => Inv
  <1> SUFFICES ASSUME Init PROVE Inv
    OBVIOUS
  <1>1. conn \in WideConn /\ conn.state = "NONE"
    BY FreedFacts DEF Init, WideConn, ConnStates
  <1>2. client \in ClientRecord /\ client.state = "COMMAND"
    BY DEF Init, ClientRecord, ClientStates, Events, ReplySize
  <1>3. fin \in FinRecord /\ Flushed(fin)
    BY DEF Init, FinRecord, Flushed, Causes, ClientStates
  <1>4. Outside
    BY SeqInts, SizesAssumption DEF Init, Outside, AppRecord, WidePeer
  <1>5. Pipes
    BY DEF Init, Pipes
  <1>6. Fits(conn, client)
    BY <1>1, <1>2 DEF Fits
  <1>7. QED
    BY <1>1, <1>2, <1>3, <1>4, <1>5, <1>6 DEF Inv, Daemon

\* Every step keeps it.
LEMMA InvNext == Inv /\ [Next]_vars => Inv'
  <1>1. ASSUME Inv, vars' = vars PROVE Inv'
    BY <1>1 DEF vars, Inv, Daemon, Pipes, Outside
  <1>2. ASSUME Inv, Next PROVE Inv'
    BY <1>2, StartConnectKeeps, DeviceTcpInputKeeps, ClientProcessKeeps, CheckTimeoutsKeeps,
       DeviceRemoveKeeps, QuietKeeps, PeerInputKeeps, PeerMovesKeep DEF Next, Prompt
  <1>3. QED
    BY <1>1, <1>2

\* The invariant gives the three properties.
LEMMA InvImplies == Inv => StatesAgree /\ PollMaskFresh /\ FlushedUnlessClientFails
  <1> SUFFICES ASSUME Inv PROVE StatesAgree /\ PollMaskFresh /\ FlushedUnlessClientFails
    OBVIOUS
  <1>1. StatesAgree
    BY DEF Inv, Daemon, Fits, StatesAgree
  <1>2. FlushedUnlessClientFails
    BY DEF Inv, Daemon, Flushed, FlushedUnlessClientFails
  <1>3. ASSUME conn.state = "CONNECTED", client.state = "CONNECTED"
        PROVE  /\ "OUT" \in client.events <=> conn.ib_size > 0
               /\ "IN" \in client.events <=> Sendable(conn) > 0
    BY <1>3 DEF Inv, Daemon, Fits, Fresh, Mask
  <1>4. PollMaskFresh
    BY <1>3 DEF Inv, Daemon, Fits, Fresh, PollMaskFresh
  <1>5. QED
    BY <1>1, <1>2, <1>4

\* For every size of windows, buffers and sequence space, whatever the device,
\* the client, time and failing USB transfers do: the client's state in
\* client.c and the connection's in device.c always agree.
THEOREM ClientAndConnectionAgree == Spec => []StatesAgree
  BY InvInit, InvNext, InvImplies, PTL DEF Spec

\* No handler of device.c ends with a stale event mask or ACK timer.
THEOREM NoWakeupIsLost == Spec => []PollMaskFresh
  BY InvInit, InvNext, InvImplies, PTL DEF Spec

\* connection_teardown delivers what was received to a CONNECTED client that
\* keeps accepting it.
THEOREM TeardownFlushes == Spec => []FlushedUnlessClientFails
  BY InvInit, InvNext, InvImplies, PTL DEF Spec

-----------------------------------------------------------------------------
(* Flow control.  The device has never sent more than the daemon's buffer   *)
(* takes, and the connection and the pipes are as MuxTcpFlow describes.     *)
Flow == fin.cause # "overflow" /\ Flows(conn, peer, toDev, fromDev, plugged)

(* The operators of MuxTcp in these terms.                                  *)

\* Rounding to units of the window field rounds down.
LEMMA WindowUnits ==
    ASSUME NEW w \in Int PROVE (w \div WinUnit) * WinUnit <= w
BY SizesAssumption

\* Room is counted in a whole number of units.
LEMMA UnitsOfRoom ==
    ASSUME NEW w \in Nat PROVE w \div WinUnit \in Nat
BY SizesAssumption

\* What send_tcp puts in the header.
LEMMA TcpSegmentFields ==
    ASSUME NEW c \in WideConn, NEW f \in Flags, NEW n \in Nat
    PROVE  /\ TcpSegment(c, f, n) \in WideSegment
           /\ TcpSegment(c, f, n).flags = f /\ TcpSegment(c, f, n).seq = c.tx_seq
           /\ TcpSegment(c, f, n).ack = c.tx_ack /\ TcpSegment(c, f, n).len = n
           /\ TcpSegment(c, f, n).win * WinUnit <= TxWin /\ TcpSegment(c, f, n) \in Segment
<1>1. (TxWin \div WinUnit) * WinUnit <= TxWin
  BY WindowUnits, SizesAssumption
<1>2. TxWin \div WinUnit \in Nat
  BY SizesAssumption, UnitsOfRoom
<1> QED
  BY <1>1, <1>2, SegmentTypes DEF TcpSegment, Segment, WideConn

\* What the device's endpoint puts in the header.
LEMMA PeerSegmentFields ==
    ASSUME NEW p \in WidePeer, NEW f \in Flags, NEW n \in Nat
    PROVE  /\ PeerSegment(p, f, n) \in WideSegment
           /\ PeerSegment(p, f, n).flags = f /\ PeerSegment(p, f, n).seq = p.snd
           /\ PeerSegment(p, f, n).ack = p.rcv /\ PeerSegment(p, f, n).len = n
           /\ PeerSegment(p, f, n).win * WinUnit <= DevWin - p.buf
           /\ p.buf <= DevWin => PeerSegment(p, f, n) \in Segment
<1>1. DevWin - p.buf \in Int
  BY SizesAssumption DEF WidePeer
<1>2. ((DevWin - p.buf) \div WinUnit) * WinUnit <= DevWin - p.buf
  BY <1>1, WindowUnits
<1>3. ASSUME p.buf <= DevWin PROVE PeerSegment(p, f, n) \in Segment
  <2>1. DevWin - p.buf \in Nat
    BY <1>3, SizesAssumption DEF WidePeer
  <2>2. (DevWin - p.buf) \div WinUnit \in Nat
    BY <2>1, UnitsOfRoom
  <2> QED
    BY <2>2 DEF PeerSegment, Segment, WidePeer
<1> QED
  BY <1>2, <1>3, PeerSegmentTypes DEF PeerSegment

\* send_tcp and update_connection leave numbers, buffer and window alone.
LEMMA NumbersKept ==
    ASSUME NEW c \in WideConn, NEW u, u = Acked(c) \/ u = UpdateConnection(c)
    PROVE  /\ u \in WideConn
           /\ u.state = c.state /\ u.tx_seq = c.tx_seq /\ u.tx_ack = c.tx_ack
           /\ u.ib_size = c.ib_size /\ u.rx_ack = c.rx_ack /\ u.rx_win = c.rx_win
<1>1. CASE u = Acked(c)
  BY <1>1 DEF Acked, WideConn
<1>2. CASE u = UpdateConnection(c)
  <2>1. u \in WideConn
    BY <1>2, UpdateFacts
  <2> QED
    BY <1>2, <2>1 DEF UpdateConnection, WideConn
<1> QED
  BY <1>1, <1>2

\* A segment without data leaves or is lost, and a lost one leaves no trace.
LEMMA OutcomesOfNothing ==
    ASSUME NEW out \in Outcomes(0), NEW q, NEW s
    PROVE  /\ out \in {"ok", "lost"}
           /\ out = "ok" => Transmit(q, s, out) = Append(q, s)
           /\ out # "ok" => Transmit(q, s, out) = q
BY DEF Outcomes, Transmit

\* What update_connection allows to be sent keeps within the device's window.
LEMMA SendableFits ==
    ASSUME NEW c \in WideConn, NEW n \in Nat, n > 0, n <= Sendable(c)
    PROVE  Sub(c.tx_seq, c.rx_ack) + n <= c.rx_win
<1> DEFINE sent == Sub(c.tx_seq, c.rx_ack)
           w == c.rx_win
<1>1. sent \in Int /\ w \in Int /\ OutbufSize \in Int /\ MaxPayload \in Int
  <2>1. c.tx_seq \in Seqno /\ c.rx_ack \in Seqno /\ w \in Int
    BY DEF WideConn
  <2>2. sent \in Nat
    BY <2>1, SubCases
  <2> QED
    BY <2>1, <2>2, SizesAssumption
<1>2. Sendable(c) = Least(Least(IF w > sent THEN w - sent ELSE 0, OutbufSize), MaxPayload)
  BY DEF Sendable
<1> HIDE DEF sent, w
<1>3. sent + n <= w
  BY <1>1, <1>2 DEF Least
<1> QED
  BY <1>3 DEF sent, w

\* connection_teardown keeps the flow.
LEMMA TeardownFlows ==
    ASSUME NEW c \in WideConn, NEW q \in Seq(WideSegment), NEW alive, NEW cause,
           Teardown(c, q, alive, cause), cause # "overflow",
           NEW b \in WideConn, b.state \in {"NONE", "CONNECTING", "CONNECTED", "FREED"},
           NEW p \in WidePeer, NEW f \in Seq(WideSegment), NEW on, Flows(b, p, q, f, on)
    PROVE  Flows(conn', p, toDev', f, on) /\ fin'.cause # "overflow"
<1>1. PICK out \in Outcomes(0), left \in FlushLeaves(c) :
        /\ toDev' = IF alive /\ c.state \notin {"DYING", "REFUSED"}
                    THEN Transmit(q, TcpSegment(c, "RST", 0), out) ELSE q
        /\ conn' = FreedConnection
        /\ fin'.cause = cause
  BY DEF Teardown
<1>2. Flows(FreedConnection, p, q, f, on)
  BY FreedFacts, FlowsEnds
<1>3. TcpSegment(c, "RST", 0) \in WideSegment /\ TcpSegment(c, "RST", 0).flags = "RST"
  BY TcpSegmentFields DEF Flags
<1>4. Flows(FreedConnection, p, Append(q, TcpSegment(c, "RST", 0)), f, on)
  BY <1>2, <1>3, FreedFacts, FlowsResets
<1>5. toDev' = q \/ toDev' = Append(q, TcpSegment(c, "RST", 0))
  BY <1>1, OutcomesOfNothing
<1> QED
  BY <1>1, <1>2, <1>4, <1>5

\* The freed connection keeps the flow when the segment that ended it is taken.
LEMMA EndsAtHead ==
    ASSUME NEW c \in WideConn, NEW p \in WidePeer, NEW t \in Seq(WideSegment),
           NEW f \in Seq(WideSegment), NEW on, Flows(c, p, t, f, on), f # <<>>,
           c.state \in {"NONE", "CONNECTING", "CONNECTED", "FREED"}
    PROVE  Flows(FreedConnection, p, t, Tail(f), on)
<1>1. Flows(FreedConnection, p, t, f, on)
  BY FreedFacts, FlowsEnds
<1> QED
  BY <1>1, FreedFacts, FlowsIgnores

-----------------------------------------------------------------------------
(* The steps of the daemon.  What a handler that does not end in teardown   *)
(* leaves: a connection c with these numbers, and an ACK s sent from it     *)
(* that starts at number seq and carries n bytes.                           *)

Connected(c, seq, ack, size, rack, rwin) ==
    /\ c \in WideConn /\ c.state = "CONNECTED" /\ c.tx_seq = seq /\ c.tx_ack = ack
    /\ c.ib_size = size /\ c.rx_ack = rack /\ c.rx_win = rwin

AckOf(s, c, seq, n) ==
    /\ s \in Segment /\ s \in WideSegment /\ s.flags = "ACK" /\ s.seq = seq
    /\ s.ack = c.tx_ack /\ s.len = n /\ s.win * WinUnit <= TxWin

\* The parts of the invariants the steps start from.
LEMMA Parts ==
    ASSUME Inv, Flow
    PROVE  /\ conn \in WideConn /\ peer \in WidePeer
           /\ toDev \in Seq(WideSegment) /\ fromDev \in Seq(WideSegment)
           /\ conn.state \in {"NONE", "CONNECTING", "CONNECTED", "FREED"}
           /\ conn.state = "CONNECTED" => conn.sendable = Sendable(conn)
           /\ conn.state = "CONNECTING" => conn.ib_size = 0
           /\ Flows(conn, peer, toDev, fromDev, plugged)
           /\ fin.cause # "overflow"
BY DEF Inv, Daemon, Pipes, Outside, Fits, Fresh, Flow

\* A segment for a connection that is gone.
LEMMA NoConnectionFlows ==
    ASSUME Inv, Flow, fromDev # <<>>, TcpInputNoConnection(Head(fromDev))
    PROVE  Flows(conn', peer, toDev', Tail(fromDev), plugged) /\ fin'.cause # "overflow"
<1> DEFINE seg == Head(fromDev)
           s == AnonRst(seg)
<1>1. conn.state = "FREED" /\ conn' = conn /\ fin' = fin
  BY DEF TcpInputNoConnection
<1>2. /\ Tail(fromDev) \in Seq(WideSegment) /\ seg \in WideSegment
      /\ Flows(conn, peer, toDev, Tail(fromDev), plugged)
  BY <1>1, Parts, TailFacts, FlowsIgnores
<1>3. s \in WideSegment /\ s.flags = "RST"
  BY <1>2, AnonRstTypes DEF AnonRst
<1>4. Flows(conn, peer, Append(toDev, s), Tail(fromDev), plugged)
  <2> HIDE DEF s
  <2> QED
    BY <1>1, <1>2, <1>3, Parts, FlowsResets
<1>5. toDev' = toDev \/ toDev' = Append(toDev, s)
  <2>1. toDev' = toDev \/ \E out \in Outcomes(0) : toDev' = Transmit(toDev, s, out)
    BY DEF TcpInputNoConnection
  <2> QED
    BY <2>1 DEF Transmit
<1> QED
  BY <1>1, <1>2, <1>4, <1>5, Parts

\* A segment that refuses or resets the connection tears it down, ...
LEMMA EndedEffects ==
    ASSUME Inv, Flow, fromDev # <<>>, TcpInputRefused(Head(fromDev)) \/ TcpInputReset(Head(fromDev))
    PROVE  \E c \in WideConn, cause \in {"refused", "reset"} : Teardown(c, toDev, TRUE, cause)
<1> DEFINE seg == Head(fromDev)
<1>1. seg \in WideSegment
  BY Parts, TailFacts
<1>2. \A st \in ConnStates : [Header(seg) EXCEPT !.state = st] \in WideConn
  <2>1. Header(seg) \in WideConn
    BY <1>1, HeaderFacts DEF Inv
  <2> QED
    BY <2>1 DEF WideConn
<1>3. PICK st \in ConnStates, cause \in {"refused", "reset"} :
        Teardown([Header(seg) EXCEPT !.state = st], toDev, TRUE, cause)
  <2>1. Header(seg).state \in ConnStates
    BY <1>1, HeaderFacts DEF Inv, WideConn
  <2> QED
    BY <2>1 DEF TcpInputRefused, TcpInputReset, ConnStates
<1> QED
  BY <1>2, <1>3

\* ... and keeps the flow.
LEMMA EndedFlows ==
    ASSUME Inv, Flow, fromDev # <<>>, TcpInputRefused(Head(fromDev)) \/ TcpInputReset(Head(fromDev))
    PROVE  Flows(conn', peer, toDev', Tail(fromDev), plugged) /\ fin'.cause # "overflow"
<1>1. PICK c \in WideConn, cause \in {"refused", "reset"} : Teardown(c, toDev, TRUE, cause)
  BY EndedEffects
<1>2. Tail(fromDev) \in Seq(WideSegment)
  BY Parts, TailFacts
<1>3. Flows(FreedConnection, peer, toDev, Tail(fromDev), plugged)
  BY Parts, EndsAtHead
<1> QED
  BY <1>1, <1>2, <1>3, Parts, FreedFacts, TeardownFlows

\* The SYNACK: what it does to the connection, ...
LEMMA EstablishedEffects ==
    ASSUME Inv, Flow, fromDev # <<>>, TcpInputEstablished(Head(fromDev))
    PROVE  /\ conn.state = "CONNECTING" /\ Head(fromDev).flags = "SYNACK"
           /\ \/ /\ Connected(conn', Add(conn.tx_seq, 1), Add(conn.tx_ack, 1), 0,
                              Head(fromDev).ack, Head(fromDev).win * WinUnit)
                 /\ \E s : AckOf(s, conn', conn'.tx_seq, 0) /\ toDev' = Append(toDev, s)
                 /\ fin' = fin
              \/ \E c \in WideConn : Teardown(c, toDev, TRUE, "usb")
<1> DEFINE seg == Head(fromDev)
           h == Header(seg)
           c == [h EXCEPT !.tx_seq = Add(h.tx_seq, 1), !.tx_ack = Add(h.tx_ack, 1)]
           s == TcpSegment(c, "ACK", 0)
           d == [Acked(c) EXCEPT !.state = "CONNECTED"]
           u == UpdateConnection(d)
<1>0. /\ conn.state = "CONNECTING" /\ seg.flags = "SYNACK"
      /\ \E out \in Outcomes(0) :
            \/ out = "ok" /\ toDev' = Transmit(toDev, s, out) /\ conn' = u /\ fin' = fin
            \/ out # "ok" /\ Teardown(c, Transmit(toDev, s, out), TRUE, "usb")
  BY DEF TcpInputEstablished, Settle
<1>1. Tail(fromDev) \in Seq(WideSegment) /\ seg \in WideSegment
  BY Parts, TailFacts
<1>2. /\ h \in WideConn /\ h.tx_seq = conn.tx_seq /\ h.tx_ack = conn.tx_ack
      /\ h.ib_size = conn.ib_size /\ h.rx_ack = seg.ack /\ h.rx_win = seg.win * WinUnit
  <2>1. h \in WideConn /\ h.tx_seq = conn.tx_seq /\ h.tx_ack = conn.tx_ack /\ h.ib_size = conn.ib_size
    BY <1>1, HeaderFacts DEF Inv
  <2>2. conn \in WideConn
    BY Parts
  <2> QED
    BY <2>1, <2>2 DEF Header, WideConn
<1>3. /\ c \in WideConn /\ c.tx_seq = Add(conn.tx_seq, 1) /\ c.tx_ack = Add(conn.tx_ack, 1)
      /\ c.ib_size = 0 /\ c.rx_ack = seg.ack /\ c.rx_win = seg.win * WinUnit
  <2>1. h.tx_seq \in Seqno /\ h.tx_ack \in Seqno
    BY <1>2 DEF WideConn
  <2>2. Add(h.tx_seq, 1) \in Seqno /\ Add(h.tx_ack, 1) \in Seqno
    <3> HIDE DEF h
    <3>1. h.tx_seq \in Int /\ h.tx_ack \in Int
      BY <2>1, SeqInts
    <3> QED
      BY <3>1, SeqTypes
  <2>3. conn.ib_size = 0
    BY <1>0, Parts
  <2> HIDE DEF h, seg
  <2> QED
    BY <1>2, <2>2, <2>3 DEF WideConn
<1>4. /\ s \in WideSegment /\ s.flags = "ACK" /\ s.seq = c.tx_seq /\ s.ack = c.tx_ack
      /\ s.len = 0 /\ s.win * WinUnit <= TxWin /\ s \in Segment
  <2> HIDE DEF c
  <2> QED
    BY <1>3, TcpSegmentFields DEF Flags
<1>5. /\ d \in WideConn /\ d.state = "CONNECTED" /\ d.tx_seq = c.tx_seq /\ d.tx_ack = c.tx_ack
      /\ d.ib_size = c.ib_size /\ d.rx_ack = c.rx_ack /\ d.rx_win = c.rx_win
  <2> DEFINE e == Acked(c)
  <2>1. /\ e \in WideConn /\ e.tx_seq = c.tx_seq /\ e.tx_ack = c.tx_ack
        /\ e.ib_size = c.ib_size /\ e.rx_ack = c.rx_ack /\ e.rx_win = c.rx_win
    <3> HIDE DEF c
    <3> QED
      BY <1>3, NumbersKept
  <2> HIDE DEF c, e
  <2>2. [e EXCEPT !.state = "CONNECTED"] = d
    BY DEF e
  <2> QED
    BY <2>1, <2>2 DEF WideConn, ConnStates
<1>6. /\ u \in WideConn /\ u.state = "CONNECTED" /\ u.tx_seq = c.tx_seq /\ u.tx_ack = c.tx_ack
      /\ u.ib_size = c.ib_size /\ u.rx_ack = c.rx_ack /\ u.rx_win = c.rx_win
  <2> HIDE DEF c, d
  <2> QED
    BY <1>5, NumbersKept
<1> HIDE DEF seg, h, c, s, d, u
<1>7. PICK out \in Outcomes(0) :
            \/ out = "ok" /\ toDev' = Transmit(toDev, s, out) /\ conn' = u /\ fin' = fin
            \/ out # "ok" /\ Teardown(c, Transmit(toDev, s, out), TRUE, "usb")
  BY <1>0
<1>8. CASE out = "ok"
  <2>1. toDev' = Append(toDev, s) /\ conn' = u /\ fin' = fin
    BY <1>7, <1>8, OutcomesOfNothing
  <2> QED
    BY <1>0, <1>3, <1>4, <1>6, <2>1 DEF seg, Connected, AckOf
<1>9. CASE out # "ok"
  BY <1>0, <1>3, <1>7, <1>9, OutcomesOfNothing DEF seg
<1> QED
  BY <1>8, <1>9

\* ... and that it keeps the flow.
LEMMA EstablishedFlows ==
    ASSUME Inv, Flow, fromDev # <<>>, TcpInputEstablished(Head(fromDev))
    PROVE  Flows(conn', peer, toDev', Tail(fromDev), plugged) /\ fin'.cause # "overflow"
<1>1. Tail(fromDev) \in Seq(WideSegment)
  BY Parts, TailFacts
<1>2. CASE \E c \in WideConn : Teardown(c, toDev, TRUE, "usb")
  <2>1. Flows(FreedConnection, peer, toDev, Tail(fromDev), plugged)
    BY Parts, EndsAtHead
  <2> QED
    BY <1>1, <1>2, <2>1, Parts, FreedFacts, TeardownFlows
<1>3. CASE ~\E c \in WideConn : Teardown(c, toDev, TRUE, "usb")
  <2>1. /\ conn.state = "CONNECTING" /\ Head(fromDev).flags = "SYNACK" /\ fin' = fin
        /\ Connected(conn', Add(conn.tx_seq, 1), Add(conn.tx_ack, 1), 0, Head(fromDev).ack,
                     Head(fromDev).win * WinUnit)
        /\ \E s : AckOf(s, conn', conn'.tx_seq, 0) /\ toDev' = Append(toDev, s)
    BY <1>3, EstablishedEffects
  <2>2. PICK s : AckOf(s, conn', conn'.tx_seq, 0) /\ toDev' = Append(toDev, s)
    BY <2>1
  <2>3. Flows(conn', peer, Append(toDev, s), Tail(fromDev), plugged)
    BY <2>1, <2>2, Parts, FlowsEstablishes DEF Connected, AckOf
  <2> QED
    BY <2>1, <2>2, <2>3, Parts
<1> QED
  BY <1>2, <1>3

\* Data and acknowledgements: what they do to the connection, ...
LEMMA DataEffects ==
    ASSUME Inv, Flow, fromDev # <<>>, TcpInputData(Head(fromDev))
    PROVE  /\ conn.state = "CONNECTED" /\ Head(fromDev).flags = "ACK"
           /\ \/ /\ Connected(conn', conn.tx_seq, conn.tx_ack, conn.ib_size + Head(fromDev).len,
                              Head(fromDev).ack, Head(fromDev).win * WinUnit)
                 /\ \E s : AckOf(s, conn', conn'.tx_seq, 0) /\ toDev' = Append(toDev, s)
                 /\ fin' = fin
              \/ \E c \in WideConn : Teardown(c, toDev, TRUE, "usb")
<1> DEFINE seg == Head(fromDev)
           h == Header(seg)
           g == [h EXCEPT !.ib_size = h.ib_size + seg.len]
           c == UpdateConnection(g)
           s == TcpSegment(c, "ACK", 0)
           d == Acked(c)
           u == UpdateConnection(d)
<1>1. Tail(fromDev) \in Seq(WideSegment) /\ seg \in WideSegment
  BY Parts, TailFacts
<1>2. conn.state = "CONNECTED" /\ seg.flags = "ACK"
  BY DEF TcpInputData
<1>3. conn.ib_size + seg.len <= InbufSize
  BY <1>2, Parts, FlowsFits
<1>4. ~(conn.ib_size + seg.len > InbufSize)
  <2>1. conn.ib_size \in Nat /\ seg.len \in Nat /\ InbufSize \in Nat
    BY <1>1, Parts, SizesAssumption DEF WideConn, WideSegment
  <2> HIDE DEF seg
  <2> QED
    BY <1>3, <2>1
<1>5. PICK out \in Outcomes(0) :
            \/ out = "ok" /\ toDev' = Transmit(toDev, s, out) /\ conn' = u /\ fin' = fin
            \/ out # "ok" /\ Teardown(c, Transmit(toDev, s, out), TRUE, "usb")
  BY <1>4 DEF TcpInputData, Settle
<1>6. /\ h \in WideConn /\ h.state = "CONNECTED" /\ h.tx_seq = conn.tx_seq
      /\ h.tx_ack = conn.tx_ack /\ h.ib_size = conn.ib_size
      /\ h.rx_ack = seg.ack /\ h.rx_win = seg.win * WinUnit
  <2>1. /\ h \in WideConn /\ h.tx_seq = conn.tx_seq /\ h.tx_ack = conn.tx_ack
        /\ h.ib_size = conn.ib_size /\ h.state = conn.state
    BY <1>1, HeaderFacts DEF Inv
  <2>2. conn \in WideConn
    BY Parts
  <2> QED
    BY <1>2, <2>1, <2>2 DEF Header, WideConn
<1>7. /\ g \in WideConn /\ g.state = "CONNECTED" /\ g.tx_seq = conn.tx_seq
      /\ g.tx_ack = conn.tx_ack /\ g.ib_size = conn.ib_size + seg.len
      /\ g.rx_ack = seg.ack /\ g.rx_win = seg.win * WinUnit
  <2>1. h.ib_size + seg.len \in Nat
    BY <1>1, <1>6 DEF WideConn, WideSegment
  <2> HIDE DEF h, seg
  <2> QED
    BY <1>6, <2>1 DEF WideConn
<1>8. /\ c \in WideConn /\ c.state = "CONNECTED" /\ c.tx_seq = g.tx_seq
      /\ c.tx_ack = g.tx_ack /\ c.ib_size = g.ib_size
      /\ c.rx_ack = g.rx_ack /\ c.rx_win = g.rx_win
  <2> HIDE DEF g
  <2> QED
    BY <1>7, NumbersKept
<1>9. /\ d \in WideConn /\ d.state = "CONNECTED" /\ d.tx_seq = g.tx_seq
      /\ d.tx_ack = g.tx_ack /\ d.ib_size = g.ib_size
      /\ d.rx_ack = g.rx_ack /\ d.rx_win = g.rx_win
  <2> HIDE DEF g, c
  <2> QED
    BY <1>8, NumbersKept
<1>10. /\ u \in WideConn /\ u.state = "CONNECTED" /\ u.tx_seq = g.tx_seq
       /\ u.tx_ack = g.tx_ack /\ u.ib_size = g.ib_size
       /\ u.rx_ack = g.rx_ack /\ u.rx_win = g.rx_win
  <2> HIDE DEF g, c, d
  <2> QED
    BY <1>9, NumbersKept
<1>11. /\ s \in WideSegment /\ s.flags = "ACK" /\ s.seq = c.tx_seq /\ s.ack = c.tx_ack
       /\ s.len = 0 /\ s.win * WinUnit <= TxWin /\ s \in Segment
  <2> HIDE DEF g, c
  <2> QED
    BY <1>8, TcpSegmentFields DEF Flags
<1> HIDE DEF seg, h, g, c, s, d, u
<1>12. CASE out = "ok"
  <2>1. toDev' = Append(toDev, s) /\ conn' = u /\ fin' = fin
    BY <1>5, <1>12, OutcomesOfNothing
  <2> QED
    BY <1>2, <1>7, <1>8, <1>10, <1>11, <2>1 DEF seg, Connected, AckOf
<1>13. CASE out # "ok"
  BY <1>2, <1>5, <1>8, <1>13, OutcomesOfNothing DEF seg
<1> QED
  BY <1>12, <1>13

\* ... and that they keep the flow.
LEMMA DataFlows ==
    ASSUME Inv, Flow, fromDev # <<>>, TcpInputData(Head(fromDev))
    PROVE  Flows(conn', peer, toDev', Tail(fromDev), plugged) /\ fin'.cause # "overflow"
<1>1. Tail(fromDev) \in Seq(WideSegment)
  BY Parts, TailFacts
<1>2. CASE \E c \in WideConn : Teardown(c, toDev, TRUE, "usb")
  <2>1. Flows(FreedConnection, peer, toDev, Tail(fromDev), plugged)
    BY Parts, EndsAtHead
  <2> QED
    BY <1>1, <1>2, <2>1, Parts, FreedFacts, TeardownFlows
<1>3. CASE ~\E c \in WideConn : Teardown(c, toDev, TRUE, "usb")
  <2>1. /\ conn.state = "CONNECTED" /\ Head(fromDev).flags = "ACK" /\ fin' = fin
        /\ Connected(conn', conn.tx_seq, conn.tx_ack, conn.ib_size + Head(fromDev).len,
                     Head(fromDev).ack, Head(fromDev).win * WinUnit)
        /\ \E s : AckOf(s, conn', conn'.tx_seq, 0) /\ toDev' = Append(toDev, s)
    BY <1>3, DataEffects
  <2>2. PICK s : AckOf(s, conn', conn'.tx_seq, 0) /\ toDev' = Append(toDev, s)
    BY <2>1
  <2>3. Flows(conn', peer, Append(toDev, s), Tail(fromDev), plugged)
    BY <2>1, <2>2, Parts, FlowsReceives DEF Connected, AckOf
  <2> QED
    BY <2>1, <2>2, <2>3, Parts
<1> QED
  BY <1>2, <1>3

\* device_tcp_input as a whole.
LEMMA DeviceTcpInputFlows ==
    ASSUME Inv, Flow, DeviceTcpInput PROVE Flow'
<1>1. Flows(conn', peer, toDev', Tail(fromDev), plugged) /\ fin'.cause # "overflow"
  BY NoConnectionFlows, EndedFlows, EstablishedFlows, DataFlows DEF DeviceTcpInput
<1>2. fromDev' = Tail(fromDev) /\ peer' = peer /\ plugged' = plugged
  BY DEF DeviceTcpInput, envVars
<1> QED
  BY <1>1, <1>2 DEF Flow

\* device_client_process from the read on, c being what the write left: data
\* moves, or the connection ends, before or after a segment left.
LEMMA ClientReadEffects ==
    ASSUME Inv, Flow, conn.state = "CONNECTED", NEW c \in WideConn, c.state = "CONNECTED",
           c.rx_ack = conn.rx_ack, c.rx_win = conn.rx_win, c.tx_seq = conn.tx_seq,
           NEW a, ClientRead(c, a)
    PROVE  \/ /\ Connected(conn', c.tx_seq, c.tx_ack, c.ib_size, c.rx_ack, c.rx_win)
              /\ toDev' = toDev /\ fin' = fin
           \/ \E cause \in {"client", "usb"} : Teardown(c, toDev, TRUE, cause)
           \/ \E n \in Nat : \E s :
                /\ n > 0 /\ Sub(c.tx_seq, c.rx_ack) + n <= c.rx_win /\ AckOf(s, c, c.tx_seq, n)
                /\ \/ /\ Connected(conn', Add(c.tx_seq, n), c.tx_ack, c.ib_size, c.rx_ack, c.rx_win)
                      /\ toDev' = Append(toDev, s) /\ fin' = fin
                   \/ Teardown(c, Append(toDev, s), TRUE, "usb")
<1>1. CASE conn' = UpdateConnection(c) /\ fin' = fin /\ toDev' = toDev
  BY <1>1, NumbersKept DEF Connected
<1>2. CASE \E n \in 1 .. Least(conn.sendable, app.buf) : \E out \in Outcomes(n) :
             \/ /\ out = "ok" /\ toDev' = Transmit(toDev, TcpSegment(c, "ACK", n), out)
                /\ conn' = UpdateConnection([Acked(c) EXCEPT !.tx_seq = Add(@, n)]) /\ fin' = fin
             \/ out # "ok" /\ Teardown(c, Transmit(toDev, TcpSegment(c, "ACK", n), out), TRUE, "usb")
  <2>0. PICK n \in 1 .. Least(conn.sendable, app.buf) : \E out \in Outcomes(n) :
             \/ /\ out = "ok" /\ toDev' = Transmit(toDev, TcpSegment(c, "ACK", n), out)
                /\ conn' = UpdateConnection([Acked(c) EXCEPT !.tx_seq = Add(@, n)]) /\ fin' = fin
             \/ out # "ok" /\ Teardown(c, Transmit(toDev, TcpSegment(c, "ACK", n), out), TRUE, "usb")
    BY <1>2
  <2> DEFINE s == TcpSegment(c, "ACK", n)
             k == Acked(c)
             d == [k EXCEPT !.tx_seq = Add(k.tx_seq, n)]
             u == UpdateConnection(d)
  <2>1. PICK out \in Outcomes(n) :
             \/ /\ out = "ok" /\ toDev' = Transmit(toDev, s, out) /\ conn' = u /\ fin' = fin
             \/ out # "ok" /\ Teardown(c, Transmit(toDev, s, out), TRUE, "usb")
    BY <2>0
  <2>2. n \in Nat /\ n > 0 /\ n <= Sendable(conn)
    <3>1. conn.sendable \in Int /\ app.buf \in Int /\ conn.sendable = Sendable(conn)
      BY Parts, SizesAssumption DEF Inv, Outside, WideConn, AppRecord
    <3>2. n \in 1 .. Least(conn.sendable, app.buf)
      OBVIOUS
    <3>3. n \in Nat /\ n > 0 /\ n <= conn.sendable
      BY <3>1, <3>2 DEF Least
    <3> QED
      BY <3>1, <3>3
  <2>3. Sub(c.tx_seq, c.rx_ack) + n <= c.rx_win
    BY <2>2, Parts, SendableFits
  <2>4. /\ s \in WideSegment /\ s.flags = "ACK" /\ s.seq = c.tx_seq /\ s.ack = c.tx_ack
        /\ s.len = n /\ s.win * WinUnit <= TxWin /\ s \in Segment
    BY <2>2, TcpSegmentFields DEF Flags
  <2>5. /\ k \in WideConn /\ k.state = "CONNECTED" /\ k.tx_seq = c.tx_seq /\ k.tx_ack = c.tx_ack
        /\ k.ib_size = c.ib_size /\ k.rx_ack = c.rx_ack /\ k.rx_win = c.rx_win
    BY NumbersKept
  <2>6. /\ d \in WideConn /\ d.state = "CONNECTED" /\ d.tx_seq = Add(c.tx_seq, n)
        /\ d.tx_ack = c.tx_ack /\ d.ib_size = c.ib_size /\ d.rx_ack = c.rx_ack
        /\ d.rx_win = c.rx_win
    <3> HIDE DEF k
    <3>1. k.tx_seq \in Seqno
      BY <2>5 DEF WideConn
    <3>2. k.tx_seq \in Int /\ n \in Int
      <4>1. n \in Int
        BY <2>2
      <4>2. k.tx_seq \in Int
        BY <3>1, SeqInts
      <4> QED
        BY <4>1, <4>2
    <3>3. Add(k.tx_seq, n) \in Seqno
      BY <3>2, SeqTypes
    <3> QED
      BY <2>5, <3>3 DEF WideConn
  <2>7. /\ u \in WideConn /\ u.state = "CONNECTED" /\ u.tx_seq = Add(c.tx_seq, n)
        /\ u.tx_ack = c.tx_ack /\ u.ib_size = c.ib_size /\ u.rx_ack = c.rx_ack
        /\ u.rx_win = c.rx_win
    <3> HIDE DEF d
    <3> QED
      BY <2>6, NumbersKept
  <2> HIDE DEF s, k, d, u
  <2>8. AckOf(s, c, c.tx_seq, n)
    BY <2>4 DEF AckOf
  <2>9. Connected(u, Add(c.tx_seq, n), c.tx_ack, c.ib_size, c.rx_ack, c.rx_win)
    BY <2>7 DEF Connected
  <2>10. CASE out = "ok"
    <3>1. toDev' = Append(toDev, s) /\ conn' = u /\ fin' = fin
      BY <2>1, <2>10 DEF Transmit
    <3> QED
      BY <2>2, <2>3, <2>8, <2>9, <3>1
  <2>11. CASE out = "lost"
    <3>1. Teardown(c, toDev, TRUE, "usb")
      BY <2>1, <2>11 DEF Transmit
    <3> QED
      BY <3>1
  <2>12. CASE out \notin {"ok", "lost"}
    <3>1. Teardown(c, Append(toDev, s), TRUE, "usb")
      BY <2>1, <2>12 DEF Transmit
    <3> QED
      BY <2>2, <2>3, <2>8, <3>1
  <2> QED
    BY <2>10, <2>11, <2>12
<1> QED
  BY <1>1, <1>2 DEF ClientRead, Settle

\* That keeps the flow; size bytes were written to the client.
LEMMA ClientReadFlows ==
    ASSUME Inv, Flow, conn.state = "CONNECTED", NEW c \in WideConn, c.state = "CONNECTED",
           NEW size \in 0 .. conn.ib_size, c.tx_ack = Add(conn.tx_ack, size),
           c.ib_size = conn.ib_size - size,
           c.rx_ack = conn.rx_ack, c.rx_win = conn.rx_win, c.tx_seq = conn.tx_seq,
           NEW a, ClientRead(c, a)
    PROVE  Flows(conn', peer, toDev', fromDev, plugged) /\ fin'.cause # "overflow"
<1>0. Flows(c, peer, toDev, fromDev, plugged)
  BY Parts, FlowsServes
<1>1. CASE /\ Connected(conn', c.tx_seq, c.tx_ack, c.ib_size, c.rx_ack, c.rx_win)
           /\ toDev' = toDev /\ fin' = fin
  <2>1. Flows(conn', peer, toDev, fromDev, plugged)
    BY <1>0, <1>1, FlowsSame DEF Connected
  <2> QED
    BY <1>1, <2>1, Parts
<1>2. CASE \E cause \in {"client", "usb"} : Teardown(c, toDev, TRUE, cause)
  <2>1. PICK cause \in {"client", "usb"} : Teardown(c, toDev, TRUE, cause)
    BY <1>2
  <2> QED
    BY <1>0, <2>1, Parts, TeardownFlows
<1>3. ASSUME NEW n \in Nat, NEW s, n > 0, Sub(c.tx_seq, c.rx_ack) + n <= c.rx_win,
             AckOf(s, c, c.tx_seq, n), toDev' = Append(toDev, s), fin' = fin,
             Connected(conn', Add(c.tx_seq, n), c.tx_ack, c.ib_size, c.rx_ack, c.rx_win)
      PROVE  Flows(conn', peer, toDev', fromDev, plugged) /\ fin'.cause # "overflow"
  <2>1. Flows(conn', peer, Append(toDev, s), fromDev, plugged)
    BY <1>3, Parts, FlowsSends DEF Connected, AckOf
  <2> QED
    BY <1>3, <2>1, Parts
<1>4. ASSUME NEW n \in Nat, NEW s, n > 0, Sub(c.tx_seq, c.rx_ack) + n <= c.rx_win,
             AckOf(s, c, c.tx_seq, n), Teardown(c, Append(toDev, s), TRUE, "usb")
      PROVE  Flows(conn', peer, toDev', fromDev, plugged) /\ fin'.cause # "overflow"
  <2>1. Flows(FreedConnection, peer, Append(toDev, s), fromDev, plugged)
    BY <1>0, <1>4, Parts, FreedFacts, FlowsHalf DEF AckOf
  <2>2. Append(toDev, s) \in Seq(WideSegment)
    BY <1>4, Parts, AppendFacts DEF AckOf
  <2> QED
    BY <1>4, <2>1, <2>2, Parts, FreedFacts, TeardownFlows
<1> QED
  BY <1>1, <1>2, <1>3, <1>4, ClientReadEffects

\* device_client_process is a teardown, or size bytes are written and the client read.
LEMMA DeviceClientProcessCases ==
    ASSUME Inv, DeviceClientProcess
    PROVE  /\ conn.state = "CONNECTED"
           /\ \/ Teardown(conn, toDev, TRUE, "client")
              \/ \E size \in 0 .. conn.ib_size, c \in WideConn : \E a :
                    /\ Connected(c, conn.tx_seq, Add(conn.tx_ack, size), conn.ib_size - size,
                                 conn.rx_ack, conn.rx_win)
                    /\ ClientRead(c, a)
<1>1. conn.state = "CONNECTED" /\ conn \in WideConn /\ conn.ib_size \in Nat /\ conn.tx_ack \in Seqno
  BY Zenon DEF DeviceClientProcess, Inv, Daemon, Fits, WideConn
<1>2. CASE \E size \in 1 .. conn.ib_size, full \in BOOLEAN :
             ClientRead([conn EXCEPT !.tx_ack = Add(@, size), !.ib_size = @ - size],
                        [app EXCEPT !.full = full])
  <2>1. PICK size \in 1 .. conn.ib_size, full \in BOOLEAN :
          ClientRead([conn EXCEPT !.tx_ack = Add(conn.tx_ack, size), !.ib_size = conn.ib_size - size],
                     [app EXCEPT !.full = full])
    BY <1>2, Zenon
  <2> DEFINE c == [conn EXCEPT !.tx_ack = Add(conn.tx_ack, size), !.ib_size = conn.ib_size - size]
             a == [app EXCEPT !.full = full]
  <2>2. size \in 0 .. conn.ib_size /\ conn.ib_size - size \in Nat /\ size \in Int
    BY <1>1
  <2>3. Add(conn.tx_ack, size) \in Seqno
    <3>1. conn.tx_ack \in Int
      BY <1>1, SeqInts
    <3> QED
      BY <2>2, <3>1, SeqTypes
  <2>4. /\ c \in WideConn /\ c.state = "CONNECTED" /\ c.tx_ack = Add(conn.tx_ack, size)
        /\ c.ib_size = conn.ib_size - size /\ c.rx_ack = conn.rx_ack /\ c.rx_win = conn.rx_win
        /\ c.tx_seq = conn.tx_seq
    BY <1>1, <2>2, <2>3 DEF WideConn
  <2>5. ClientRead(c, a)
    BY <2>1
  <2> HIDE DEF c, a
  <2> QED
    BY <1>1, <2>2, <2>4, <2>5 DEF Connected
<1>3. CASE ClientRead(conn, app)
  <2>1. 0 \in 0 .. conn.ib_size /\ conn.ib_size = conn.ib_size - 0
    BY <1>1
  <2>2. conn.tx_ack = Add(conn.tx_ack, 0)
    BY <1>1, Nothing
  <2>3. Connected(conn, conn.tx_seq, Add(conn.tx_ack, 0), conn.ib_size - 0, conn.rx_ack, conn.rx_win)
    BY <1>1, <2>1, <2>2 DEF Connected
  <2> QED
    BY <1>1, <1>3, <2>1, <2>3
<1> QED
  BY <1>1, <1>2, <1>3, Zenon DEF DeviceClientProcess

\* device_client_process as a whole.
LEMMA DeviceClientProcessFlows ==
    ASSUME Inv, Flow, DeviceClientProcess
    PROVE  Flows(conn', peer, toDev', fromDev, plugged) /\ fin'.cause # "overflow"
<1>1. CASE Teardown(conn, toDev, TRUE, "client")
  BY <1>1, Parts, TeardownFlows
<1>2. CASE ~Teardown(conn, toDev, TRUE, "client")
  <2>1. PICK size \in 0 .. conn.ib_size, c \in WideConn : \E a :
          /\ Connected(c, conn.tx_seq, Add(conn.tx_ack, size), conn.ib_size - size,
                       conn.rx_ack, conn.rx_win)
          /\ ClientRead(c, a)
    BY <1>2, DeviceClientProcessCases
  <2>2. conn.state = "CONNECTED"
    BY DeviceClientProcessCases
  <2> QED
    BY <2>1, <2>2, ClientReadFlows DEF Connected
<1> QED
  BY <1>1, <1>2

\* client_close of a client whose Connect is in progress.
LEMMA AbortFlows ==
    ASSUME Inv, Flow, AbortConnect
    PROVE  Flows(conn', peer, toDev', fromDev, plugged) /\ fin'.cause # "overflow"
<1> DEFINE s == TcpSegment(conn, "RST", 0)
<1>1. PICK out \in Outcomes(0) :
        /\ toDev' = Transmit(toDev, s, out) /\ conn' = FreedConnection /\ fin'.cause = "aborted"
  BY DEF AbortConnect
<1>2. s \in WideSegment /\ s.flags = "RST"
  BY Parts, TcpSegmentFields DEF Flags
<1> HIDE DEF s
<1>3. Flows(FreedConnection, peer, toDev, fromDev, plugged)
  BY Parts, FreedFacts, FlowsEnds
<1>4. Flows(FreedConnection, peer, Append(toDev, s), fromDev, plugged)
  BY <1>2, <1>3, Parts, FreedFacts, FlowsResets
<1> QED
  BY <1>1, <1>3, <1>4, OutcomesOfNothing

\* client_process as a whole.
LEMMA ClientProcessFlows ==
    ASSUME Inv, Flow, ClientProcess PROVE Flow'
<1>1. peer' = peer /\ fromDev' = fromDev /\ plugged' = plugged
  BY DEF ClientProcess
<1>2. CASE AbortConnect \/ DeviceClientProcess
  BY <1>1, <1>2, AbortFlows, DeviceClientProcessFlows DEF Flow
<1>3. CASE UNCHANGED <<conn, toDev, fin>>
  BY <1>1, <1>3 DEF Flow
<1> QED
  BY <1>2, <1>3 DEF ClientProcess, ClientProcessConnecting

\* The delayed ACK: what it does to the connection, ...
LEMMA CheckTimeoutsEffects ==
    ASSUME Inv, Flow, CheckTimeouts
    PROVE  /\ conn.state = "CONNECTED" /\ peer' = peer /\ fromDev' = fromDev /\ plugged' = plugged
           /\ \/ /\ Connected(conn', conn.tx_seq, conn.tx_ack, conn.ib_size, conn.rx_ack, conn.rx_win)
                 /\ \E s : AckOf(s, conn, conn.tx_seq, 0) /\ toDev' = Append(toDev, s)
                 /\ fin' = fin
              \/ Teardown(conn, toDev, TRUE, "usb")
<1> DEFINE s == TcpSegment(conn, "ACK", 0)
           d == Acked(conn)
           u == UpdateConnection(d)
<1>1. /\ peer' = peer /\ fromDev' = fromDev /\ plugged' = plugged /\ conn.state = "CONNECTED"
  BY DEF CheckTimeouts, envVars
<1>2. PICK out \in Outcomes(0) :
            \/ out = "ok" /\ toDev' = Transmit(toDev, s, out) /\ conn' = u /\ fin' = fin
            \/ out # "ok" /\ Teardown(conn, Transmit(toDev, s, out), TRUE, "usb")
  BY DEF CheckTimeouts, Settle
<1>3. /\ s \in WideSegment /\ s.flags = "ACK" /\ s.seq = conn.tx_seq /\ s.ack = conn.tx_ack
      /\ s.len = 0 /\ s.win * WinUnit <= TxWin /\ s \in Segment
  BY Parts, TcpSegmentFields DEF Flags
<1>4. /\ d \in WideConn /\ d.state = "CONNECTED" /\ d.tx_seq = conn.tx_seq
      /\ d.tx_ack = conn.tx_ack /\ d.ib_size = conn.ib_size /\ d.rx_ack = conn.rx_ack
      /\ d.rx_win = conn.rx_win
  BY <1>1, Parts, NumbersKept
<1>5. /\ u \in WideConn /\ u.state = "CONNECTED" /\ u.tx_seq = conn.tx_seq
      /\ u.tx_ack = conn.tx_ack /\ u.ib_size = conn.ib_size /\ u.rx_ack = conn.rx_ack
      /\ u.rx_win = conn.rx_win
  <2> HIDE DEF d
  <2> QED
    BY <1>4, NumbersKept
<1> HIDE DEF s, d, u
<1>6. CASE out = "ok"
  <2>1. toDev' = Append(toDev, s) /\ conn' = u /\ fin' = fin
    BY <1>2, <1>6, OutcomesOfNothing
  <2> QED
    BY <1>1, <1>3, <1>5, <2>1 DEF Connected, AckOf
<1>7. CASE out # "ok"
  BY <1>1, <1>2, <1>7, OutcomesOfNothing
<1> QED
  BY <1>6, <1>7

\* ... and that it keeps the flow.
LEMMA CheckTimeoutsFlows ==
    ASSUME Inv, Flow, CheckTimeouts PROVE Flow'
<1>1. /\ peer' = peer /\ fromDev' = fromDev /\ plugged' = plugged /\ conn.state = "CONNECTED"
      /\ conn.ib_size \in Nat /\ conn.tx_ack \in Seqno /\ conn.tx_seq \in Seqno
  BY Parts, CheckTimeoutsEffects DEF WideConn
<1>2. CASE Teardown(conn, toDev, TRUE, "usb")
  BY <1>1, <1>2, Parts, TeardownFlows DEF Flow
<1>3. CASE ~Teardown(conn, toDev, TRUE, "usb")
  <2>1. /\ Connected(conn', conn.tx_seq, conn.tx_ack, conn.ib_size, conn.rx_ack, conn.rx_win)
        /\ fin' = fin /\ \E s : AckOf(s, conn, conn.tx_seq, 0) /\ toDev' = Append(toDev, s)
    BY <1>3, CheckTimeoutsEffects
  <2>2. PICK s : AckOf(s, conn, conn.tx_seq, 0) /\ toDev' = Append(toDev, s)
    BY <2>1
  <2>3. 0 \in 0 .. conn.ib_size /\ conn.ib_size = conn.ib_size - 0 /\ ~(0 > 0) /\ 0 \in Nat
    BY <1>1
  <2>4. /\ conn'.tx_ack = Add(conn.tx_ack, 0) /\ conn'.tx_seq = Add(conn.tx_seq, 0)
        /\ conn'.ib_size = conn.ib_size - 0 /\ s.ack = conn'.tx_ack
    BY <1>1, <2>1, <2>2, <2>3, Nothing DEF Connected, AckOf
  <2>5. Flows(conn', peer, Append(toDev, s), fromDev, plugged)
    BY <1>1, <2>1, <2>2, <2>3, <2>4, Parts, FlowsSends DEF Connected, AckOf
  <2> QED
    BY <1>1, <2>1, <2>2, <2>5, Parts DEF Flow
<1> QED
  BY <1>2, <1>3

\* device_start_connect.
LEMMA StartConnectFlows ==
    ASSUME Inv, Flow, StartConnect PROVE Flow'
<1> DEFINE s == TcpSegment(NewConnection, "SYN", 0)
           d == Acked(NewConnection)
<1>1. /\ peer' = peer /\ fromDev' = fromDev /\ plugged' = plugged /\ conn.state = "NONE" /\ plugged
  BY DEF StartConnect, envVars
<1>2. PICK out \in Outcomes(0) :
        /\ toDev' = Transmit(toDev, s, out)
        /\ \/ out = "ok" /\ conn' = d /\ fin' = fin
           \/ out # "ok" /\ conn' = FreedConnection /\ fin' = [fin EXCEPT !.cause = "syn"]
  BY DEF StartConnect
<1>3. /\ s \in WideSegment /\ s.flags = "SYN" /\ s.seq = 0 /\ s.ack = 0
      /\ s.len = 0 /\ s.win * WinUnit <= TxWin
  <2>1. NewConnection.tx_seq = 0 /\ NewConnection.tx_ack = 0
    BY DEF NewConnection
  <2> QED
    BY <2>1, FreedFacts, TcpSegmentFields DEF Flags
<1>4. /\ d \in WideConn /\ d.state = "CONNECTING" /\ d.tx_seq = 0
      /\ d.tx_ack = 0 /\ d.ib_size = 0 /\ d.rx_ack = 0 /\ d.rx_win = 0
  <2>1. /\ NewConnection.state = "CONNECTING" /\ NewConnection.tx_seq = 0
        /\ NewConnection.tx_ack = 0 /\ NewConnection.ib_size = 0
        /\ NewConnection.rx_ack = 0 /\ NewConnection.rx_win = 0
    BY DEF NewConnection
  <2> QED
    BY <2>1, FreedFacts, NumbersKept
<1> HIDE DEF s, d
<1>5. Flows(d, peer, Append(toDev, s), fromDev, plugged)
  BY <1>1, <1>3, <1>4, Parts, FlowsStarts
<1>6. Flows(FreedConnection, peer, toDev, fromDev, plugged)
  BY Parts, FreedFacts, FlowsEnds
<1>7. fin'.cause # "overflow"
  <2>1. fin.cause # "overflow" /\ fin \in FinRecord
    BY Parts DEF Inv, Daemon
  <2> QED
    BY <1>2, <2>1 DEF FinRecord
<1>8. Flows(conn', peer, toDev', fromDev, plugged)
  BY <1>2, <1>5, <1>6, OutcomesOfNothing
<1> QED
  BY <1>1, <1>7, <1>8 DEF Flow

\* device_remove.
LEMMA DeviceRemoveFlows ==
    ASSUME Inv, Flow, DeviceRemove PROVE Flow'
<1>1. /\ fromDev' = <<>> /\ plugged' = FALSE /\ peer' = [peer EXCEPT !.state = "CLOSED"]
      /\ \/ Teardown(conn, <<>>, FALSE, "removed")
         \/ conn.state \in {"NONE", "FREED"} /\ toDev' = <<>> /\ UNCHANGED <<conn, fin>>
  BY DEF DeviceRemove
<1>2. peer'.state = "CLOSED" /\ peer'.buf = peer.buf
  BY <1>1, Parts DEF WidePeer
<1>3. toDev' = <<>> /\ conn'.state \in {"NONE", "FREED"} /\ fin'.cause # "overflow"
  <2>1. CASE Teardown(conn, <<>>, FALSE, "removed")
    <3>1. toDev' = <<>> /\ conn' = FreedConnection /\ fin'.cause = "removed"
      BY <2>1 DEF Teardown
    <3> QED
      BY <3>1, FreedFacts
  <2>2. CASE conn.state \in {"NONE", "FREED"} /\ toDev' = <<>> /\ UNCHANGED <<conn, fin>>
    BY <2>2, Parts
  <2> QED
    BY <1>1, <2>1, <2>2
<1>4. peer.buf >= 0 /\ peer.buf <= DevWin
  BY Parts DEF Flows
<1>5. Flows(conn', peer', <<>>, <<>>, FALSE)
  BY <1>2, <1>3, <1>4, FlowsRemoved
<1> QED
  BY <1>1, <1>3, <1>5 DEF Flow

\* Polling, time and the client's process.
LEMMA QuietFlows ==
    ASSUME Inv, Flow, Poll \/ Tick \/ App PROVE Flow'
<1>1. CASE Poll \/ App
  BY <1>1 DEF Poll, App, envVars, Flow
<1>2. CASE Tick
  <2>1. /\ conn' = [conn EXCEPT !.ack_due = TRUE] /\ fin' = fin
        /\ peer' = peer /\ toDev' = toDev /\ fromDev' = fromDev /\ plugged' = plugged
    BY <1>2 DEF Tick, envVars
  <2>2. /\ conn'.state = conn.state /\ conn'.tx_seq = conn.tx_seq /\ conn'.tx_ack = conn.tx_ack
        /\ conn'.ib_size = conn.ib_size /\ conn'.rx_ack = conn.rx_ack /\ conn'.rx_win = conn.rx_win
    BY <2>1, Parts DEF WideConn
  <2>3. Flows(conn', peer, toDev, fromDev, plugged)
    BY <2>2, Parts, FlowsSame
  <2> QED
    BY <2>1, <2>3 DEF Flow
<1> QED
  BY <1>1, <1>2

-----------------------------------------------------------------------------
(* The steps of the device's endpoint.                                      *)

\* The SYN is answered.
LEMMA PeerAcceptFlows ==
    ASSUME Inv, Inv', Flow, PeerInput, PeerAccept(Head(toDev)) PROVE Flow'
<1> DEFINE seg == Head(toDev)
           a == Add(seg.seq, 1)
           w == seg.win * WinUnit
           p == [peer EXCEPT !.rcv = a, !.wnd = w]
<1>1. /\ toDev # <<>> /\ toDev' = Tail(toDev) /\ conn' = conn /\ plugged' = plugged /\ fin' = fin
      /\ peer.state = "LISTEN"
  BY DEF PeerInput, PeerUnchanged, PeerAccept
<1>2. PICK fl \in {"SYNACK", "RST", "FIN"} :
        /\ fromDev' = Append(fromDev, PeerSegment(p, fl, 0))
        /\ peer' = IF fl = "SYNACK" THEN [p EXCEPT !.state = "SYNRCVD", !.snd = Add(p.snd, 1)]
                   ELSE [p EXCEPT !.state = "CLOSED"]
  BY DEF PeerAccept
<1>3. seg \in WideSegment
  BY <1>1, Parts, TailFacts
<1>4. a \in Seqno /\ w \in Int
  <2> HIDE DEF seg
  <2>1. seg.seq \in Seqno /\ seg.win \in Int
    BY <1>3, SegmentNumbers
  <2>2. seg.seq \in Int
    BY <2>1, SeqInts
  <2> QED
    BY <2>1, <2>2, SeqTypes, SizesAssumption
<1>5. /\ p \in WidePeer /\ p.rcv = a /\ p.wnd = w /\ p.snd = peer.snd /\ p.una = peer.una
      /\ p.buf = peer.buf /\ peer.snd \in Seqno /\ peer.buf = 0 /\ peer.snd = 0
  <2>1. peer.buf = 0 /\ peer.snd = 0
    BY <1>1, Parts DEF Flows, Handshake
  <2> HIDE DEF a, w, seg
  <2> QED
    BY <1>4, <2>1, Parts DEF WidePeer
<1> DEFINE s == PeerSegment(p, fl, 0)
<1>6. /\ s \in WideSegment /\ s.flags = fl /\ s.seq = peer.snd /\ s.ack = a /\ s.len = 0
      /\ s.win * WinUnit <= DevWin - 0
  <2> HIDE DEF p, a
  <2> QED
    BY <1>5, PeerSegmentFields DEF Flags
<1>7. s.win * WinUnit <= DevWin
  <2> HIDE DEF s
  <2> QED
    BY <1>6, SizesAssumption
<1>8. /\ peer'.state \in {"SYNRCVD", "CLOSED"} /\ peer'.rcv = a /\ peer'.wnd = w
      /\ peer'.una = peer.una /\ peer'.buf = peer.buf
      /\ peer'.snd = IF fl = "SYNACK" THEN Add(peer.snd, 1) ELSE peer.snd
  <2> HIDE DEF p, a, w, seg
  <2> QED
    BY <1>2, <1>5 DEF WidePeer
<1>9. Extent(s) <= 1 /\ peer'.snd = Add(peer.snd, Extent(s))
  <2> HIDE DEF s
  <2>1. Extent(s) = IF fl = "SYNACK" THEN 1 ELSE 0
    BY <1>6 DEF Extent
  <2> QED
    BY <1>5, <1>8, <2>1, Nothing
<1>10. peer' \in WidePeer
  BY DEF Inv, Outside
<1> HIDE DEF s, p
<1>11. Flows(conn, peer', Tail(toDev), Append(fromDev, s), plugged)
  BY <1>1, <1>6, <1>7, <1>8, <1>9, <1>10, Parts, FlowsAccepts
<1>12. fromDev' = Append(fromDev, s)
  BY <1>2 DEF s
<1> QED
  BY <1>1, <1>11, <1>12, Parts DEF Flow

\* A segment is taken or dropped.
LEMMA PeerInputFlows ==
    ASSUME Inv, Inv', Flow, PeerInput PROVE Flow'
<1> DEFINE seg == Head(toDev)
<1>1. /\ toDev # <<>> /\ toDev' = Tail(toDev) /\ conn' = conn /\ plugged' = plugged /\ fin' = fin
      /\ PeerAccept(seg) \/ PeerTakes(seg) \/ PeerIsReset(seg)
  BY DEF PeerInput, PeerUnchanged
<1>2. peer' \in WidePeer /\ peer \in WidePeer
  BY DEF Inv, Outside
<1>3. CASE PeerTakes(seg)
  <2>1. /\ fromDev' = fromDev /\ Open(peer) /\ seg.flags = "ACK"
        /\ peer' = [peer EXCEPT !.state = "EST", !.una = seg.ack, !.wnd = seg.win * WinUnit,
                                !.rcv = Add(@, seg.len), !.buf = @ + seg.len,
                                !.owes = @ \/ seg.len > 0]
    BY <1>3 DEF PeerTakes, Open
  <2>2. /\ peer'.state = "EST" /\ peer'.una = seg.ack /\ peer'.wnd = seg.win * WinUnit
        /\ peer'.snd = peer.snd /\ peer'.rcv = Add(peer.rcv, seg.len)
        /\ peer'.buf = peer.buf + seg.len
    <3> HIDE DEF seg
    <3> QED
      BY <1>2, <2>1 DEF WidePeer
  <2>3. Flows(conn, peer', Tail(toDev), fromDev, plugged)
    BY <1>1, <1>2, <2>1, <2>2, Parts, FlowsTaken
  <2> QED
    BY <1>1, <2>1, <2>3, Parts DEF Flow
<1>4. CASE PeerIsReset(seg)
  <2>1. /\ fromDev' = fromDev /\ peer' = [peer EXCEPT !.state = "CLOSED"]
        /\ peer.state = "CLOSED" \/ seg.flags = "RST"
    BY <1>4 DEF PeerIsReset
  <2>2. /\ peer'.state = "CLOSED" /\ peer'.una = peer.una /\ peer'.wnd = peer.wnd
        /\ peer'.snd = peer.snd /\ peer'.rcv = peer.rcv /\ peer'.buf = peer.buf
    BY <1>2, <2>1 DEF WidePeer
  <2>3. Flows(conn, peer', Tail(toDev), fromDev, plugged)
    BY <1>1, <1>2, <2>1, <2>2, Parts, FlowsDrops
  <2> QED
    BY <1>1, <2>1, <2>3, Parts DEF Flow
<1> QED
  BY <1>1, <1>3, <1>4, PeerAcceptFlows

\* What the endpoint sends, keeping its state or closing.
LEMMA PeerSendsFlows ==
    ASSUME Inv, Inv', Flow, Open(peer), NEW fl \in {"ACK", "RST", "FIN"}, NEW n \in Nat,
           n > 0 => peer.state = "EST" /\ Sub(peer.snd, peer.una) + n <= peer.wnd,
           fromDev' = Append(fromDev, PeerSegment(peer, fl, n)),
           peer'.state \in {peer.state, "CLOSED"}, peer'.snd = Add(peer.snd, n),
           peer'.una = peer.una, peer'.wnd = peer.wnd, peer'.rcv = peer.rcv,
           peer'.buf = peer.buf, toDev' = toDev, PeerUnchanged
    PROVE  Flow'
<1> DEFINE s == PeerSegment(peer, fl, n)
<1>1. peer' \in WidePeer
  BY DEF Inv, Outside
<1>2. /\ s \in WideSegment /\ s.flags = fl /\ s.seq = peer.snd /\ s.ack = peer.rcv /\ s.len = n
      /\ s.win * WinUnit <= DevWin - peer.buf
  BY Parts, PeerSegmentFields DEF Flags
<1> HIDE DEF s
<1>3. n = Extent(s)
  BY <1>2 DEF Extent
<1>4. Flows(conn, peer', toDev, Append(fromDev, s), plugged)
  BY <1>1, <1>2, <1>3, Parts, FlowsMore
<1>5. fromDev' = Append(fromDev, s)
  BY DEF s
<1> QED
  BY <1>4, <1>5, Parts DEF Flow, PeerUnchanged

\* What the endpoint does of its own accord.
LEMMA PeerMovesFlow ==
    ASSUME Inv, Inv', Flow, PeerSend \/ PeerAck \/ PeerConsume \/ PeerClose PROVE Flow'
<1>1. peer \in WidePeer /\ peer' \in WidePeer /\ peer.snd \in Seqno /\ peer.una \in Seqno
      /\ peer.wnd \in Int /\ peer.buf \in Int
  BY DEF Inv, Outside, WidePeer
<1>2. CASE PeerSend
  <2>1. PICK n \in 1 .. peer.wnd - Outstanding :
          /\ fromDev' = Append(fromDev, PeerSegment(peer, "ACK", n))
          /\ peer' = [peer EXCEPT !.snd = Add(peer.snd, n), !.owes = FALSE]
    BY Zenon, <1>2 DEF PeerSend
  <2>2. peer.state = "EST" /\ toDev' = toDev /\ PeerUnchanged
    BY Zenon, <1>2 DEF PeerSend
  <2>3. n \in Nat /\ Sub(peer.snd, peer.una) + n <= peer.wnd
    <3>1. Sub(peer.snd, peer.una) \in Nat
      BY <1>1, SubCases
    <3> QED
      BY <1>1, <3>1 DEF Outstanding
  <2>4. /\ peer'.state = peer.state /\ peer'.snd = Add(peer.snd, n) /\ peer'.una = peer.una
        /\ peer'.wnd = peer.wnd /\ peer'.rcv = peer.rcv /\ peer'.buf = peer.buf
    BY <1>1, <2>1 DEF WidePeer
  <2> QED
    BY <2>1, <2>2, <2>3, <2>4, PeerSendsFlows DEF Open
<1>3. CASE PeerAck
  <2>1. /\ fromDev' = Append(fromDev, PeerSegment(peer, "ACK", 0)) /\ toDev' = toDev
        /\ peer' = [peer EXCEPT !.owes = FALSE] /\ peer.state = "EST" /\ PeerUnchanged
    BY <1>3 DEF PeerAck
  <2>2. /\ peer'.state = peer.state /\ peer'.snd = Add(peer.snd, 0) /\ peer'.una = peer.una
        /\ peer'.wnd = peer.wnd /\ peer'.rcv = peer.rcv /\ peer'.buf = peer.buf
    BY <1>1, <2>1, Nothing DEF WidePeer
  <2>3. 0 \in Nat /\ ~(0 > 0)
    OBVIOUS
  <2> QED
    BY <2>1, <2>2, <2>3, PeerSendsFlows DEF Open
<1>4. CASE PeerClose
  <2>1. PICK fl \in {"RST", "FIN"} : fromDev' = Append(fromDev, PeerSegment(peer, fl, 0))
    BY <1>4 DEF PeerClose
  <2>2. /\ toDev' = toDev /\ peer' = [peer EXCEPT !.state = "CLOSED"] /\ Open(peer)
        /\ PeerUnchanged
    BY <1>4 DEF PeerClose, Open
  <2>3. /\ peer'.state = "CLOSED" /\ peer'.snd = Add(peer.snd, 0) /\ peer'.una = peer.una
        /\ peer'.wnd = peer.wnd /\ peer'.rcv = peer.rcv /\ peer'.buf = peer.buf
    BY <1>1, <2>2, Nothing DEF WidePeer
  <2>4. 0 \in Nat /\ ~(0 > 0)
    OBVIOUS
  <2> QED
    BY <2>1, <2>2, <2>3, <2>4, PeerSendsFlows
<1>5. CASE PeerConsume
  <2>1. PICK n \in 1 .. peer.buf : peer' = [peer EXCEPT !.buf = peer.buf - n, !.owes = TRUE]
    BY Zenon, <1>5 DEF PeerConsume
  <2>2. /\ peer.state = "EST" /\ toDev' = toDev /\ fromDev' = fromDev /\ PeerUnchanged
    BY Zenon, <1>5 DEF PeerConsume
  <2>3. /\ peer'.state = peer.state /\ peer'.snd = peer.snd /\ peer'.una = peer.una
        /\ peer'.wnd = peer.wnd /\ peer'.rcv = peer.rcv /\ peer'.buf = peer.buf - n
    BY <1>1, <2>1 DEF WidePeer
  <2>4. peer'.buf <= peer.buf /\ peer'.buf >= 0
    BY <1>1, <2>1, <2>3
  <2>5. Flows(conn, peer', toDev, fromDev, plugged)
    BY <1>1, <2>2, <2>3, <2>4, Parts, FlowsConsumes
  <2> QED
    BY <2>2, <2>5, Parts DEF Flow, PeerUnchanged
<1> QED
  BY <1>2, <1>3, <1>4, <1>5

-----------------------------------------------------------------------------
(* The invariant and what follows from it.                                  *)

\* The flow invariant holds before any Connect.
LEMMA FlowInit == Init => Flow
<1> SUFFICES ASSUME Init PROVE Flow
  OBVIOUS
<1>1. conn.state = "NONE"
  BY DEF Init, NewConnection
<1>2. /\ toDev = <<>> /\ fromDev = <<>> /\ fin.cause = "none" /\ peer.state = "LISTEN"
      /\ peer.snd = 0 /\ peer.una = 0 /\ peer.rcv = 0 /\ peer.buf = 0 /\ peer.wnd = 0
      /\ Len(toDev) = 0
  BY DEF Init
<1>3. 0 >= 0 /\ 0 <= DevWin
  BY SizesAssumption
<1>4. Handshake(conn, peer, toDev, fromDev, plugged)
  BY <1>1, <1>2 DEF Handshake
<1> QED
  BY <1>1, <1>2, <1>3, <1>4 DEF Flow, Flows, Live, Open

\* Every step keeps it.
LEMMA FlowNext == Inv /\ Inv' /\ Flow /\ [Next]_vars => Flow'
<1>1. ASSUME Flow, vars' = vars PROVE Flow'
  BY <1>1 DEF vars, Flow
<1>2. ASSUME Inv, Inv', Flow, Next PROVE Flow'
  BY <1>2, StartConnectFlows, DeviceTcpInputFlows, ClientProcessFlows, CheckTimeoutsFlows,
     DeviceRemoveFlows, QuietFlows, PeerInputFlows, PeerMovesFlow DEF Next, Prompt
<1> QED
  BY <1>1, <1>2

\* The flow invariant gives the four properties.
LEMMA FlowImplies ==
    Flow => InputNeverOverflows /\ DeviceNeverOverflows /\ ReceivesInSequence /\ SendsInSequence
<1> SUFFICES ASSUME Flow
             PROVE  /\ InputNeverOverflows /\ DeviceNeverOverflows
                    /\ ReceivesInSequence /\ SendsInSequence
  OBVIOUS
<1>1. InputNeverOverflows /\ DeviceNeverOverflows
  BY DEF Flow, Flows, InputNeverOverflows, DeviceNeverOverflows
<1>2. ReceivesInSequence
  <2>1. conn.state = "CONNECTED" => Chain(fromDev, Add(conn.tx_ack, conn.ib_size), peer.snd)
    BY DEF Flow, Flows, Live, Receiving
  <2> QED
    BY <2>1 DEF Chain, ReceivesInSequence
<1>3. SendsInSequence
  <2>1. conn.state = "CONNECTED" /\ peer.state = "EST" => Chain(toDev, peer.rcv, conn.tx_seq)
    BY DEF Flow, Flows, Live, Open, Sending, Sent
  <2> QED
    BY <2>1 DEF Chain, SendsInSequence
<1> QED
  BY <1>1, <1>2, <1>3

\* For every window, buffer and sequence space: the overflow branch of
\* connection_device_input (device.c:540) is dead code against a device that
\* honours the window the daemon advertises.
THEOREM InputFits == Spec => []InputNeverOverflows
  BY InvInit, InvNext, FlowInit, FlowNext, FlowImplies, PTL DEF Spec

\* However stale the window update_connection acts on, what it lets the client
\* send fits in the device's buffer.
THEOREM DeviceBufferFits == Spec => []DeviceNeverOverflows
  BY InvInit, InvNext, FlowInit, FlowNext, FlowImplies, PTL DEF Spec

\* device_tcp_input may ignore th_seq: the next segment always starts at the
\* byte after the last one received.
THEOREM ReceivesWithoutGap == Spec => []ReceivesInSequence
  BY InvInit, InvNext, FlowInit, FlowNext, FlowImplies, PTL DEF Spec

\* The daemon numbers what it sends without gap or overlap, across the
\* wrap-around of tx_seq.
THEOREM SendsWithoutGap == Spec => []SendsInSequence
  BY InvInit, InvNext, FlowInit, FlowNext, FlowImplies, PTL DEF Spec

-----------------------------------------------------------------------------
(* Types.  That no window is negative rests on the flow control: the device *)
(* announces DevWin - buf.                                                  *)
Windows ==
    /\ conn.rx_win >= 0 /\ conn.sendable >= 0 /\ peer.wnd >= 0
    /\ toDev \in Seq(Segment) /\ fromDev \in Seq(Segment) /\ plugged \in BOOLEAN
    /\ peer.state \in {"LISTEN", "SYNRCVD"} => peer.buf = 0

\* What update_connection lets through is not negative, however small the window.
LEMMA SendableNat ==
    ASSUME NEW c \in WideConn PROVE Sendable(c) >= 0
<1> DEFINE sent == Sub(c.tx_seq, c.rx_ack)
           w == c.rx_win
<1>1. sent \in Int /\ w \in Int /\ OutbufSize \in Nat /\ MaxPayload \in Nat
  <2>1. c.tx_seq \in Seqno /\ c.rx_ack \in Seqno /\ w \in Int
    BY DEF WideConn
  <2>2. sent \in Nat
    BY <2>1, SubCases
  <2> QED
    BY <2>1, <2>2, SizesAssumption
<1>2. Sendable(c) = Least(Least(IF w > sent THEN w - sent ELSE 0, OutbufSize), MaxPayload)
  BY DEF Sendable
<1> HIDE DEF sent, w
<1> QED
  BY <1>1, <1>2 DEF Least

\* The windows of a new and of a freed connection.
LEMMA NewWindows ==
    /\ FreedConnection.rx_win >= 0 /\ FreedConnection.sendable >= 0
    /\ Acked(NewConnection).rx_win >= 0 /\ Acked(NewConnection).sendable >= 0
BY DEF NewConnection, FreedConnection, Acked

\* Segments with windows in a pipe.
LEMMA SegmentPipes ==
    /\ \A q \in Seq(Segment), s \in Segment : Append(q, s) \in Seq(Segment)
    /\ \A q \in Seq(Segment) : q # <<>> => Tail(q) \in Seq(Segment) /\ Head(q) \in Segment
    /\ \A s \in Segment : s.win * WinUnit >= 0
    /\ <<>> \in Seq(Segment)
<1>1. \A q \in Seq(Segment), s \in Segment : Append(q, s) \in Seq(Segment)
  OBVIOUS
<1>2. \A q \in Seq(Segment) : q # <<>> => Tail(q) \in Seq(Segment) /\ Head(q) \in Segment
  OBVIOUS
<1>3. ASSUME NEW s \in Segment PROVE s.win * WinUnit >= 0
  <2>1. s.win \in Nat /\ WinUnit \in Nat
    BY SizesAssumption DEF Segment
  <2>2. \A x \in Nat, y \in Nat : x * y >= 0
    OBVIOUS
  <2> QED
    BY <2>1, <2>2
<1> QED
  BY <1>1, <1>2, <1>3

\* connection_teardown frees the connection; the RST it may send has a window.
LEMMA TeardownWindows ==
    ASSUME NEW c \in WideConn, NEW q \in Seq(Segment), NEW alive, NEW cause,
           Teardown(c, q, alive, cause)
    PROVE  conn' = FreedConnection /\ toDev' \in Seq(Segment)
<1>1. TcpSegment(c, "RST", 0) \in Segment
  BY TcpSegmentFields DEF Flags
<1>2. toDev' = q \/ toDev' = Append(q, TcpSegment(c, "RST", 0))
  BY DEF Teardown, Transmit
<1> QED
  BY <1>1, <1>2, SegmentPipes DEF Teardown

\* A connection that is up has a sendable to match its window.
LEMMA ConnectedWindows ==
    ASSUME Inv', conn'.state = "CONNECTED" PROVE conn'.sendable >= 0
<1>1. conn' \in WideConn /\ conn'.sendable = Sendable(conn')
  BY DEF Inv, Daemon, Fits, Fresh
<1> QED
  BY <1>1, SendableNat

\* device_tcp_input keeps them.
LEMMA DeviceTcpInputWindows ==
    ASSUME Inv, Inv', Flow, Windows, DeviceTcpInput PROVE Windows'
<1> DEFINE seg == Head(fromDev)
<1>1. /\ fromDev # <<>> /\ fromDev' = Tail(fromDev) /\ peer' = peer /\ plugged' = plugged
      /\ \/ TcpInputNoConnection(seg) \/ TcpInputRefused(seg) \/ TcpInputEstablished(seg)
         \/ TcpInputReset(seg) \/ TcpInputData(seg)
  BY DEF DeviceTcpInput, envVars
<1>2. Tail(fromDev) \in Seq(Segment) /\ seg \in Segment /\ seg.win * WinUnit >= 0
  BY <1>1, SegmentPipes DEF Windows
<1>3. CASE TcpInputNoConnection(seg)
  <2>1. AnonRst(seg) \in Segment
    BY <1>2, SeqInts DEF AnonRst, Segment, Flags
  <2>2. conn' = conn /\ (toDev' = toDev \/ toDev' = Append(toDev, AnonRst(seg)))
    BY <1>3 DEF TcpInputNoConnection, Transmit
  <2> QED
    BY <1>1, <1>2, <2>1, <2>2, SegmentPipes DEF Windows
<1>4. ASSUME NEW c \in WideConn, NEW cause, Teardown(c, toDev, TRUE, cause) PROVE Windows'
  BY <1>1, <1>2, <1>4, TeardownWindows, NewWindows DEF Windows
<1>5. CASE TcpInputRefused(seg) \/ TcpInputReset(seg)
  BY <1>1, <1>4, <1>5, EndedEffects
<1>6. ASSUME conn'.state = "CONNECTED", conn'.rx_win = seg.win * WinUnit,
             NEW s \in Segment, toDev' = Append(toDev, s)
      PROVE  Windows'
  BY <1>1, <1>2, <1>6, ConnectedWindows, SegmentPipes DEF Windows
<1>7. CASE TcpInputEstablished(seg)
  BY <1>1, <1>4, <1>6, <1>7, EstablishedEffects DEF Connected, AckOf
<1>8. CASE TcpInputData(seg)
  BY <1>1, <1>4, <1>6, <1>8, DataEffects DEF Connected, AckOf
<1> QED
  BY <1>1, <1>3, <1>5, <1>7, <1>8

\* So does client_process.
LEMMA ClientProcessWindows ==
    ASSUME Inv, Inv', Flow, Windows, ClientProcess PROVE Windows'
<1>1. peer' = peer /\ fromDev' = fromDev /\ plugged' = plugged
  BY DEF ClientProcess
<1>2. CASE UNCHANGED <<conn, toDev>>
  BY <1>1, <1>2 DEF Windows
<1>3. CASE AbortConnect
  <2>1. TcpSegment(conn, "RST", 0) \in Segment
    BY Parts, TcpSegmentFields DEF Flags
  <2>2. conn' = FreedConnection /\ (toDev' = toDev \/ toDev' = Append(toDev, TcpSegment(conn, "RST", 0)))
    BY <1>3 DEF AbortConnect, Transmit
  <2> QED
    BY <1>1, <2>1, <2>2, SegmentPipes, NewWindows DEF Windows
<1>4. ASSUME NEW c \in WideConn, NEW q \in Seq(Segment), NEW cause, Teardown(c, q, TRUE, cause)
      PROVE  Windows'
  BY <1>1, <1>4, TeardownWindows, NewWindows DEF Windows
<1>5. CASE DeviceClientProcess
  <2>1. CASE Teardown(conn, toDev, TRUE, "client")
    BY <1>4, <2>1, Parts DEF Windows
  <2>2. ASSUME NEW c \in WideConn, NEW a, ClientRead(c, a), c.state = "CONNECTED",
               c.rx_ack = conn.rx_ack, c.rx_win = conn.rx_win, c.tx_seq = conn.tx_seq
        PROVE  Windows'
    <3>1. toDev \in Seq(Segment) /\ conn.rx_win >= 0 /\ conn.state = "CONNECTED"
      BY <1>5, DeviceClientProcessCases DEF Windows
    <3>2. ASSUME conn'.state = "CONNECTED", conn'.rx_win = conn.rx_win, toDev' \in Seq(Segment)
          PROVE  Windows'
      BY <1>1, <3>1, <3>2, ConnectedWindows DEF Windows
    <3>3. CASE Connected(conn', c.tx_seq, c.tx_ack, c.ib_size, c.rx_ack, c.rx_win) /\ toDev' = toDev
      BY <2>2, <3>1, <3>2, <3>3 DEF Connected
    <3>4. CASE \E cause \in {"client", "usb"} : Teardown(c, toDev, TRUE, cause)
      BY <1>4, <3>1, <3>4
    <3>5. ASSUME NEW n \in Nat, NEW s, AckOf(s, c, c.tx_seq, n),
                 \/ /\ Connected(conn', Add(c.tx_seq, n), c.tx_ack, c.ib_size, c.rx_ack, c.rx_win)
                    /\ toDev' = Append(toDev, s)
                 \/ Teardown(c, Append(toDev, s), TRUE, "usb")
          PROVE  Windows'
      <4>1. Append(toDev, s) \in Seq(Segment)
        BY <3>1, <3>5, SegmentPipes DEF AckOf
      <4> QED
        BY <1>4, <2>2, <3>2, <3>5, <4>1 DEF Connected
    <3> QED
      BY <2>2, <3>1, <3>3, <3>4, <3>5, ClientReadEffects
  <2> QED
    BY <1>5, <2>1, <2>2, DeviceClientProcessCases DEF Connected
<1> QED
  BY <1>2, <1>3, <1>5 DEF ClientProcess, ClientProcessConnecting

\* So do the delayed ACK, Connect, unplugging, polling and time.
LEMMA DaemonWindows ==
    ASSUME Inv, Inv', Flow, Windows,
           CheckTimeouts \/ StartConnect \/ DeviceRemove \/ Poll \/ Tick \/ App
    PROVE  Windows'
<1>1. CASE CheckTimeouts
  <2>1. peer' = peer /\ fromDev' = fromDev /\ plugged' = plugged
    BY <1>1, CheckTimeoutsEffects
  <2>2. CASE Teardown(conn, toDev, TRUE, "usb")
    BY <2>1, <2>2, Parts, TeardownWindows, NewWindows DEF Windows
  <2>3. ASSUME Connected(conn', conn.tx_seq, conn.tx_ack, conn.ib_size, conn.rx_ack, conn.rx_win),
               NEW s, AckOf(s, conn, conn.tx_seq, 0), toDev' = Append(toDev, s)
        PROVE  Windows'
    BY <2>1, <2>3, ConnectedWindows, SegmentPipes DEF Windows, Connected, AckOf
  <2> QED
    BY <1>1, <2>2, <2>3, CheckTimeoutsEffects
<1>2. CASE StartConnect
  <2> DEFINE s == TcpSegment(NewConnection, "SYN", 0)
  <2>1. s \in Segment
    BY FreedFacts, TcpSegmentFields DEF Flags
  <2>2. /\ peer' = peer /\ fromDev' = fromDev /\ plugged' = plugged
        /\ conn' = Acked(NewConnection) \/ conn' = FreedConnection
        /\ toDev' = toDev \/ toDev' = Append(toDev, s)
    BY <1>2 DEF StartConnect, envVars, Transmit
  <2> HIDE DEF s
  <2> QED
    BY <2>1, <2>2, NewWindows, SegmentPipes DEF Windows
<1>3. CASE DeviceRemove
  <2>1. /\ plugged' = FALSE /\ fromDev' = <<>> /\ peer' = [peer EXCEPT !.state = "CLOSED"]
        /\ toDev' = <<>> /\ (conn' = conn \/ conn' = FreedConnection)
    BY <1>3 DEF DeviceRemove, Teardown
  <2>2. peer'.state = "CLOSED" /\ peer'.wnd = peer.wnd
    BY <2>1, Parts DEF WidePeer
  <2> QED
    BY <2>1, <2>2, NewWindows, SegmentPipes DEF Windows
<1>4. CASE Poll \/ App
  BY <1>4 DEF Poll, App, envVars, Windows
<1>5. CASE Tick
  <2>1. /\ conn' = [conn EXCEPT !.ack_due = TRUE] /\ peer' = peer /\ toDev' = toDev
        /\ fromDev' = fromDev /\ plugged' = plugged
    BY <1>5 DEF Tick, envVars
  <2>2. conn'.rx_win = conn.rx_win /\ conn'.sendable = conn.sendable
    BY <2>1, Parts DEF WideConn
  <2> QED
    BY <2>1, <2>2 DEF Windows
<1> QED
  BY <1>1, <1>2, <1>3, <1>4, <1>5

\* And so does the endpoint, because its buffer never holds more than DevWin.
LEMMA PeerWindows ==
    ASSUME Inv, Inv', Flow, Windows,
           PeerInput \/ PeerSend \/ PeerAck \/ PeerConsume \/ PeerClose
    PROVE  Windows'
<1>1. peer \in WidePeer /\ peer.buf >= 0 /\ peer.buf <= DevWin
  BY Parts DEF Flows
<1>2. ASSUME NEW fl \in Flags, NEW n \in Nat PROVE PeerSegment(peer, fl, n) \in Segment
  BY <1>1, PeerSegmentFields
<1>3. CASE PeerSend \/ PeerAck \/ PeerClose
  <2>1. /\ conn' = conn /\ toDev' = toDev /\ plugged' = plugged
        /\ \E fl \in Flags, n \in Nat : fromDev' = Append(fromDev, PeerSegment(peer, fl, n))
    <3>1. CASE PeerSend
      <4>1. PICK n \in 1 .. peer.wnd - Outstanding : fromDev' = Append(fromDev, PeerSegment(peer, "ACK", n))
        BY Zenon, <3>1 DEF PeerSend
      <4>2. n \in Nat
        BY <4>1
      <4> QED
        BY <3>1, <4>1, <4>2 DEF PeerSend, PeerUnchanged, Flags
    <3>2. CASE PeerAck \/ PeerClose
      <4>1. 0 \in Nat
        OBVIOUS
      <4> QED
        BY <3>2, <4>1 DEF PeerAck, PeerClose, PeerUnchanged, Flags
    <3> QED
      BY <1>3, <3>1, <3>2
  <2>2. peer'.wnd = peer.wnd /\ peer'.state \in {"EST", "CLOSED"}
    BY <1>1, <1>3 DEF PeerSend, PeerAck, PeerClose, WidePeer
  <2> QED
    BY <1>2, <2>1, <2>2, SegmentPipes DEF Windows
<1>4. CASE PeerConsume
  <2>1. /\ conn' = conn /\ toDev' = toDev /\ fromDev' = fromDev /\ plugged' = plugged
        /\ peer'.wnd = peer.wnd /\ peer'.state = "EST"
    BY <1>1, <1>4 DEF PeerConsume, PeerUnchanged, WidePeer
  <2> QED
    BY <2>1 DEF Windows
<1>5. CASE PeerInput
  <2> DEFINE seg == Head(toDev)
             w == seg.win * WinUnit
  <2>1. /\ toDev # <<>> /\ toDev' = Tail(toDev) /\ conn' = conn /\ plugged' = plugged
        /\ PeerAccept(seg) \/ PeerTakes(seg) \/ PeerIsReset(seg)
    BY <1>5 DEF PeerInput, PeerUnchanged
  <2>2. Tail(toDev) \in Seq(Segment) /\ seg \in Segment /\ w >= 0
    BY <2>1, SegmentPipes DEF Windows
  <2>3. CASE PeerAccept(seg)
    <3> DEFINE p == [peer EXCEPT !.rcv = Add(seg.seq, 1), !.wnd = w]
    <3>1. p \in WidePeer /\ p.buf = peer.buf /\ p.wnd = w
      <4>1. Add(seg.seq, 1) \in Seqno /\ w \in Int
        <5>1. seg.seq \in Int /\ seg.win \in Int
          <6>1. seg.seq \in Seqno /\ seg.win \in Nat
            BY <2>2 DEF Segment
          <6> HIDE DEF seg
          <6>2. seg.seq \in Int
            BY <6>1, SeqInts
          <6>3. seg.win \in Int
            BY <6>1
          <6> QED
            BY <6>2, <6>3
        <5> HIDE DEF seg
        <5> QED
          BY <5>1, SeqTypes, SizesAssumption
      <4> HIDE DEF seg, w
      <4> QED
        BY <1>1, <4>1 DEF WidePeer
    <3>2. PICK fl \in {"SYNACK", "RST", "FIN"} :
            /\ fromDev' = Append(fromDev, PeerSegment(p, fl, 0))
            /\ peer' = IF fl = "SYNACK" THEN [p EXCEPT !.state = "SYNRCVD", !.snd = Add(p.snd, 1)]
                       ELSE [p EXCEPT !.state = "CLOSED"]
      BY <2>3 DEF PeerAccept
    <3> HIDE DEF p, w, seg
    <3>3. PeerSegment(p, fl, 0) \in Segment
      BY <1>1, <3>1, PeerSegmentFields DEF Flags
    <3>4. peer'.wnd = w /\ peer'.buf = peer.buf
      BY <3>1, <3>2 DEF WidePeer
    <3>5. peer.buf = 0
      BY <2>3 DEF PeerAccept, Windows
    <3> QED
      BY <2>1, <2>2, <3>2, <3>3, <3>4, <3>5, SegmentPipes DEF Windows
  <2>4. CASE PeerTakes(seg)
    <3>1. peer'.wnd = w /\ peer'.state = "EST" /\ fromDev' = fromDev
      <4> HIDE DEF seg
      <4> QED
        BY <1>1, <2>4 DEF PeerTakes, WidePeer
    <3> QED
      BY <2>1, <2>2, <3>1 DEF Windows
  <2>5. CASE PeerIsReset(seg)
    <3>1. peer'.wnd = peer.wnd /\ peer'.state = "CLOSED" /\ fromDev' = fromDev
      BY <1>1, <2>5 DEF PeerIsReset, WidePeer
    <3> QED
      BY <2>1, <2>2, <3>1 DEF Windows
  <2> QED
    BY <2>1, <2>3, <2>4, <2>5
<1> QED
  BY <1>3, <1>4, <1>5

\* The windows before any Connect, ...
LEMMA WindowsInit == Init => Windows
BY SegmentPipes DEF Init, Windows, NewConnection

\* ... after every step, ...
LEMMA WindowsNext == Inv /\ Inv' /\ Flow /\ Windows /\ [Next]_vars => Windows'
<1>1. ASSUME Windows, vars' = vars PROVE Windows'
  BY <1>1 DEF vars, Windows
<1>2. ASSUME Inv, Inv', Flow, Windows, Next PROVE Windows'
  BY <1>2, DeviceTcpInputWindows, ClientProcessWindows, DaemonWindows, PeerWindows DEF Next, Prompt
<1> QED
  BY <1>1, <1>2

\* ... and what they add to the types.
LEMMA WindowsImply == Inv /\ Flow /\ Windows => TypeOK
<1> SUFFICES ASSUME Inv, Flow, Windows PROVE TypeOK
  OBVIOUS
<1>1. conn \in Connection
  <2>1. conn \in WideConn /\ conn.rx_win >= 0 /\ conn.sendable >= 0
    BY Parts DEF Windows
  <2>2. conn.rx_win \in Nat /\ conn.sendable \in Nat
    BY <2>1 DEF WideConn
  <2> QED
    BY <2>1, <2>2 DEF WideConn, Connection
<1>2. peer \in [state : {"LISTEN", "SYNRCVD", "EST", "CLOSED"}, snd : Seqno, una : Seqno,
                wnd : Nat, rcv : Seqno, buf : Nat, owes : BOOLEAN]
  <2>1. peer \in WidePeer /\ peer.wnd >= 0 /\ peer.buf >= 0
    BY Parts DEF Windows, Flows
  <2>2. peer.wnd \in Nat /\ peer.buf \in Nat
    BY <2>1 DEF WidePeer
  <2> QED
    BY <2>1, <2>2 DEF WidePeer
<1> QED
  BY <1>1, <1>2 DEF TypeOK, Windows, Inv, Daemon, Outside, ClientRecord, AppRecord, FinRecord

\* Every variable keeps its type: in particular no window, neither the one the
\* device announces in th_win nor what update_connection computes from it,
\* is ever negative.
THEOREM TcpTypes == Spec => []TypeOK
  BY InvInit, InvNext, FlowInit, FlowNext, WindowsInit, WindowsNext, WindowsImply, PTL DEF Spec

-----------------------------------------------------------------------------
(* Each direction is a bounded pipe: every step is one of BoundedPipe's, or *)
(* leaves the pipe alone.                                                   *)
DownStep == Down!PipeNext \/ UNCHANGED Down!pipeVars
UpStep == Up!PipeNext \/ UNCHANGED Up!pipeVars

\* What the numbers of the two ends say of the bytes between them: from the
\* device, ...
LEMMA DownCounts ==
    ASSUME NEW c \in WideConn, NEW p \in WidePeer, NEW t \in Seq(WideSegment),
           NEW f \in Seq(WideSegment), NEW on, Flows(c, p, t, f, on), c.state = "CONNECTED"
    PROVE  /\ c.ib_size \in Nat /\ Sub(p.snd, p.una) \in Nat /\ Sub(c.tx_ack, p.una) \in Nat
           /\ Sub(p.snd, Add(c.tx_ack, c.ib_size)) \in Nat
           /\ Sub(p.snd, Add(c.tx_ack, c.ib_size))
                = Sub(p.snd, p.una) - Sub(c.tx_ack, p.una) - c.ib_size
           /\ Sub(p.snd, Add(c.tx_ack, c.ib_size)) + c.ib_size <= TxWin
<1> DEFINE next == Add(c.tx_ack, c.ib_size)
           snd == Sub(p.snd, p.una)
           ack == Sub(c.tx_ack, p.una)
<1>1. Receiving(c, p, t, f) /\ snd <= ack + TxWin
  BY DEF Flows, Live, Receiving
<1>2. /\ c.tx_ack \in Seqno /\ c.ib_size \in Nat /\ p.una \in Seqno /\ p.snd \in Seqno
      /\ ack \in Nat /\ snd \in Nat /\ ack + c.ib_size <= snd /\ snd < SeqMod
  BY <1>1, ReceivingFacts
<1>3. ack + c.ib_size < SeqMod
  <2>1. SeqMod \in Nat
    BY SizesAssumption
  <2> HIDE DEF ack, snd
  <2> QED
    BY <1>2, <2>1
<1>4. next \in Seqno /\ Sub(next, p.una) = ack + c.ib_size
  BY <1>2, <1>3, Forward
<1> HIDE DEF next
<1>5. Sub(p.snd, next) = snd - Sub(next, p.una)
  BY <1>2, <1>4, Rebase
<1>6. TxWin \in Nat
  BY SizesAssumption
<1>7. Sub(p.snd, next) \in Nat /\ Sub(p.snd, next) = snd - ack - c.ib_size
      /\ Sub(p.snd, next) + c.ib_size <= TxWin
  <2> HIDE DEF ack, snd
  <2> QED
    BY <1>1, <1>2, <1>4, <1>5, <1>6
<1> QED
  BY <1>2, <1>7 DEF next

\* ... and to the device.
LEMMA UpCounts ==
    ASSUME NEW c \in WideConn, NEW p \in WidePeer, NEW t \in Seq(WideSegment),
           NEW f \in Seq(WideSegment), NEW on, Flows(c, p, t, f, on), c.state = "CONNECTED",
           p.state # "CLOSED"
    PROVE  /\ Open(p) /\ Sending(c, p, t, f) /\ p.buf \in Nat
           /\ Sub(c.tx_seq, p.rcv) \in Nat /\ Sub(c.tx_seq, p.rcv) + p.buf <= DevWin
<1>1. p.state # "LISTEN" /\ p.buf >= 0
  BY DEF Flows, Handshake
<1>2. Open(p)
  BY <1>1 DEF Open, WidePeer
<1>3. Sending(c, p, t, f)
  BY <1>2 DEF Flows, Live
<1>4. Sent(c) = c.tx_seq
  BY DEF Sent
<1>5. /\ Sub(c.tx_seq, p.rcv) \in Nat /\ Sub(c.tx_seq, p.rcv) + p.buf <= DevWin
      /\ p.buf \in Int
  BY <1>3, <1>4, SendingFacts
<1> QED
  BY <1>1, <1>2, <1>3, <1>5

\* The invariants after a step.
LEMMA PartsNext ==
    ASSUME Inv', Flow'
    PROVE  /\ conn' \in WideConn /\ peer' \in WidePeer
           /\ toDev' \in Seq(WideSegment) /\ fromDev' \in Seq(WideSegment)
           /\ Flows(conn', peer', toDev', fromDev', plugged')
BY DEF Inv, Daemon, Pipes, Outside, Flow

\* Freeing the connection closes both pipes, ...
LEMMA FreeingCloses ==
    ASSUME conn'.state = "FREED" PROVE DownStep /\ UpStep
<1>1. DownStep
  BY DEF DownStep, Down!PipeNext, Down!Close, Down!pipeVars, DownPhase, DownOnWay, DownHeld, DownOpen
<1>2. UpStep
  BY DEF UpStep, Up!PipeNext, Up!Close, Up!pipeVars, UpPhase, UpOnWay, UpHeld, UpOpen, UpClosed
<1> QED
  BY <1>1, <1>2

\* ... the endpoint closes the one to it, ...
LEMMA EndpointCloses ==
    ASSUME peer'.state = "CLOSED" PROVE UpStep
BY DEF UpStep, Up!PipeNext, Up!Close, Up!pipeVars, UpPhase, UpOnWay, UpHeld, UpOpen, UpClosed

\* ... and a step that keeps the numbers leaves the pipes alone.
LEMMA DownRests ==
    ASSUME \/ conn'.state = conn.state
           \/ conn.state \in {"NONE", "CONNECTING"} /\ conn'.state \in {"NONE", "CONNECTING"},
           conn.state = "CONNECTED" =>
               conn'.tx_ack = conn.tx_ack /\ conn'.ib_size = conn.ib_size /\ peer'.snd = peer.snd
    PROVE  DownStep
BY DEF DownStep, Down!pipeVars, DownPhase, DownOnWay, DownHeld, DownOpen

\* The same for the pipe to the device.
LEMMA UpRests ==
    ASSUME \/ conn'.state = conn.state
           \/ conn.state \in {"NONE", "CONNECTING"} /\ conn'.state \in {"NONE", "CONNECTING"},
           peer'.state = "CLOSED" <=> peer.state = "CLOSED",
           conn.state = "CONNECTED" =>
               conn'.tx_seq = conn.tx_seq /\ peer'.rcv = peer.rcv /\ peer'.buf = peer.buf
    PROVE  UpStep
BY DEF UpStep, Up!pipeVars, UpPhase, UpOnWay, UpHeld, UpOpen, UpClosed

\* Bytes that are sent, that arrive, that are taken: from the device, ...
LEMMA DownMoves ==
    ASSUME conn.state = "CONNECTED", conn'.state = "CONNECTED", NEW n \in Nat,
           NEW way \in Nat, way = Sub(peer.snd, Add(conn.tx_ack, conn.ib_size)),
           NEW new \in Nat, new = Sub(peer'.snd, Add(conn'.tx_ack, conn'.ib_size)),
           conn.ib_size \in Nat, conn'.ib_size \in Nat,
           \/ new = way + n /\ conn'.ib_size = conn.ib_size /\ new + conn.ib_size <= TxWin
           \/ new = way - n /\ conn'.ib_size = conn.ib_size + n
           \/ new = way /\ conn'.ib_size = conn.ib_size - n
    PROVE  DownStep
<1> DEFINE h == conn.ib_size
           k == conn'.ib_size
<1>1. /\ DownPhase = "open" /\ DownPhase' = "open" /\ DownOnWay = way /\ DownOnWay' = new
      /\ DownHeld = h /\ DownHeld' = k
  BY DEF DownPhase, DownOnWay, DownHeld, DownOpen
<1>2. h \in Nat /\ k \in Nat /\ TxWin \in Nat
  BY SizesAssumption
<1>3. \/ new = way + n /\ k = h /\ new + h <= TxWin
      \/ new = way - n /\ k = h + n
      \/ new = way /\ k = h - n
  OBVIOUS
<1> HIDE DEF h, k
<1>4. CASE n = 0
  <2>1. new = way /\ k = h
    BY <1>2, <1>3, <1>4
  <2> QED
    BY <1>1, <2>1 DEF DownStep, Down!pipeVars
<1>5. CASE n # 0 /\ new = way + n /\ k = h /\ new + h <= TxWin
  <2>1. n \in 1 .. TxWin /\ way + h + n <= TxWin
    BY <1>2, <1>5
  <2> QED
    BY <1>1, <1>5, <2>1 DEF DownStep, Down!PipeNext, Down!Send
<1>6. CASE n # 0 /\ new = way - n /\ k = h + n
  <2>1. n \in 1 .. way
    BY <1>2, <1>6
  <2> QED
    BY <1>1, <1>6, <2>1 DEF DownStep, Down!PipeNext, Down!Arrive
<1>7. CASE n # 0 /\ new = way /\ k = h - n
  <2>1. n \in 1 .. h
    BY <1>2, <1>7
  <2> QED
    BY <1>1, <1>7, <2>1 DEF DownStep, Down!PipeNext, Down!Take
<1> QED
  BY <1>3, <1>4, <1>5, <1>6, <1>7

\* ... and to the device.
LEMMA UpMoves ==
    ASSUME conn.state = "CONNECTED", conn'.state = "CONNECTED", NEW n \in Nat,
           peer.state # "CLOSED", peer'.state # "CLOSED",
           NEW way \in Nat, way = Sub(conn.tx_seq, peer.rcv),
           NEW new \in Nat, new = Sub(conn'.tx_seq, peer'.rcv),
           peer.buf \in Nat, peer'.buf \in Nat,
           \/ new = way + n /\ peer'.buf = peer.buf /\ new + peer.buf <= DevWin
           \/ new = way - n /\ peer'.buf = peer.buf + n
           \/ new = way /\ peer'.buf = peer.buf - n
    PROVE  UpStep
<1> DEFINE h == peer.buf
           k == peer'.buf
<1>1. /\ UpPhase = "open" /\ UpPhase' = "open" /\ UpOnWay = way /\ UpOnWay' = new
      /\ UpHeld = h /\ UpHeld' = k
  BY DEF UpPhase, UpOnWay, UpHeld, UpOpen
<1>2. h \in Nat /\ k \in Nat /\ DevWin \in Nat
  BY SizesAssumption
<1>3. \/ new = way + n /\ k = h /\ new + h <= DevWin
      \/ new = way - n /\ k = h + n
      \/ new = way /\ k = h - n
  OBVIOUS
<1> HIDE DEF h, k
<1>4. CASE n = 0
  <2>1. new = way /\ k = h
    BY <1>2, <1>3, <1>4
  <2> QED
    BY <1>1, <2>1 DEF UpStep, Up!pipeVars
<1>5. CASE n # 0 /\ new = way + n /\ k = h /\ new + h <= DevWin
  <2>1. n \in 1 .. DevWin /\ way + h + n <= DevWin
    BY <1>2, <1>5
  <2> QED
    BY <1>1, <1>5, <2>1 DEF UpStep, Up!PipeNext, Up!Send
<1>6. CASE n # 0 /\ new = way - n /\ k = h + n
  <2>1. n \in 1 .. way
    BY <1>2, <1>6
  <2> QED
    BY <1>1, <1>6, <2>1 DEF UpStep, Up!PipeNext, Up!Arrive
<1>7. CASE n # 0 /\ new = way /\ k = h - n
  <2>1. n \in 1 .. h
    BY <1>2, <1>7
  <2> QED
    BY <1>1, <1>7, <2>1 DEF UpStep, Up!PipeNext, Up!Take
<1> QED
  BY <1>3, <1>4, <1>5, <1>6, <1>7

\* The SYNACK opens both pipes, with nothing in them.
LEMMA EstablishedOpens ==
    ASSUME Inv, Inv', Flow, Flow', Windows, fromDev # <<>>, peer' = peer,
           conn.state = "CONNECTING", Head(fromDev).flags = "SYNACK",
           Connected(conn', Add(conn.tx_seq, 1), Add(conn.tx_ack, 1), 0, Head(fromDev).ack,
                     Head(fromDev).win * WinUnit)
    PROVE  DownStep /\ UpStep
<1> DEFINE seg == Head(fromDev)
           snd == Sub(peer.snd, peer.una)
           ack == Sub(conn.tx_ack, peer.una)
<1>1. /\ conn'.state = "CONNECTED" /\ conn'.tx_seq = Add(conn.tx_seq, 1)
      /\ conn'.tx_ack = Add(conn.tx_ack, 1) /\ conn'.ib_size = 0
  BY DEF Connected
<1>2. /\ Receiving(conn, peer, toDev, fromDev) /\ snd <= 1
      /\ peer.state # "LISTEN" /\ peer.state # "EST" /\ toDev = <<>>
  BY Parts DEF Flows, Live, Handshake
<1>3. DownStep
  <2>1. /\ conn.tx_ack \in Seqno /\ peer.una \in Seqno /\ peer.snd \in Seqno
        /\ ack \in Nat /\ snd \in Nat /\ ack + conn.ib_size <= snd /\ snd < SeqMod
        /\ conn.ib_size = 0
    BY <1>2, Parts, ReceivingFacts
  <2>2. ack <= Sub(seg.seq, peer.una) /\ Sub(seg.seq, peer.una) + Extent(seg) <= snd
    <3>1. Ordered(fromDev, peer.una, ack + conn.ib_size, snd)
      BY <1>2 DEF Receiving
    <3>2. ack + conn.ib_size \in Int /\ snd \in Int /\ ack + conn.ib_size = ack
      BY <2>1
    <3> HIDE DEF ack, snd
    <3> QED
      BY <2>1, <3>1, <3>2, Parts, OrderedTail
  <2>3. Extent(seg) = 1 /\ Sub(seg.seq, peer.una) \in Nat
    <3>1. seg \in WideSegment
      BY Parts, TailFacts
    <3>2. seg.seq \in Seqno
      BY <3>1, SegmentNumbers
    <3> QED
      BY <2>1, <3>2, SubCases DEF Extent
  <2>4. ack = 0 /\ snd = 1 /\ ack + 1 < SeqMod
    <3>1. SeqMod \in Nat
      BY SizesAssumption
    <3> HIDE DEF ack, snd, seg
    <3> QED
      BY <1>2, <2>1, <2>2, <2>3, <3>1
  <2>5. 1 \in Nat
    OBVIOUS
  <2>6. Sub(conn'.tx_ack, peer.una) = ack + 1
    BY <1>1, <2>1, <2>4, <2>5, Forward
  <2>7. Sub(peer'.snd, Add(conn'.tx_ack, conn'.ib_size))
          = Sub(peer'.snd, peer'.una) - Sub(conn'.tx_ack, peer'.una) - conn'.ib_size
    BY <1>1, PartsNext, DownCounts
  <2>8. Sub(peer'.snd, Add(conn'.tx_ack, conn'.ib_size)) = 0
    <3>1. Sub(peer'.snd, Add(conn'.tx_ack, conn'.ib_size)) = snd - (ack + 1) - 0
      BY <1>1, <2>6, <2>7
    <3> HIDE DEF ack, snd
    <3> QED
      BY <2>4, <3>1
  <2>9. DownPhase = "new" /\ DownPhase' = "open" /\ DownOnWay' = 0 /\ DownHeld' = 0
    BY <1>1, <2>8 DEF DownPhase, DownOnWay, DownHeld, DownOpen
  <2> QED
    BY <2>9 DEF DownStep, Down!PipeNext, Down!Open
<1>4. CASE peer.state = "CLOSED"
  BY <1>3, <1>4, EndpointCloses
<1>5. CASE peer.state # "CLOSED"
  <2>1. peer.state = "SYNRCVD" /\ peer.buf = 0 /\ peer.rcv \in Seqno
    BY <1>2, <1>5, Parts DEF Windows, WidePeer
  <2>2. Sending(conn, peer, toDev, fromDev)
    BY <2>1, Parts DEF Flows, Live, Open
  <2>3. peer.rcv = conn'.tx_seq
    BY <1>1, <1>2, <2>2 DEF Sending, Sent, Chain
  <2>4. Sub(conn'.tx_seq, peer'.rcv) = 0
    BY <2>1, <2>3, Nothing
  <2>5. UpPhase = "new" /\ UpPhase' = "open" /\ UpOnWay' = 0 /\ UpHeld' = 0
    BY <1>1, <1>5, <2>1, <2>4 DEF UpPhase, UpOnWay, UpHeld, UpOpen, UpClosed
  <2> QED
    BY <1>3, <2>5 DEF UpStep, Up!PipeNext, Up!Open
<1> QED
  BY <1>4, <1>5

\* Data that connection_device_input buffers arrives.
LEMMA DataArrives ==
    ASSUME Inv, Inv', Flow, Flow', fromDev # <<>>, peer' = peer, conn.state = "CONNECTED",
           Connected(conn', conn.tx_seq, conn.tx_ack, conn.ib_size + Head(fromDev).len,
                     Head(fromDev).ack, Head(fromDev).win * WinUnit)
    PROVE  DownStep /\ UpStep
<1> DEFINE n == Head(fromDev).len
           way == Sub(peer.snd, Add(conn.tx_ack, conn.ib_size))
           new == Sub(peer'.snd, Add(conn'.tx_ack, conn'.ib_size))
           snd == Sub(peer.snd, peer.una)
           ack == Sub(conn.tx_ack, peer.una)
<1>1. /\ conn'.state = "CONNECTED" /\ conn'.tx_seq = conn.tx_seq
      /\ conn'.tx_ack = conn.tx_ack /\ conn'.ib_size = conn.ib_size + n
  BY DEF Connected
<1>2. /\ conn.ib_size \in Nat /\ snd \in Nat /\ ack \in Nat
      /\ way \in Nat /\ way = snd - ack - conn.ib_size
  BY Parts, DownCounts
<1>3. /\ conn'.ib_size \in Nat /\ new \in Nat
      /\ new = Sub(peer'.snd, peer'.una) - Sub(conn'.tx_ack, peer'.una) - conn'.ib_size
  BY <1>1, PartsNext, DownCounts
<1>4. new = snd - ack - conn'.ib_size
  BY <1>1, <1>3
<1>5. n \in Nat
  <2>1. Head(fromDev) \in WideSegment
    BY Parts, TailFacts
  <2> QED
    BY <2>1, SegmentNumbers
<1>6. new = way - n
  <2> HIDE DEF n, way, new, snd, ack
  <2> QED
    BY <1>1, <1>2, <1>4, <1>5
<1>7. DownStep
  <2> HIDE DEF n
  <2> QED
    BY <1>1, <1>2, <1>3, <1>5, <1>6, DownMoves
<1> QED
  BY <1>1, <1>7, UpRests

\* device_tcp_input.
LEMMA DeviceTcpInputMaps ==
    ASSUME Inv, Inv', Flow, Flow', Windows, DeviceTcpInput PROVE DownStep /\ UpStep
<1> DEFINE seg == Head(fromDev)
<1>1. /\ fromDev # <<>> /\ peer' = peer
      /\ \/ TcpInputNoConnection(seg) \/ TcpInputRefused(seg) \/ TcpInputEstablished(seg)
         \/ TcpInputReset(seg) \/ TcpInputData(seg)
  BY DEF DeviceTcpInput, envVars
<1>2. CASE TcpInputNoConnection(seg)
  BY <1>1, <1>2, DownRests, UpRests DEF TcpInputNoConnection
<1>3. ASSUME NEW c, NEW cause, Teardown(c, toDev, TRUE, cause) PROVE DownStep /\ UpStep
  BY <1>3, FreedFacts, FreeingCloses DEF Teardown
<1>4. CASE TcpInputRefused(seg) \/ TcpInputReset(seg)
  BY <1>1, <1>3, <1>4, EndedEffects
<1>5. CASE TcpInputEstablished(seg)
  BY <1>1, <1>3, <1>5, EstablishedEffects, EstablishedOpens
<1>6. CASE TcpInputData(seg)
  BY <1>1, <1>3, <1>6, DataEffects, DataArrives
<1> QED
  BY <1>1, <1>2, <1>4, <1>5, <1>6

\* What device_client_process writes to the client is taken from the one pipe,
\* what it reads from the client is sent into the other.
LEMMA ServedMaps ==
    ASSUME Inv, Inv', Flow, Flow', peer' = peer, conn.state = "CONNECTED",
           NEW size \in 0 .. conn.ib_size, NEW n \in Nat,
           n > 0 => Sub(conn.tx_seq, conn.rx_ack) + n <= conn.rx_win,
           Connected(conn', Add(conn.tx_seq, n), Add(conn.tx_ack, size), conn.ib_size - size,
                     conn.rx_ack, conn.rx_win)
    PROVE  DownStep /\ UpStep
<1>1. /\ conn'.state = "CONNECTED" /\ conn'.tx_seq = Add(conn.tx_seq, n)
      /\ conn'.tx_ack = Add(conn.tx_ack, size) /\ conn'.ib_size = conn.ib_size - size
      /\ conn.tx_ack \in Seqno /\ conn.tx_seq \in Seqno /\ conn.ib_size \in Nat
  BY Parts DEF Connected, WideConn
<1>2. DownStep
  <2> DEFINE way == Sub(peer.snd, Add(conn.tx_ack, conn.ib_size))
             new == Sub(peer'.snd, Add(conn'.tx_ack, conn'.ib_size))
  <2>1. size \in Nat /\ size \in Int /\ conn.ib_size \in Int
    BY <1>1
  <2>2. conn.tx_ack \in Int
    BY <1>1, SeqInts
  <2>3. Add(conn'.tx_ack, conn'.ib_size) = Add(conn.tx_ack, conn.ib_size)
    BY <1>1, <2>1, <2>2, AddSplit
  <2>4. way \in Nat /\ new = way /\ conn'.ib_size \in Nat
    BY <1>1, <2>3, Parts, DownCounts, PartsNext DEF WideConn
  <2> QED
    BY <1>1, <2>1, <2>4, DownMoves
<1>3. CASE peer.state = "CLOSED"
  BY <1>2, <1>3, EndpointCloses
<1>4. CASE peer.state # "CLOSED"
  <2> DEFINE way == Sub(conn.tx_seq, peer.rcv)
             new == Sub(conn'.tx_seq, peer'.rcv)
  <2>1. Sending(conn, peer, toDev, fromDev) /\ peer.buf \in Nat /\ way \in Nat /\ way + peer.buf <= DevWin
    BY <1>4, Parts, UpCounts
  <2>2. new \in Nat /\ new + peer.buf <= DevWin
    BY <1>1, <1>4, PartsNext, UpCounts
  <2>3. way + n < SeqMod
    <3> DEFINE sent == Sub(conn.tx_seq, conn.rx_ack)
               got == Sub(peer.rcv, conn.rx_ack)
    <3>1. sent \in Nat /\ got \in Nat /\ sent = got + way
      <4>1. Sent(conn) = conn.tx_seq
        BY DEF Sent
      <4> QED
        BY <2>1, <4>1, Parts, SendingFacts
    <3>2. conn.rx_win <= got + DevWin - peer.buf /\ conn.rx_win \in Int
      BY <2>1, Parts DEF Sending, WideConn
    <3>3. DevWin + 1 < SeqMod /\ DevWin \in Nat /\ SeqMod \in Nat
      BY SizesAssumption, WindowAssumption
    <3>4. n > 0 => sent + n <= conn.rx_win
      OBVIOUS
    <3> HIDE DEF sent, got, way
    <3> QED
      BY <2>1, <3>1, <3>2, <3>3, <3>4
  <2>4. new = way + n
    <3>1. peer.rcv \in Seqno
      BY Parts DEF WidePeer
    <3> QED
      BY <1>1, <2>3, <3>1, Forward
  <2>5. UpStep
    BY <1>1, <1>4, <2>1, <2>2, <2>4, UpMoves
  <2> QED
    BY <1>2, <2>5
<1> QED
  BY <1>3, <1>4

\* client_process.
LEMMA ClientProcessMaps ==
    ASSUME Inv, Inv', Flow, Flow', ClientProcess PROVE DownStep /\ UpStep
<1>1. peer' = peer
  BY DEF ClientProcess
<1>2. CASE conn' = conn
  BY <1>1, <1>2, DownRests, UpRests
<1>3. ASSUME conn' = FreedConnection PROVE DownStep /\ UpStep
  BY <1>3, FreedFacts, FreeingCloses
<1>4. CASE DeviceClientProcess
  <2>1. conn.state = "CONNECTED" /\ conn.tx_seq \in Seqno
    BY <1>4, DeviceClientProcessCases, Parts DEF WideConn
  <2>2. CASE Teardown(conn, toDev, TRUE, "client")
    BY <1>3, <2>2 DEF Teardown
  <2>3. ASSUME NEW size \in 0 .. conn.ib_size, NEW c \in WideConn, NEW a, ClientRead(c, a),
               Connected(c, conn.tx_seq, Add(conn.tx_ack, size), conn.ib_size - size,
                         conn.rx_ack, conn.rx_win)
        PROVE  DownStep /\ UpStep
    <3>1. /\ c.state = "CONNECTED" /\ c.rx_ack = conn.rx_ack /\ c.rx_win = conn.rx_win
          /\ c.tx_seq = conn.tx_seq /\ c.tx_ack = Add(conn.tx_ack, size)
          /\ c.ib_size = conn.ib_size - size
      BY <2>3 DEF Connected
    <3>2. CASE Connected(conn', c.tx_seq, c.tx_ack, c.ib_size, c.rx_ack, c.rx_win)
      <4>1. 0 \in Nat /\ ~(0 > 0)
        OBVIOUS
      <4>2. conn.tx_seq = Add(conn.tx_seq, 0)
        BY <2>1, Nothing
      <4> QED
        BY <1>1, <2>1, <3>1, <3>2, <4>1, <4>2, ServedMaps
    <3>3. ASSUME NEW n \in Nat, n > 0, Sub(c.tx_seq, c.rx_ack) + n <= c.rx_win,
                 Connected(conn', Add(c.tx_seq, n), c.tx_ack, c.ib_size, c.rx_ack, c.rx_win)
          PROVE  DownStep /\ UpStep
      BY <1>1, <2>1, <3>1, <3>3, ServedMaps
    <3>4. ASSUME NEW q, NEW cause, Teardown(c, q, TRUE, cause) PROVE DownStep /\ UpStep
      BY <1>3, <3>4 DEF Teardown
    <3> QED
      BY <2>1, <2>3, <3>1, <3>2, <3>3, <3>4, ClientReadEffects
  <2> QED
    BY <1>4, <2>2, <2>3, DeviceClientProcessCases
<1> QED
  BY <1>2, <1>3, <1>4 DEF ClientProcess, ClientProcessConnecting, AbortConnect

\* The daemon's other steps, the client's process and time.
LEMMA DaemonMaps ==
    ASSUME Inv, Inv', Flow, Flow',
           CheckTimeouts \/ StartConnect \/ DeviceRemove \/ Poll \/ Tick \/ App
    PROVE  DownStep /\ UpStep
<1>1. ASSUME conn' = FreedConnection PROVE DownStep /\ UpStep
  BY <1>1, FreedFacts, FreeingCloses
<1>2. CASE CheckTimeouts
  <2>1. peer' = peer
    BY <1>2, CheckTimeoutsEffects
  <2>2. CASE Connected(conn', conn.tx_seq, conn.tx_ack, conn.ib_size, conn.rx_ack, conn.rx_win)
    <3>1. conn'.state = conn.state
      BY <1>2, <2>2 DEF Connected, CheckTimeouts
    <3> QED
      BY <2>1, <2>2, <3>1, DownRests, UpRests DEF Connected
  <2> QED
    BY <1>1, <1>2, <2>2, CheckTimeoutsEffects DEF Teardown
<1>3. CASE StartConnect
  <2>1. /\ peer' = peer /\ conn.state = "NONE"
        /\ conn' = Acked(NewConnection) \/ conn' = FreedConnection
    BY <1>3 DEF StartConnect, envVars
  <2>2. Acked(NewConnection).state = "CONNECTING"
    BY FreedFacts, AckedFacts
  <2> QED
    BY <1>1, <2>1, <2>2, DownRests, UpRests
<1>4. CASE DeviceRemove
  <2>1. /\ peer' = [peer EXCEPT !.state = "CLOSED"]
        /\ \/ conn' = FreedConnection
           \/ conn' = conn /\ conn.state \in {"NONE", "FREED"}
    BY <1>4 DEF DeviceRemove, Teardown
  <2>2. peer'.state = "CLOSED"
    BY <2>1, Parts DEF WidePeer
  <2> QED
    BY <1>1, <2>1, <2>2, DownRests, EndpointCloses
<1>5. CASE Poll \/ App \/ Tick
  <2>1. peer' = peer /\ (conn' = conn \/ conn' = [conn EXCEPT !.ack_due = TRUE])
    BY <1>5 DEF Poll, App, Tick, envVars
  <2>2. /\ conn'.state = conn.state /\ conn'.tx_seq = conn.tx_seq /\ conn'.tx_ack = conn.tx_ack
        /\ conn'.ib_size = conn.ib_size
    BY <2>1, Parts DEF WideConn
  <2> QED
    BY <2>1, <2>2, DownRests, UpRests
<1> QED
  BY <1>2, <1>3, <1>4, <1>5

\* What the endpoint takes from the pipe arrives, unless it refuses or resets.
LEMMA PeerInputMaps ==
    ASSUME Inv, Inv', Flow, Flow', PeerInput PROVE DownStep /\ UpStep
<1> DEFINE seg == Head(toDev)
<1>1. /\ toDev # <<>> /\ conn' = conn
      /\ PeerAccept(seg) \/ PeerTakes(seg) \/ PeerIsReset(seg)
  BY DEF PeerInput, PeerUnchanged
<1>2. peer \in WidePeer /\ seg \in WideSegment
  BY <1>1, Parts, TailFacts
<1>3. CASE PeerAccept(seg)
  <2>1. conn.state # "CONNECTED" /\ peer.state = "LISTEN"
    BY <1>3, Parts DEF PeerAccept, Flows, Handshake
  <2>2. peer'.state \in {"SYNRCVD", "CLOSED"}
    BY <1>2, <1>3 DEF PeerAccept, WidePeer
  <2>3. DownStep
    BY <1>1, <2>1, DownRests
  <2>4. CASE peer'.state = "CLOSED"
    BY <2>3, <2>4, EndpointCloses
  <2>5. CASE peer'.state = "SYNRCVD"
    BY <1>1, <2>1, <2>3, <2>5, UpRests
  <2> QED
    BY <2>2, <2>4, <2>5
<1>4. CASE PeerTakes(seg)
  <2> DEFINE n == seg.len
  <2>1. /\ peer'.state = "EST" /\ peer'.snd = peer.snd /\ peer'.rcv = Add(peer.rcv, n)
        /\ peer'.buf = peer.buf + n /\ peer.state # "CLOSED" /\ seg.flags = "ACK"
    <3> HIDE DEF seg
    <3> QED
      BY <1>2, <1>4 DEF PeerTakes, WidePeer
  <2>2. DownStep
    BY <1>1, <2>1, DownRests
  <2>3. CASE conn.state # "CONNECTED"
    BY <1>1, <2>1, <2>2, <2>3, UpRests
  <2>4. CASE conn.state = "CONNECTED"
    <3> DEFINE way == Sub(conn.tx_seq, peer.rcv)
               new == Sub(conn'.tx_seq, peer'.rcv)
    <3>1. Sending(conn, peer, toDev, fromDev) /\ peer.buf \in Nat /\ way \in Nat
      BY <2>1, <2>4, Parts, UpCounts
    <3>2. peer'.buf \in Nat /\ new \in Nat
      BY <1>1, <2>1, <2>4, PartsNext, UpCounts
    <3>3. n \in Nat /\ conn.tx_seq \in Seqno /\ peer.rcv \in Seqno /\ seg.seq \in Seqno
      BY <1>2, Parts, SegmentNumbers DEF WideConn, WidePeer
    <3>4. seg.seq = peer.rcv /\ Sub(seg.seq, peer.rcv) + Extent(seg) <= way
      <4>1. Sent(conn) = conn.tx_seq
        BY <2>4 DEF Sent
      <4>2. Chain(toDev, peer.rcv, conn.tx_seq) /\ Ordered(toDev, peer.rcv, 0, way)
        BY <3>1, <4>1 DEF Sending
      <4>3. 0 \in Int /\ way \in Int
        BY <3>1
      <4> HIDE DEF way
      <4> QED
        BY <1>1, <3>3, <4>2, <4>3, Parts, ChainTail, OrderedTail
    <3>5. Extent(seg) = n /\ Sub(peer.rcv, peer.rcv) = 0
      BY <2>1, <3>3, Nothing DEF Extent
    <3>6. n <= way /\ 0 + n < SeqMod
      <4>1. way < SeqMod /\ SeqMod \in Nat
        BY <3>3, SubCases, SizesAssumption
      <4>2. 0 + n <= way
        BY <3>4, <3>5
      <4> HIDE DEF way, n
      <4> QED
        BY <3>1, <3>3, <4>1, <4>2
    <3>7. Add(peer.rcv, n) \in Seqno /\ Sub(Add(peer.rcv, n), peer.rcv) = n
      <4>1. Add(peer.rcv, n) \in Seqno /\ Sub(Add(peer.rcv, n), peer.rcv) = 0 + n
        BY <3>3, <3>5, <3>6, Forward
      <4> HIDE DEF n
      <4> QED
        BY <3>3, <4>1
    <3>8. new = way - n
      BY <1>1, <2>1, <3>3, <3>6, <3>7, Rebase
    <3>9. UpStep
      <4> HIDE DEF n
      <4> QED
        BY <1>1, <2>1, <2>4, <3>1, <3>2, <3>3, <3>8, UpMoves
    <3> QED
      BY <2>2, <3>9
  <2> QED
    BY <2>3, <2>4
<1>5. CASE PeerIsReset(seg)
  <2>1. peer'.state = "CLOSED" /\ peer'.snd = peer.snd
    BY <1>2, <1>5 DEF PeerIsReset, WidePeer
  <2> QED
    BY <1>1, <2>1, DownRests, EndpointCloses
<1> QED
  BY <1>1, <1>3, <1>4, <1>5

\* What the endpoint sends enters the one pipe, what its service consumes
\* leaves the other.
LEMMA PeerMovesMap ==
    ASSUME Inv, Inv', Flow, Flow', PeerSend \/ PeerAck \/ PeerConsume \/ PeerClose
    PROVE  DownStep /\ UpStep
<1>1. /\ peer \in WidePeer /\ peer.snd \in Seqno /\ peer.una \in Seqno /\ peer.wnd \in Int
      /\ peer.buf \in Int /\ conn \in WideConn
  BY Parts DEF WidePeer
<1>2. conn' = conn
  BY DEF PeerSend, PeerAck, PeerConsume, PeerClose, PeerUnchanged
<1>3. CASE PeerSend
  <2>1. PICK n \in 1 .. peer.wnd - Outstanding :
          peer' = [peer EXCEPT !.snd = Add(peer.snd, n), !.owes = FALSE]
    BY Zenon, <1>3 DEF PeerSend
  <2>2. /\ peer'.state = peer.state /\ peer'.snd = Add(peer.snd, n)
        /\ peer'.rcv = peer.rcv /\ peer'.buf = peer.buf
    BY <1>1, <2>1 DEF WidePeer
  <2>3. n \in Nat /\ Sub(peer.snd, peer.una) + n <= peer.wnd
    <3>1. Sub(peer.snd, peer.una) \in Nat
      BY <1>1, SubCases
    <3> QED
      BY <1>1, <3>1 DEF Outstanding
  <2>4. UpStep
    BY <1>2, <2>2, UpRests
  <2>5. CASE conn.state # "CONNECTED"
    BY <1>2, <2>4, <2>5, DownRests
  <2>6. CASE conn.state = "CONNECTED"
    <3> DEFINE next == Add(conn.tx_ack, conn.ib_size)
               way == Sub(peer.snd, next)
               new == Sub(peer'.snd, Add(conn'.tx_ack, conn'.ib_size))
               snd == Sub(peer.snd, peer.una)
               ack == Sub(conn.tx_ack, peer.una)
    <3>1. /\ conn.ib_size \in Nat /\ snd \in Nat /\ ack \in Nat
          /\ way \in Nat /\ way = snd - ack - conn.ib_size
      BY <2>6, Parts, DownCounts
    <3>2. new \in Nat /\ new + conn'.ib_size <= TxWin
      BY <1>2, <2>6, PartsNext, DownCounts
    <3>3. peer.wnd <= TxWin
      BY <2>6, Parts DEF Flows, Live, Receiving
    <3>4. way + n < SeqMod
      <4>1. TxWin + 1 < SeqMod /\ TxWin \in Nat /\ SeqMod \in Nat
        BY SizesAssumption, WindowAssumption
      <4>2. snd + n <= peer.wnd
        BY <2>3
      <4> HIDE DEF way, snd, ack
      <4> QED
        BY <1>1, <2>3, <3>1, <3>3, <4>1, <4>2
    <3>5. next \in Seqno
      <4>1. conn.tx_ack \in Int /\ conn.ib_size \in Int
        BY <1>1, <3>1, SeqnoInts DEF WideConn
      <4> QED
        BY <4>1, SeqTypes
    <3>6. new = way + n
      BY <1>1, <1>2, <2>2, <2>3, <3>4, <3>5, Forward
    <3>7. DownStep
      BY <1>2, <2>3, <2>6, <3>1, <3>2, <3>6, DownMoves
    <3> QED
      BY <2>4, <3>7
  <2> QED
    BY <2>5, <2>6
<1>4. CASE PeerAck
  <2>1. /\ peer'.state = peer.state /\ peer'.snd = peer.snd
        /\ peer'.rcv = peer.rcv /\ peer'.buf = peer.buf
    BY <1>1, <1>4 DEF PeerAck, WidePeer
  <2> QED
    BY <1>2, <2>1, DownRests, UpRests
<1>5. CASE PeerClose
  <2>1. peer'.state = "CLOSED" /\ peer'.snd = peer.snd
    BY <1>1, <1>5 DEF PeerClose, WidePeer
  <2> QED
    BY <1>2, <2>1, DownRests, EndpointCloses
<1>6. CASE PeerConsume
  <2>1. PICK n \in 1 .. peer.buf : peer' = [peer EXCEPT !.buf = peer.buf - n, !.owes = TRUE]
    BY Zenon, <1>6 DEF PeerConsume
  <2>2. /\ peer'.state = peer.state /\ peer.state = "EST" /\ peer'.snd = peer.snd
        /\ peer'.rcv = peer.rcv /\ peer'.buf = peer.buf - n
    BY <1>1, <1>6, <2>1 DEF PeerConsume, WidePeer
  <2>3. DownStep
    BY <1>2, <2>2, DownRests
  <2>4. CASE conn.state # "CONNECTED"
    BY <1>2, <2>2, <2>3, <2>4, UpRests
  <2>5. CASE conn.state = "CONNECTED"
    <3>1. n \in Nat
      BY <1>1
    <3>2. peer.buf \in Nat /\ Sub(conn.tx_seq, peer.rcv) \in Nat
      BY <2>2, <2>5, Parts, UpCounts
    <3>3. peer'.buf \in Nat
      BY <1>2, <2>2, <2>5, PartsNext, UpCounts
    <3>4. UpStep
      BY <1>2, <2>2, <2>5, <3>1, <3>2, <3>3, UpMoves
    <3> QED
      BY <2>3, <3>4
  <2> QED
    BY <2>4, <2>5
<1> QED
  BY <1>3, <1>4, <1>5, <1>6

\* Every step maps to a step of either pipe.
LEMMA StepsMap ==
    Inv /\ Inv' /\ Flow /\ Flow' /\ Windows /\ [Next]_vars => DownStep /\ UpStep
<1>1. ASSUME vars' = vars PROVE DownStep /\ UpStep
  BY <1>1, DownRests, UpRests DEF vars
<1>2. ASSUME Inv, Inv', Flow, Flow', Windows, Next PROVE DownStep /\ UpStep
  BY <1>2, DeviceTcpInputMaps, ClientProcessMaps, DaemonMaps, PeerInputMaps, PeerMovesMap DEF Next, Prompt
<1> QED
  BY <1>1, <1>2

\* Both directions of a connection implement a bounded pipe, for every window,
\* buffer and sequence space and through the wrap-around of tx_seq and tx_ack:
\* device.c neither loses, repeats nor makes up a byte while the connection is
\* up, and never lets more be under way than the receiving end has room for.
THEOREM ConservesBytes == Spec => BytesConserved
<1>1. Init => Down!PipeInit /\ Up!PipeInit
  BY DEF Init, NewConnection, Down!PipeInit, DownPhase, DownOnWay, DownHeld, DownOpen,
         Up!PipeInit, UpPhase, UpOnWay, UpHeld, UpOpen, UpClosed
<1>2. Inv /\ Inv' /\ Flow /\ Flow' /\ Windows /\ [Next]_vars
        => [Down!PipeNext]_(Down!pipeVars) /\ [Up!PipeNext]_(Up!pipeVars)
  BY StepsMap DEF DownStep, UpStep
<1> QED
  BY <1>1, <1>2, InvInit, InvNext, FlowInit, FlowNext, WindowsInit, WindowsNext, PTL
     DEF Spec, BytesConserved, Down!PipeSpec, Up!PipeSpec

=============================================================================
