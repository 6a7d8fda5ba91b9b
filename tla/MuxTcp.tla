------------------------------- MODULE MuxTcp -------------------------------
(***************************************************************************)
(* One multiplexed connection of usbmuxd (src/src/device.c), with the      *)
(* client it serves (src/src/client.c) and the TCP endpoint inside the     *)
(* device: the handshake, the flow control in both directions, delayed     *)
(* ACKs, and every way the connection can end.                             *)
(*                                                                         *)
(* Payloads are byte counts.  Sequence numbers keep their wrap-around      *)
(* (modulo SeqMod), windows keep their scaling on the wire (WinUnit).  The *)
(* daemon's handlers run on its only event-loop thread, so each is one     *)
(* step; what interleaves with them is the device, the client's process,   *)
(* time, and the gap between poll() and the handling of its results.       *)
(***************************************************************************)
EXTENDS Integers, Sequences, FiniteSets

CONSTANTS
    SeqMod,      \* modulus of the sequence arithmetic, 2^32 in the code
    TxWin,       \* conn->tx_win, the window the daemon advertises (131072)
    InbufSize,   \* CONN_INBUF_SIZE (262144)
    OutbufSize,  \* CONN_OUTBUF_SIZE (65536)
    MaxPayload,  \* conn->max_payload (49116)
    WinUnit,     \* th_win counts units of 2^8 bytes
    DevWin,      \* receive buffer of the device's endpoint
    AppCap,      \* bound: bytes the client's process may have queued
    ChanCap,     \* bound: segments in the pipes when the device sends another
    UsbMayFail   \* whether usb_send may report an error

ASSUME SizesAssumption ==
    /\ {SeqMod, InbufSize, OutbufSize, MaxPayload, WinUnit} \subseteq Nat \ {0}
    /\ {TxWin, DevWin, AppCap, ChanCap} \subseteq Nat
    /\ UsbMayFail \in BOOLEAN

\* device.c:50 and device.c:381 put the in-buffer at twice the advertised
\* window; the sequence space is far larger than either window.
ASSUME WindowAssumption ==
    /\ TxWin <= InbufSize
    /\ TxWin + 1 < SeqMod
    /\ DevWin + 1 < SeqMod

VARIABLES
    conn,     \* struct mux_connection
    client,   \* the fields of struct mux_client the connection touches
    app,      \* the client's process and its end of the socket
    polled,   \* revents of the client's fd still to be handled
    plugged,  \* the device is attached (dev->state # MUXDEV_DEAD)
    toDev,    \* bulk-out pipe: segments sent, not yet seen by the device
    fromDev,  \* bulk-in pipe: segments sent by the device
    peer,     \* the endpoint inside the device
    fin       \* how the connection ended (history)

vars == <<conn, client, app, polled, plugged, toDev, fromDev, peer, fin>>
envVars == <<app, plugged, peer>>

Seqno == 0 .. SeqMod - 1
\* Mutant: arithmetic wider than the 32-bit fields.
Add_Wide(a, n) == a + n

Add(a, n) == (a + n) % SeqMod
Sub(a, b) == (a - b) % SeqMod
Least(a, b) == IF a <= b THEN a ELSE b

Flags == {"SYN", "SYNACK", "ACK", "RST", "FIN"}
Events == {"IN", "OUT"}
ConnStates == {"NONE", "CONNECTING", "CONNECTED", "REFUSED", "DYING", "FREED"}
ClientStates == {"COMMAND", "CONNECTING1", "CONNECTING2", "CONNECTED", "CLOSED"}
Causes == {"none", "syn", "refused", "reset", "overflow", "usb", "client", "aborted",
           "removed"}

\* Bound: the result message of a Connect, in the pieces a send may split it into.
ReplySize == 2

Segment == [flags : Flags, seq : Seqno, ack : Seqno, win : Nat, len : Nat]

Connection == [state : ConnStates, tx_seq : Seqno, tx_ack : Seqno, tx_acked : Seqno,
               rx_ack : Seqno, rx_win : Nat, sendable : Nat, ib_size : Nat,
               events : SUBSET Events, ack_pending : BOOLEAN, ack_due : BOOLEAN]

-----------------------------------------------------------------------------
(* Sending.  An outcome is "ok"; "lost": submitting the transfer failed; or *)
(* "half": the data went out and only the zero-length packet that ends it   *)
(* failed, which usb_send reports as an error all the same.                 *)

Outcomes(len) ==
    IF UsbMayFail THEN {"ok", "lost"} \cup (IF len > 0 THEN {"half"} ELSE {})
    ELSE {"ok"}

Transmit(q, seg, out) == IF out = "lost" THEN q ELSE Append(q, seg)

\* Mutant: acknowledge what was received instead of what the client took.
TcpSegment_Eager(c, flags, len) ==
    [flags |-> flags, seq |-> c.tx_seq, ack |-> Add(c.tx_ack, c.ib_size),
     win |-> TxWin \div WinUnit, len |-> len]

TcpSegment(c, flags, len) ==
    [flags |-> flags, seq |-> c.tx_seq, ack |-> c.tx_ack,
     win |-> TxWin \div WinUnit, len |-> len]

\* What send_tcp leaves in the connection once the packet is submitted.
Acked(c) == [c EXCEPT !.tx_acked = c.tx_ack, !.ack_due = FALSE, !.ack_pending = FALSE]

AnonRst(seg) == [flags |-> "RST", seq |-> 0, ack |-> seg.seq, win |-> 0, len |-> 0]

-----------------------------------------------------------------------------
(* update_connection, and the event masks it hands to the client.           *)

\* Mutant: the window is not reduced by what is still unacknowledged.
Sendable_NoSent(c) == Least(Least(c.rx_win, OutbufSize), MaxPayload)

Sendable(c) ==
    LET sent == Sub(c.tx_seq, c.rx_ack)
        room == IF c.rx_win > sent THEN c.rx_win - sent ELSE 0
    IN  Least(Least(room, OutbufSize), MaxPayload)

UpdateConnection(c) ==
    [c EXCEPT !.sendable = Sendable(c),
              !.events = (IF Sendable(c) > 0 THEN {"IN"} ELSE {})
                         \cup (IF c.ib_size > 0 THEN {"OUT"} ELSE {}),
              !.ack_pending = (c.tx_acked # c.tx_ack)]

ClientSetEvents(k, ev) ==
    IF k.state \in {"CONNECTED", "CONNECTING2"}
    THEN [k EXCEPT !.devents = ev,
                   !.events = IF k.state = "CONNECTED" THEN ev ELSE @]
    ELSE k

\* Mutant: a handler that ends without update_connection.
Settle_Stale(c, k) ==
    /\ conn' = c
    /\ client' = ClientSetEvents(k, c.events)
    /\ UNCHANGED fin

\* The connection is left as c, the client as k with c's event mask.
Settle(c, k) ==
    /\ conn' = UpdateConnection(c)
    /\ client' = ClientSetEvents(k, UpdateConnection(c).events)
    /\ UNCHANGED fin

\* The connection as device_start_connect fills it in, and once it is freed.
NewConnection ==
    [state |-> "CONNECTING", tx_seq |-> 0, tx_ack |-> 0, tx_acked |-> 0,
     rx_ack |-> 0, rx_win |-> 0, sendable |-> 0, ib_size |-> 0, events |-> {},
     ack_pending |-> FALSE, ack_due |-> FALSE]

FreedConnection == [NewConnection EXCEPT !.state = "FREED"]

-----------------------------------------------------------------------------
(* client_notify_connect and connection_teardown.                           *)

\* Mutant: a refused client stays in CONNECTING1.
NotifyConnect_Stuck(k, ok) ==
    IF k.state # "CONNECTING1" THEN k
    ELSE IF ok THEN [k EXCEPT !.state = "CONNECTING2", !.events = {"OUT"}, !.ob_size = ReplySize]
    ELSE [k EXCEPT !.events = @ \cup {"OUT"}]

\* Mutant: POLLOUT is not asked for when the result message is queued.
NotifyConnect_NoEvents(k, ok) ==
    IF k.state # "CONNECTING1" THEN k
    ELSE IF ok THEN [k EXCEPT !.state = "CONNECTING2", !.ob_size = ReplySize]
    ELSE [k EXCEPT !.state = "COMMAND"]

NotifyConnect(k, ok) ==
    IF k.state # "CONNECTING1" THEN k
    ELSE IF ok THEN [k EXCEPT !.state = "CONNECTING2", !.events = {"OUT"}, !.ob_size = ReplySize]
    ELSE [k EXCEPT !.state = "COMMAND", !.events = @ \cup {"OUT"}]

\* Mutant: teardown without the flush loop.
Flushing_Never(c) == FALSE

\* Bytes the flush loop may leave in the in-buffer: none if the client keeps
\* accepting data, any number if it stops for a second or its socket fails,
\* all of them if client_write refuses because the client is not CONNECTED.
Flushing(c) == "OUT" \in c.events /\ c.ib_size > 0 /\ client.state = "CONNECTED"
FlushLeaves(c) ==
    IF Flushing(c) /\ app.open THEN 0 .. c.ib_size ELSE {c.ib_size}

\* connection_teardown(conn) for a connection with a client.  c is the
\* connection in the state the caller put it in, q the pipe to the device,
\* alive whether the device is still there (dev->state # MUXDEV_DEAD).
Teardown(c, q, alive, cause) ==
    \E out \in Outcomes(0), left \in FlushLeaves(c) :
        /\ toDev' = IF alive /\ c.state \notin {"DYING", "REFUSED"}
                    THEN Transmit(q, TcpSegment(c, "RST", 0), out) ELSE q
        /\ conn' = FreedConnection
        /\ client' = IF c.state \in {"REFUSED", "CONNECTING"}
                     THEN NotifyConnect(client, FALSE)
                     ELSE [client EXCEPT !.state = "CLOSED", !.events = {}, !.ob_size = 0]
        /\ fin' = [cause |-> cause, client |-> client.state, lost |-> left,
                   stalled |-> Flushing(c) /\ left > 0]

\* client_close of a client that is CONNECTING1 or CONNECTING2: the connection
\* is torn down with conn->client = NULL.
AbortConnect ==
    \E out \in Outcomes(0) :
        /\ toDev' = Transmit(toDev, TcpSegment(conn, "RST", 0), out)
        /\ conn' = FreedConnection
        /\ client' = [client EXCEPT !.state = "CLOSED", !.events = {}, !.ob_size = 0]
        /\ fin' = [cause |-> "aborted", client |-> client.state,
                   lost |-> conn.ib_size, stalled |-> FALSE]

-----------------------------------------------------------------------------
(* The daemon's handlers.                                                   *)

\* device_start_connect, for a device that has a free port, and the end of
\* handle_command that records its result.
StartConnect ==
    /\ conn.state = "NONE" /\ plugged
    /\ \E out \in Outcomes(0) :
        /\ toDev' = Transmit(toDev, TcpSegment(NewConnection, "SYN", 0), out)
        /\ \/ /\ out = "ok"
              /\ conn' = Acked(NewConnection)
              /\ client' = [client EXCEPT !.state = "CONNECTING1"]
              /\ UNCHANGED fin
           \/ /\ out # "ok"
              /\ conn' = FreedConnection
              /\ client' = [client EXCEPT !.events = @ \cup {"OUT"}]
              /\ fin' = [fin EXCEPT !.cause = "syn"]
    /\ UNCHANGED <<envVars, polled, fromDev>>

\* Mutant: only the SYNACK's acknowledgement is recorded.
Header_NoAck(seg) ==
    [conn EXCEPT !.rx_ack = IF conn.state = "CONNECTED" THEN @ ELSE seg.ack,
                 !.rx_win = seg.win * WinUnit]

\* device_tcp_input.  Header is the connection once the header is copied into it.
Header(seg) == [conn EXCEPT !.rx_ack = seg.ack, !.rx_win = seg.win * WinUnit]

TcpInputNoConnection(seg) ==
    /\ conn.state = "FREED"
    /\ toDev' \in IF seg.flags = "RST" THEN {toDev}
                  ELSE {Transmit(toDev, AnonRst(seg), out) : out \in Outcomes(0)}
    /\ UNCHANGED <<conn, client, fin>>

TcpInputRefused(seg) ==
    /\ conn.state = "CONNECTING" /\ seg.flags # "SYNACK"
    /\ Teardown([Header(seg) EXCEPT !.state = IF seg.flags = "RST" THEN "REFUSED" ELSE @],
                toDev, TRUE, "refused")

\* Mutant: the SYN is not counted in either direction.
TcpInputEstablished_NoCount(seg) ==
    /\ conn.state = "CONNECTING" /\ seg.flags = "SYNACK"
    /\ \E out \in Outcomes(0) :
         LET q == Transmit(toDev, TcpSegment(Header(seg), "ACK", 0), out)
         IN  \/ /\ out = "ok" /\ toDev' = q
                /\ Settle([Acked(Header(seg)) EXCEPT !.state = "CONNECTED"],
                          NotifyConnect(client, TRUE))
             \/ out # "ok" /\ Teardown(Header(seg), q, TRUE, "usb")

TcpInputEstablished(seg) ==
    /\ conn.state = "CONNECTING" /\ seg.flags = "SYNACK"
    /\ LET c == [Header(seg) EXCEPT !.tx_seq = Add(@, 1), !.tx_ack = Add(@, 1)]
       IN  \E out \in Outcomes(0) :
             LET q == Transmit(toDev, TcpSegment(c, "ACK", 0), out)
             IN  \/ /\ out = "ok" /\ toDev' = q
                    /\ Settle([Acked(c) EXCEPT !.state = "CONNECTED"],
                              NotifyConnect(client, TRUE))
                 \/ out # "ok" /\ Teardown(c, q, TRUE, "usb")

TcpInputReset(seg) ==
    /\ conn.state = "CONNECTED" /\ seg.flags # "ACK"
    /\ Teardown([Header(seg) EXCEPT !.state = IF seg.flags = "RST" THEN "DYING" ELSE @],
                toDev, TRUE, "reset")

\* connection_device_input, then send_tcp_ack.
TcpInputData(seg) ==
    /\ conn.state = "CONNECTED" /\ seg.flags = "ACK"
    /\ \/ /\ conn.ib_size + seg.len > InbufSize
          /\ Teardown(Header(seg), toDev, TRUE, "overflow")
       \/ /\ conn.ib_size + seg.len <= InbufSize
          /\ LET c == UpdateConnection([Header(seg) EXCEPT !.ib_size = @ + seg.len])
             IN  \E out \in Outcomes(0) :
                   LET q == Transmit(toDev, TcpSegment(c, "ACK", 0), out)
                   IN  \/ out = "ok" /\ toDev' = q /\ Settle(Acked(c), client)
                       \/ out # "ok" /\ Teardown(c, q, TRUE, "usb")

DeviceTcpInput ==
    /\ fromDev # <<>>
    /\ \/ TcpInputNoConnection(Head(fromDev))
       \/ TcpInputRefused(Head(fromDev))
       \/ TcpInputEstablished(Head(fromDev))
       \/ TcpInputReset(Head(fromDev))
       \/ TcpInputData(Head(fromDev))
    /\ fromDev' = Tail(fromDev)
    /\ UNCHANGED <<envVars, polled>>

\* ppoll() reports what the client's socket is ready for, among the events asked for.
Ready ==
    {e \in client.events :
        ~app.open \/ (e = "IN" /\ app.buf > 0) \/ (e = "OUT" /\ ~app.full)}

Poll ==
    /\ conn.state \in {"CONNECTING", "CONNECTED"}
    /\ polled = {} /\ Ready # {}
    /\ polled' = Ready
    /\ UNCHANGED <<conn, client, envVars, toDev, fromDev, fin>>

\* output_buffer_process: the result message goes out in one or more sends, and
\* with its last byte the client becomes CONNECTED.
OutputBufferProcess ==
    \E sent \in 1 .. client.ob_size :
        /\ client' = IF sent < client.ob_size THEN [client EXCEPT !.ob_size = @ - sent]
                     ELSE [client EXCEPT !.ob_size = 0, !.state = "CONNECTED",
                                         !.events = client.devents]
        /\ app' = [app EXCEPT !.full = sent < client.ob_size]

\* client_process for a client whose Connect is in progress: end of file on the
\* socket closes it; otherwise the result message is sent.
ClientProcessConnecting ==
    /\ client.state \in {"CONNECTING1", "CONNECTING2"}
    /\ \/ /\ "IN" \in polled \/ ~app.open
          /\ AbortConnect
          /\ UNCHANGED app
       \/ /\ "IN" \notin polled /\ app.open /\ client.state = "CONNECTING2"
          /\ OutputBufferProcess
          /\ UNCHANGED <<conn, toDev, fin>>

Writes == "OUT" \in polled /\ conn.ib_size > 0
Reads == "IN" \in polled /\ conn.sendable > 0

\* device_client_process after the write to the client: c and a are the
\* connection and the client's socket it left.
ClientRead(c, a) ==
    \/ /\ ~Reads
       /\ Settle(c, client)
       /\ toDev' = toDev /\ app' = a
    \/ /\ Reads /\ app.buf = 0
       /\ Teardown(c, toDev, TRUE, "client")
       /\ app' = a
    \/ /\ Reads
       /\ \E n \in 1 .. Least(conn.sendable, app.buf) : \E out \in Outcomes(n) :
            LET q == Transmit(toDev, TcpSegment(c, "ACK", n), out)
            IN  /\ \/ /\ out = "ok" /\ toDev' = q
                      /\ Settle([Acked(c) EXCEPT !.tx_seq = Add(@, n)], client)
                   \/ out # "ok" /\ Teardown(c, q, TRUE, "usb")
                /\ app' = [a EXCEPT !.buf = @ - n]

\* Mutant: what the client has taken is not counted in tx_ack.
DeviceClientProcess_NoAck ==
    /\ client.state = "CONNECTED"
    /\ \/ /\ Writes /\ ~app.open
          /\ Teardown(conn, toDev, TRUE, "client")
          /\ UNCHANGED app
       \/ /\ Writes /\ app.open
          /\ \E size \in 1 .. conn.ib_size, full \in BOOLEAN :
               /\ size < conn.ib_size => full
               /\ ClientRead([conn EXCEPT !.ib_size = @ - size], [app EXCEPT !.full = full])
       \/ /\ ~Writes
          /\ ClientRead(conn, app)

\* A short write means that the socket is full; a complete one may fill it.
DeviceClientProcess ==
    /\ client.state = "CONNECTED"
    /\ \/ /\ Writes /\ ~app.open
          /\ Teardown(conn, toDev, TRUE, "client")
          /\ UNCHANGED app
       \/ /\ Writes /\ app.open
          /\ \E size \in 1 .. conn.ib_size, full \in BOOLEAN :
               /\ size < conn.ib_size => full
               /\ ClientRead([conn EXCEPT !.tx_ack = Add(@, size), !.ib_size = @ - size],
                             [app EXCEPT !.full = full])
       \/ /\ ~Writes
          /\ ClientRead(conn, app)

ClientProcess ==
    /\ polled # {} /\ polled' = {}
    /\ \/ ClientProcessConnecting
       \/ DeviceClientProcess
       \/ client.state \in {"COMMAND", "CLOSED"} /\ UNCHANGED <<conn, client, toDev, app, fin>>
    /\ UNCHANGED <<plugged, peer, fromDev>>

\* Mutant: no delayed ACK.
CheckTimeouts_Never == FALSE /\ UNCHANGED vars

\* device_check_timeouts: only when ppoll() returned 0.  Neither the USB pipe nor
\* the client's socket had anything to report, and nor had any other descriptor,
\* which is outside this module (see MuxTcpLoop).
CheckTimeouts ==
    /\ conn.state = "CONNECTED" /\ conn.ack_pending /\ conn.ack_due
    /\ polled = {} /\ Ready = {} /\ app.open /\ fromDev = <<>>
    /\ \E out \in Outcomes(0) :
         LET q == Transmit(toDev, TcpSegment(conn, "ACK", 0), out)
         IN  \/ out = "ok" /\ toDev' = q /\ Settle(Acked(conn), client)
             \/ out # "ok" /\ Teardown(conn, q, TRUE, "usb")
    /\ UNCHANGED <<envVars, polled, fromDev>>

\* device_remove.
DeviceRemove ==
    /\ plugged /\ plugged' = FALSE
    /\ \/ /\ conn.state \in {"CONNECTING", "CONNECTED"}
          /\ Teardown(conn, <<>>, FALSE, "removed")
       \/ /\ conn.state \in {"NONE", "FREED"}
          /\ toDev' = <<>>
          /\ UNCHANGED <<conn, client, fin>>
    /\ fromDev' = <<>>
    /\ peer' = [peer EXCEPT !.state = "CLOSED"]
    /\ UNCHANGED <<app, polled>>

-----------------------------------------------------------------------------
(* Time, the client's process, and the device's endpoint, all outside the   *)
(* repository.  The endpoint is a TCP that honours the advertised window,   *)
(* advertises no more than it can buffer, and acknowledges what it takes.   *)

Tick ==
    /\ conn.state = "CONNECTED" /\ ~conn.ack_due
    /\ conn' = [conn EXCEPT !.ack_due = TRUE]
    /\ UNCHANGED <<client, envVars, polled, toDev, fromDev, fin>>

AppWrite ==
    /\ client.state = "CONNECTED" /\ app.open /\ app.buf < AppCap
    /\ app' = [app EXCEPT !.buf = @ + 1]

AppDrain ==
    /\ app.full /\ app.open
    /\ app' = [app EXCEPT !.full = FALSE]

AppClose ==
    /\ conn.state # "NONE" /\ app.open
    /\ app' = [app EXCEPT !.open = FALSE]

App ==
    /\ AppWrite \/ AppDrain \/ AppClose
    /\ UNCHANGED <<conn, client, polled, plugged, toDev, fromDev, peer, fin>>

PeerSegment(p, flags, len) ==
    [flags |-> flags, seq |-> p.snd, ack |-> p.rcv,
     win |-> (DevWin - p.buf) \div WinUnit, len |-> len]

PeerUnchanged == UNCHANGED <<conn, client, app, polled, plugged, fin>>

PeerAccept(seg) ==
    /\ peer.state = "LISTEN" /\ seg.flags = "SYN"
    /\ LET p == [peer EXCEPT !.rcv = Add(seg.seq, 1), !.wnd = seg.win * WinUnit]
       IN  \/ /\ peer' = [p EXCEPT !.state = "SYNRCVD", !.snd = Add(@, 1)]
              /\ fromDev' = Append(fromDev, PeerSegment(p, "SYNACK", 0))
           \/ \E f \in {"RST", "FIN"} :
                /\ peer' = [p EXCEPT !.state = "CLOSED"]
                /\ fromDev' = Append(fromDev, PeerSegment(p, f, 0))

PeerTakes(seg) ==
    /\ peer.state \in {"SYNRCVD", "EST"} /\ seg.flags = "ACK"
    /\ peer' = [peer EXCEPT !.state = "EST", !.una = seg.ack, !.wnd = seg.win * WinUnit,
                            !.rcv = Add(@, seg.len), !.buf = @ + seg.len,
                            !.owes = @ \/ seg.len > 0]
    /\ UNCHANGED fromDev

PeerIsReset(seg) ==
    /\ peer.state = "CLOSED" \/ seg.flags = "RST"
    /\ peer' = [peer EXCEPT !.state = "CLOSED"]
    /\ UNCHANGED fromDev

PeerInput ==
    /\ toDev # <<>>
    /\ PeerAccept(Head(toDev)) \/ PeerTakes(Head(toDev)) \/ PeerIsReset(Head(toDev))
    /\ toDev' = Tail(toDev)
    /\ PeerUnchanged

Outstanding == Sub(peer.snd, peer.una)

PeerSend ==
    /\ peer.state = "EST" /\ Len(fromDev) + Len(toDev) < ChanCap
    /\ \E n \in 1 .. peer.wnd - Outstanding :
        /\ fromDev' = Append(fromDev, PeerSegment(peer, "ACK", n))
        /\ peer' = [peer EXCEPT !.snd = Add(@, n), !.owes = FALSE]
    /\ UNCHANGED toDev /\ PeerUnchanged

PeerAck ==
    /\ peer.state = "EST" /\ peer.owes /\ Len(fromDev) + Len(toDev) < ChanCap
    /\ fromDev' = Append(fromDev, PeerSegment(peer, "ACK", 0))
    /\ peer' = [peer EXCEPT !.owes = FALSE]
    /\ UNCHANGED toDev /\ PeerUnchanged

PeerConsume ==
    /\ peer.state = "EST"
    /\ \E n \in 1 .. peer.buf : peer' = [peer EXCEPT !.buf = @ - n, !.owes = TRUE]
    /\ UNCHANGED <<toDev, fromDev>> /\ PeerUnchanged

PeerClose ==
    /\ peer.state \in {"SYNRCVD", "EST"}
    /\ \E f \in {"RST", "FIN"} : fromDev' = Append(fromDev, PeerSegment(peer, f, 0))
    /\ peer' = [peer EXCEPT !.state = "CLOSED"]
    /\ UNCHANGED toDev /\ PeerUnchanged

-----------------------------------------------------------------------------
Init ==
    /\ conn = [NewConnection EXCEPT !.state = "NONE"]
    /\ client = [state |-> "COMMAND", events |-> {"IN"}, devents |-> {}, ob_size |-> 0]
    /\ app = [open |-> TRUE, buf |-> 0, full |-> FALSE]
    /\ polled = {}
    /\ plugged = TRUE
    /\ toDev = <<>> /\ fromDev = <<>>
    /\ peer = [state |-> "LISTEN", snd |-> 0, una |-> 0, wnd |-> 0, rcv |-> 0,
               buf |-> 0, owes |-> FALSE]
    /\ fin = [cause |-> "none", client |-> "COMMAND", lost |-> 0, stalled |-> FALSE]

\* Everything but the delayed ACK, which depends on other descriptors too.
Prompt ==
    \/ StartConnect \/ DeviceTcpInput \/ Poll \/ ClientProcess
    \/ DeviceRemove \/ Tick \/ App
    \/ PeerInput \/ PeerSend \/ PeerAck \/ PeerConsume \/ PeerClose

Next == Prompt \/ CheckTimeouts

Spec == Init /\ [][Next]_vars

\* The event loop keeps turning, and takes what the device sends and what poll()
\* reports; time passes; the client's process drains its socket; the device's
\* endpoint keeps taking segments, consuming data and acknowledging.  Nobody has
\* to connect, send, close or unplug, and no delayed ACK is promised here: that
\* takes a poll() that finds nothing to do.
Fairness ==
    /\ WF_fromDev(fromDev # <<>> /\ fromDev' = Tail(fromDev))
    /\ WF_vars(Poll) /\ WF_vars(ClientProcess) /\ WF_vars(Tick)
    /\ WF_vars(AppDrain /\ UNCHANGED <<conn, client, polled, plugged, toDev, fromDev, peer, fin>>)
    /\ WF_vars(PeerInput) /\ WF_vars(PeerAck) /\ WF_vars(PeerConsume)

FairSpec == Spec /\ Fairness

-----------------------------------------------------------------------------
\* Every variable holds a value of its type.
TypeOK ==
    /\ conn \in Connection
    /\ client \in [state : ClientStates, events : SUBSET Events, devents : SUBSET Events,
                    ob_size : 0 .. ReplySize]
    /\ app \in [open : BOOLEAN, buf : 0 .. AppCap, full : BOOLEAN]
    /\ polled \subseteq Events
    /\ plugged \in BOOLEAN
    /\ toDev \in Seq(Segment) /\ fromDev \in Seq(Segment)
    /\ peer \in [state : {"LISTEN", "SYNRCVD", "EST", "CLOSED"}, snd : Seqno, una : Seqno,
                  wnd : Nat, rcv : Seqno, buf : Nat, owes : BOOLEAN]
    /\ fin \in [cause : Causes, client : ClientStates, lost : Nat, stalled : BOOLEAN]

\* The overflow branch of connection_device_input (device.c:540) is never
\* taken: the daemon only acknowledges what the client took, so a device that
\* honours the advertised window cannot send more than the in-buffer holds,
\* whatever the interleaving of data, delayed ACKs and wrap-around.
InputNeverOverflows == fin.cause # "overflow"

\* update_connection never lets the daemon send more than the device's
\* endpoint can buffer, although it acts on a window that is stale by
\* everything in flight.
DeviceNeverOverflows == peer.buf <= DevWin

\* device_tcp_input ignores th_seq and counts bytes instead.  That is sound:
\* while the connection is up, the next segment in the pipe always starts at
\* the byte after the last one received.
ReceivesInSequence ==
    conn.state = "CONNECTED" =>
        LET next == Add(conn.tx_ack, conn.ib_size)
        IN  IF fromDev = <<>> THEN peer.snd = next ELSE Head(fromDev).seq = next

\* The daemon numbers what it sends without gap or overlap: every segment the
\* device takes starts at the byte it expects, and nothing is missing once
\* the pipe is empty.
SendsInSequence ==
    conn.state = "CONNECTED" /\ peer.state = "EST" =>
        IF toDev = <<>> THEN peer.rcv = conn.tx_seq ELSE Head(toDev).seq = peer.rcv

\* No wakeup is lost between handlers: the mask polled for a CONNECTED client
\* asks for POLLOUT exactly when data waits for it and for POLLIN exactly when
\* the device has room, and the ACK timer is armed exactly when the device
\* has not been told of everything the client took.
PollMaskFresh ==
    conn.state = "CONNECTED" =>
        /\ conn.sendable = Sendable(conn)
        /\ conn.ack_pending <=> conn.tx_acked # conn.tx_ack
        /\ client.state = "CONNECTED" =>
            /\ "OUT" \in client.events <=> conn.ib_size > 0
            /\ "IN" \in client.events <=> Sendable(conn) > 0

\* Client and connection agree: neither survives the other, the client waits
\* for a result exactly while the handshake is under way.
StatesAgree ==
    /\ client.state = "CONNECTING1" <=> conn.state = "CONNECTING"
    /\ client.state \in {"CONNECTING2", "CONNECTED"} <=> conn.state = "CONNECTED"

\* connection_teardown flushes the in-buffer: a CONNECTED client that keeps
\* accepting data gets every byte received before the device reset the
\* connection, was unplugged, or could not be sent to.
FlushedUnlessClientFails ==
    /\ fin.cause \in {"reset", "removed", "usb"}
    /\ fin.client = "CONNECTED" /\ ~fin.stalled
    => fin.lost = 0

\* The same promise for every client that has been told, or is about to be
\* told, that it is connected.
FlushedOnTeardown ==
    fin.cause \in {"reset", "removed"} /\ ~fin.stalled => fin.lost = 0

\* A client that may not send because the device is full may send again.
ClientUnblocked ==
    (conn.state = "CONNECTED" /\ conn.sendable = 0)
        ~> (conn.state # "CONNECTED" \/ conn.sendable > 0)

\* Every Connect is answered: the client leaves CONNECTING1, and from
\* CONNECTING2 it gets on to CONNECTED or is closed.
ConnectAnswered ==
    (client.state \in {"CONNECTING1", "CONNECTING2"})
        ~> (client.state \in {"COMMAND", "CONNECTED", "CLOSED"})

\* In each direction the connection is a bounded pipe.  From the device: what
\* the endpoint has numbered and the daemon not yet counted is on its way, the
\* in-buffer is held for the client.  It stays open after the endpoint has
\* closed, until the daemon frees the connection.
DownOpen == conn.state = "CONNECTED"
DownPhase == IF DownOpen THEN "open" ELSE IF conn.state = "FREED" THEN "closed" ELSE "new"
DownOnWay == IF DownOpen THEN Sub(peer.snd, Add(conn.tx_ack, conn.ib_size)) ELSE 0
DownHeld == IF DownOpen THEN conn.ib_size ELSE 0

Down == INSTANCE BoundedPipe WITH
    Capacity <- TxWin, phase <- DownPhase, onWay <- DownOnWay, held <- DownHeld

\* To the device: what the daemon has numbered and the endpoint not yet taken
\* is on its way, the endpoint's buffer is held for the service.  It is closed
\* by either end.
UpOpen == conn.state = "CONNECTED" /\ peer.state # "CLOSED"
UpClosed == conn.state = "FREED" \/ peer.state = "CLOSED"
UpPhase == IF UpOpen THEN "open" ELSE IF UpClosed THEN "closed" ELSE "new"
UpOnWay == IF UpOpen THEN Sub(conn.tx_seq, peer.rcv) ELSE 0
UpHeld == IF UpOpen THEN peer.buf ELSE 0

Up == INSTANCE BoundedPipe WITH
    Capacity <- DevWin, phase <- UpPhase, onWay <- UpOnWay, held <- UpHeld

\* No handler, however it interleaves with the device, loses, repeats or makes
\* up a byte in either direction, or lets more be under way than the receiving
\* end has room for.
BytesConserved == Down!PipeSpec /\ Up!PipeSpec

=============================================================================
