----------------------------- MODULE MuxSession -----------------------------
(***************************************************************************)
(* The daemon's event loop with all of its clients and devices: main_loop  *)
(* (src/src/main.c), the client protocol (src/src/client.c) and the        *)
(* connections that tie clients to devices (src/src/device.c), through to  *)
(* the orderly shutdown at the end of main.                                *)
(*                                                                         *)
(* One iteration of main_loop is a poll() whose results are then handled   *)
(* in the order of the descriptor list: the listening socket, USB, the     *)
(* clients.  What a handler does to one client or device can invalidate    *)
(* results that are still waiting.  Bytes and windows are left to MuxTcp:  *)
(* the event mask update_connection computes is any mask here.             *)
(* Devices are announced as soon as they are active, as the daemon does    *)
(* with preflight disabled; the preflight threads are in Announce.         *)
(***************************************************************************)
EXTENDS Integers, FiniteSets

CONSTANTS
    Fds,         \* descriptors accept() may return
    MaxDev,      \* bound: devices attached in a run, each with a new id
    PortMod,     \* source ports are counted modulo 2^16
    MaxAccept,   \* bound: clients accepted in a run
    MaxCmd,      \* bound: commands the clients send in a run
    Commands,    \* kinds of commands the clients send
    UsbMayFail   \* whether usb_send may report an error

ASSUME SessionAssumption ==
    /\ {MaxDev, MaxAccept, MaxCmd} \subseteq Nat
    /\ PortMod \in Nat \ {0, 1}
    /\ Commands \subseteq {"Listen", "Connect", "Query", "Save", "Unparsable", "BadLength"}
    /\ UsbMayFail \in BOOLEAN

VARIABLES
    client,    \* client_list: for each descriptor its struct mux_client
    app,       \* the process at the other end of each client's socket
    dev,       \* device_list with the connections of each device
    pc,        \* where the main thread is
    rev,       \* revents of the last poll() still to be handled, by descriptor
    accepted,  \* clients accepted so far
    sent,      \* commands sent so far
    told,      \* devices each listener was told of and not told to forget (history)
    stray      \* which freed memory a handler used (history)

vars == <<client, app, dev, pc, rev, accepted, sent, told, stray>>

DevIds == 1 .. MaxDev
Events == {"IN", "OUT"}
Ports == 0 .. PortMod - 1
ClientStates == {"FREE", "COMMAND", "LISTEN", "CONNECTING1", "CONNECTING2", "CONNECTED"}
DevStates == {"ABSENT", "INIT", "ACTIVE", "GONE"}
Connections == [client : Fds, sport : Ports, state : {"CONNECTING", "CONNECTED"}]

\* struct mux_client once freed, and as client_accept fills it in.  ob counts
\* queued messages; head tells whether the header of a command was read; born
\* tells clients that had the same descriptor apart.
NoClient ==
    [state |-> "FREE", events |-> {}, devents |-> {}, ob |-> 0, head |-> FALSE,
     dev |-> 0, born |-> 0]
NewClient(n) == [NoClient EXCEPT !.state = "COMMAND", !.events = {"IN"}, !.born = n]

\* output_buffer_add_message, n times.
Queue(k, n) == IF n = 0 THEN k ELSE [k EXCEPT !.ob = @ + n, !.events = @ \cup {"OUT"}]

Visible == {d \in DevIds : dev[d].state = "ACTIVE"}
ConnsOf(f) == UNION {{c \in dev[d].conns : c.client = f} : d \in DevIds}

-----------------------------------------------------------------------------
(* Connections.                                                             *)

\* Mutant: next_sport is neither checked against the connections nor advanced.
FindSport_Blind(d) == [sport |-> dev[d].next_sport, next |-> dev[d].next_sport]

\* Mutant: next_sport is kept in a wider integer.
FindSport_Wide(d) == [sport |-> dev[d].next_sport, next |-> dev[d].next_sport + 1]

\* find_sport: the first free port from next_sport on, and next_sport after it.
FindSport(d) ==
    LET used == {c.sport : c \in dev[d].conns}
        free == {i \in Ports : (dev[d].next_sport + i) % PortMod \notin used}
        sport == (dev[d].next_sport + (CHOOSE i \in free : \A j \in free : i <= j)) % PortMod
    IN  IF Cardinality(dev[d].conns) >= PortMod - 1
        THEN [sport |-> 0, next |-> dev[d].next_sport]
        ELSE [sport |-> sport, next |-> (sport + 1) % PortMod]

\* Mutant: a refusal is not reported.
NotifyConnect_Silent(k, ok) ==
    IF k.state # "CONNECTING1" THEN k
    ELSE IF ok THEN [Queue(k, 1) EXCEPT !.state = "CONNECTING2", !.events = {"OUT"}]
    ELSE [k EXCEPT !.state = "COMMAND"]

\* client_notify_connect.
NotifyConnect(k, ok) ==
    IF k.state # "CONNECTING1" THEN k
    ELSE IF ok THEN [Queue(k, 1) EXCEPT !.state = "CONNECTING2", !.events = {"OUT"}]
    ELSE [Queue(k, 1) EXCEPT !.state = "COMMAND"]

\* connection_teardown of c, seen from its client k: a refusal is reported to
\* it, the end of an established connection closes it.
TornDown(k, c) == IF c.state = "CONNECTING" THEN NotifyConnect(k, FALSE) ELSE NoClient

\* The clients once the connections cs are torn down.
AfterTeardown(cs) ==
    [f \in Fds |-> IF \E c \in cs : c.client = f
                   THEN TornDown(client[f], CHOOSE c \in cs : c.client = f)
                   ELSE client[f]]

WithoutConns(d, cs) == [dev EXCEPT ![d].conns = @ \ cs]

\* update_connection and client_set_events, with whatever mask results.
SetEvents(k, ev) ==
    IF k.state = "CONNECTED" THEN [k EXCEPT !.devents = ev, !.events = ev]
    ELSE IF k.state = "CONNECTING2" THEN [k EXCEPT !.devents = ev]
    ELSE k

\* Mutant: client_close forgets the connection of a client that was connecting.
CloseConns_Leak(f) == dev

\* What client_close(f) leaves of the connections: device_abort_connect for a
\* client whose Connect is under way, nothing otherwise.
CloseConns(f) ==
    IF client[f].state \in {"CONNECTING1", "CONNECTING2"}
    THEN [dev EXCEPT ![client[f].dev].conns = {c \in @ : c.client # f}]
    ELSE dev

ClientClose(f) ==
    /\ dev' = CloseConns(f)
    /\ client' = [client EXCEPT ![f] = NoClient]
    /\ told' = [told EXCEPT ![f] = {}]

-----------------------------------------------------------------------------
(* One iteration of main_loop: poll, listen, usb, clients.                  *)

Live(f) == client[f].state # "FREE"

\* What poll() may report for f, of the events asked for: input when a command
\* or end of file is there, and on a connected socket at any time; output
\* unless the process lets the socket fill up.
Ready(f) ==
    {ev \in SUBSET client[f].events :
        /\ app[f].cmds > 0 \/ ~app[f].open => client[f].events \cap {"IN"} \subseteq ev
        /\ "IN" \in ev => app[f].cmds > 0 \/ ~app[f].open \/ client[f].state = "CONNECTED"
        /\ ~app[f].open => ev = client[f].events}

Poll ==
    /\ pc = "poll"
    /\ rev' \in {r \in [Fds -> SUBSET Events] :
                    \A f \in Fds : r[f] \in IF Live(f) THEN Ready(f) ELSE {{}}}
    /\ pc' = "listen"
    /\ UNCHANGED <<client, app, dev, accepted, sent, told, stray>>

\* Mutant: the listening socket is served last.
Accept_Late ==
    /\ pc = "clients" /\ accepted < MaxAccept
    /\ \E f \in Fds :
        /\ ~Live(f)
        /\ client' = [client EXCEPT ![f] = NewClient(accepted + 1)]
        /\ app' = [app EXCEPT ![f] = [open |-> TRUE, cmds |-> 0]]
    /\ accepted' = accepted + 1
    /\ UNCHANGED <<dev, pc, rev, sent, told, stray>>

\* client_accept.
Accept ==
    /\ pc = "listen" /\ accepted < MaxAccept
    /\ \E f \in Fds :
        /\ ~Live(f)
        /\ client' = [client EXCEPT ![f] = NewClient(accepted + 1)]
        /\ app' = [app EXCEPT ![f] = [open |-> TRUE, cmds |-> 0]]
    /\ accepted' = accepted + 1
    /\ pc' = "usb"
    /\ UNCHANGED <<dev, rev, sent, told, stray>>

Advance ==
    /\ \/ pc = "listen" /\ pc' = "usb"
       \/ pc = "usb" /\ pc' = "clients"
       \/ pc = "clients" /\ pc' = "poll" /\ \A f \in Fds : rev[f] = {}
    /\ UNCHANGED <<client, app, dev, rev, accepted, sent, told, stray>>

-----------------------------------------------------------------------------
(* USB events, any number of them within one usb_process, or within the     *)
(* usb_process_timeout between device_kill_connections and usb_shutdown.    *)

UsbServed == {"usb", "usb_shutdown"}

\* device_add: the version request is on its way.
DeviceAdd ==
    /\ pc \in UsbServed
    /\ \E d \in DevIds :
        /\ dev[d].state = "ABSENT" /\ \A e \in 1 .. d - 1 : dev[e].state # "ABSENT"
        /\ dev' = [dev EXCEPT ![d].state = "INIT"]
    /\ UNCHANGED <<client, app, pc, rev, accepted, sent, told, stray>>

\* device_version_input: the device becomes active and is announced to every
\* listener, or is dropped for an unknown version.
DeviceVersionInput ==
    /\ pc \in UsbServed
    /\ \E d \in DevIds :
        /\ dev[d].state = "INIT"
        /\ \/ /\ dev' = [dev EXCEPT ![d].state = "ACTIVE"]
              /\ client' = [f \in Fds |-> IF client[f].state = "LISTEN" THEN Queue(client[f], 1)
                                          ELSE client[f]]
              /\ told' = [f \in Fds |-> IF client[f].state = "LISTEN" THEN told[f] \cup {d}
                                        ELSE told[f]]
           \/ /\ dev' = [dev EXCEPT ![d].state = "GONE"]
              /\ UNCHANGED <<client, told>>
    /\ UNCHANGED <<app, pc, rev, accepted, sent, stray>>

\* Mutant: the connections of all devices end with the devices ds.
Removed_All(ds) ==
    LET active == {d \in ds : dev[d].state = "ACTIVE"}
        after == AfterTeardown(UNION {dev[d].conns : d \in DevIds})
    IN  /\ client' = [f \in Fds |-> IF client[f].state = "LISTEN"
                                    THEN Queue(after[f], Cardinality(active)) ELSE after[f]]
        /\ told' = [f \in Fds |-> told[f] \ active]
        /\ dev' = [d \in DevIds |->
                    [dev[d] EXCEPT !.state = IF d \in ds THEN "GONE" ELSE @, !.conns = {}]]

\* device_remove for the devices ds: their connections end, listeners are told.
Removed(ds) ==
    LET active == {d \in ds : dev[d].state = "ACTIVE"}
        after == AfterTeardown(UNION {dev[d].conns : d \in active})
    IN  /\ client' = [f \in Fds |-> IF client[f].state = "LISTEN"
                                    THEN Queue(after[f], Cardinality(active)) ELSE after[f]]
        /\ told' = [f \in Fds |-> told[f] \ active]
        /\ dev' = [d \in DevIds |-> IF d \in ds THEN [dev[d] EXCEPT !.state = "GONE", !.conns = {}]
                                    ELSE dev[d]]

DeviceRemove ==
    /\ pc \in UsbServed
    /\ \E d \in DevIds : dev[d].state \in {"INIT", "ACTIVE"} /\ Removed({d})
    /\ UNCHANGED <<app, pc, rev, accepted, sent, stray>>

\* The connection c of d ends: by an RST or another unexpected segment, because
\* an ACK could not be sent, or because a client failed.
EndConnection(d, c) ==
    /\ client' = AfterTeardown({c})
    /\ dev' = WithoutConns(d, {c})
    /\ UNCHANGED told

\* device_tcp_input on an active device.
DeviceTcpInput ==
    /\ pc = "usb"
    /\ \E d \in DevIds : \E c \in dev[d].conns, ev \in SUBSET Events :
        \/ EndConnection(d, c)
        \/ /\ c.state = "CONNECTING"
           /\ dev' = [dev EXCEPT ![d].conns = (@ \ {c}) \cup {[c EXCEPT !.state = "CONNECTED"]}]
           /\ client' = [client EXCEPT ![c.client] = SetEvents(NotifyConnect(@, TRUE), ev)]
           /\ UNCHANGED told
        \/ /\ c.state = "CONNECTED"
           /\ client' = [client EXCEPT ![c.client] = SetEvents(@, ev)]
           /\ UNCHANGED <<dev, told>>
    /\ UNCHANGED <<app, pc, rev, accepted, sent, stray>>

\* device_check_timeouts, when poll() returned 0: an ACK that cannot be sent
\* ends its connection.
CheckTimeouts ==
    /\ pc = "usb" /\ UsbMayFail /\ \A f \in Fds : rev[f] = {}
    /\ \E d \in DevIds : \E c \in dev[d].conns : c.state = "CONNECTED" /\ EndConnection(d, c)
    /\ UNCHANGED <<app, pc, rev, accepted, sent, stray>>

-----------------------------------------------------------------------------
(* client_process.                                                          *)

\* device_start_connect: no such device or no port, an unsent SYN, or a new
\* connection; and what handle_command makes of it.
StartConnect(f, d) ==
    LET port == FindSport(d)
    IN  /\ dev[d].state # "INIT"   \* that case is ConnectTooEarly
        /\ \/ /\ dev[d].state # "ACTIVE"
              /\ client' = [client EXCEPT ![f] = [Queue(@, 1) EXCEPT !.head = FALSE]]
              /\ UNCHANGED dev
           \/ /\ dev[d].state = "ACTIVE" /\ (port.sport = 0 \/ UsbMayFail)
              /\ client' = [client EXCEPT ![f] = [Queue(@, 1) EXCEPT !.head = FALSE]]
              /\ dev' = [dev EXCEPT ![d].next_sport = port.next]
           \/ /\ dev[d].state = "ACTIVE" /\ port.sport # 0
              /\ client' = [client EXCEPT ![f].state = "CONNECTING1", ![f].dev = d,
                                          ![f].head = FALSE]
              /\ dev' = [dev EXCEPT ![d].next_sport = port.next,
                                    ![d].conns = @ \cup {[client |-> f, sport |-> port.sport,
                                                          state |-> "CONNECTING"]}]
        /\ UNCHANGED told

\* Mutant: only devices that come later are announced.
StartListen_Future(f) ==
    /\ client' = [client EXCEPT ![f] = [Queue(@, 1) EXCEPT !.state = "LISTEN", !.head = FALSE]]
    /\ UNCHANGED <<dev, told>>

\* start_listen: the result, then one message for every visible device.
StartListen(f) ==
    /\ client' = [client EXCEPT ![f] = [Queue(@, 1 + Cardinality(Visible)) EXCEPT
                                          !.state = "LISTEN", !.head = FALSE]]
    /\ told' = [told EXCEPT ![f] = Visible]
    /\ UNCHANGED dev

\* SavePairRecord for device d: listeners hear that an attached device was
\* paired, then the result is queued.  d = 0: no device was named.
SavePairRecord(f, d) ==
    /\ client' = [g \in Fds |->
                    LET k == IF d \in Visible /\ client[g].state = "LISTEN"
                             THEN Queue(client[g], 1) ELSE client[g]
                    IN  IF g = f THEN [Queue(k, 1) EXCEPT !.head = FALSE] ELSE k]
    /\ UNCHANGED <<dev, told>>

\* Every other command is answered with one message, an unparsable one with none.
Answer(f, n) ==
    /\ client' = [client EXCEPT ![f] = [Queue(@, n) EXCEPT !.head = FALSE]]
    /\ UNCHANGED <<dev, told>>

\* handle_command of one of the given kinds, then client->ib_size = 0 at the end
\* of input_buffer_process.
HandleCommand(f, kinds) ==
    \/ /\ client[f].state # "COMMAND"
       /\ ClientClose(f)
       /\ stray' = stray \cup {"client"}
    \/ /\ client[f].state = "COMMAND"
       /\ \/ "Listen" \in kinds /\ StartListen(f)
          \/ "Connect" \in kinds /\ \E d \in DevIds : StartConnect(f, d)
          \/ "Save" \in kinds /\ \E d \in {0} \cup DevIds : SavePairRecord(f, d)
          \/ "Query" \in kinds /\ Answer(f, 1)
          \/ "Unparsable" \in kinds /\ Answer(f, 0)
       /\ UNCHANGED stray

\* input_buffer_process: end of file, or no buffer to read a header into,
\* closes the client; otherwise the header is read first and the command
\* handled at the next turn, at once if it has no body (only a record has to).
InputBufferProcess(f) ==
    \/ /\ app[f].cmds = 0 \/ client[f].state = "CONNECTING2"
       /\ ClientClose(f)
       /\ UNCHANGED <<app, stray>>
    \/ /\ app[f].cmds > 0 /\ client[f].state # "CONNECTING2" /\ ~client[f].head
       /\ \/ client' = [client EXCEPT ![f].head = TRUE] /\ UNCHANGED <<app, dev, told, stray>>
          \/ /\ "BadLength" \in Commands /\ ClientClose(f)
             /\ UNCHANGED <<app, stray>>
          \/ /\ app' = [app EXCEPT ![f].cmds = @ - 1]
             /\ HandleCommand(f, Commands \ {"Save"})
    \/ /\ app[f].cmds > 0 /\ client[f].state # "CONNECTING2" /\ client[f].head
       /\ app' = [app EXCEPT ![f].cmds = @ - 1]
       /\ HandleCommand(f, Commands)

\* Mutant: the event mask asked for on behalf of the device is not restored.
Sent_NoDevents(k, n) ==
    IF n < k.ob THEN [k EXCEPT !.ob = @ - n]
    ELSE [k EXCEPT !.ob = 0, !.events = @ \ {"OUT"},
                   !.state = IF @ = "CONNECTING2" THEN "CONNECTED" ELSE @]

\* output_buffer_process once n messages have left.
Sent(k, n) ==
    IF n < k.ob THEN [k EXCEPT !.ob = @ - n]
    ELSE IF k.state = "CONNECTING2"
         THEN [k EXCEPT !.ob = 0, !.state = "CONNECTED", !.events = k.devents]
         ELSE [k EXCEPT !.ob = 0, !.events = @ \ {"OUT"}]

OutputBufferProcess(f) ==
    /\ \/ ~app[f].open /\ ClientClose(f)
       \/ /\ app[f].open
          /\ \E n \in (IF client[f].ob = 0 THEN {0} ELSE 1 .. client[f].ob) :
               client' = [client EXCEPT ![f] = Sent(@, n)]
          /\ UNCHANGED <<dev, told>>
    /\ UNCHANGED <<app, stray>>

\* device_client_process: data moves, or the connection ends.
DeviceClientProcess(f) ==
    /\ \E d \in DevIds : \E c \in dev[d].conns :
        /\ c.client = f /\ d = client[f].dev
        /\ \/ (~app[f].open \/ UsbMayFail) /\ EndConnection(d, c)
           \/ /\ \E ev \in SUBSET Events : client' = [client EXCEPT ![f] = SetEvents(@, ev)]
              /\ UNCHANGED <<dev, told>>
    /\ UNCHANGED <<app, stray>>

\* input_buffer_process looking for the header it has read in a buffer that
\* client_notify_connect has freed: the daemon dies.
ReadFreedBuffer ==
    /\ pc = "clients" /\ pc' = "crash"
    /\ \E f \in Fds : "IN" \in rev[f] /\ client[f].state = "CONNECTING2" /\ client[f].head
    /\ stray' = stray \cup {"ib_buf"}
    /\ UNCHANGED <<client, app, dev, rev, accepted, sent, told>>

\* device_start_connect for a device whose version is not known yet, and whose
\* connections are uninitialised memory: what the daemon does now is undefined.
ConnectTooEarly ==
    /\ pc = "clients" /\ pc' = "crash" /\ "Connect" \in Commands
    /\ \E f \in Fds : "IN" \in rev[f] /\ client[f].state = "COMMAND" /\ app[f].cmds > 0
    /\ \E d \in DevIds : dev[d].state = "INIT"
    /\ stray' = stray \cup {"connections"}
    /\ UNCHANGED <<client, app, dev, rev, accepted, sent, told>>

ClientProcess ==
    /\ pc = "clients"
    /\ \E f \in Fds :
        /\ rev[f] # {} /\ rev' = [rev EXCEPT ![f] = {}]
        /\ \/ /\ ~Live(f) /\ UNCHANGED <<client, app, dev, told, stray>>
           \/ client[f].state = "CONNECTED" /\ DeviceClientProcess(f)
           \/ /\ Live(f) /\ client[f].state # "CONNECTED"
              /\ \/ /\ "IN" \in rev[f] /\ ~(client[f].state = "CONNECTING2" /\ client[f].head)
                    /\ InputBufferProcess(f)
                 \/ "IN" \notin rev[f] /\ OutputBufferProcess(f)
    /\ UNCHANGED <<pc, accepted, sent>>

-----------------------------------------------------------------------------
(* Shutdown, in the order of main, and the clients' processes.              *)

\* device_kill_connections, once main_loop ended: by a signal, or because
\* accept() or usb_process() failed.  Then USB is served a while longer.
KillConnections ==
    /\ pc \in {"poll", "listen", "usb"} /\ pc' = "usb_shutdown"
    /\ client' = AfterTeardown(UNION {dev[d].conns : d \in DevIds})
    /\ dev' = [d \in DevIds |-> [dev[d] EXCEPT !.conns = {}]]
    /\ rev' = [f \in Fds |-> {}]
    /\ UNCHANGED <<app, accepted, sent, told, stray>>

UsbShutdown ==
    /\ pc = "usb_shutdown" /\ pc' = "client_shutdown"
    /\ Removed({d \in DevIds : dev[d].state \in {"INIT", "ACTIVE"}})
    /\ UNCHANGED <<app, rev, accepted, sent, stray>>

ClientShutdown ==
    /\ pc = "client_shutdown" /\ pc' = "exit"
    /\ client' = [f \in Fds |-> NoClient]
    /\ told' = [f \in Fds |-> {}]
    /\ UNCHANGED <<app, dev, rev, accepted, sent, stray>>

AppSends ==
    /\ \E f \in Fds :
        /\ Live(f) /\ app[f].open /\ sent < MaxCmd
        /\ app' = [app EXCEPT ![f].cmds = @ + 1]
    /\ sent' = sent + 1
    /\ UNCHANGED <<client, dev, pc, rev, accepted, told, stray>>

AppCloses ==
    /\ \E f \in Fds :
        /\ Live(f) /\ app[f].open
        /\ app' = [app EXCEPT ![f].open = FALSE]
    /\ UNCHANGED <<client, dev, pc, rev, accepted, sent, told, stray>>

Init ==
    /\ client = [f \in Fds |-> NoClient]
    /\ app = [f \in Fds |-> [open |-> FALSE, cmds |-> 0]]
    /\ dev = [d \in DevIds |-> [state |-> "ABSENT", next_sport |-> 1, conns |-> {}]]
    /\ pc = "poll"
    /\ rev = [f \in Fds |-> {}]
    /\ accepted = 0 /\ sent = 0
    /\ told = [f \in Fds |-> {}]
    /\ stray = {}

Next ==
    \/ Poll \/ Accept \/ Advance
    \/ DeviceAdd \/ DeviceVersionInput \/ DeviceRemove \/ DeviceTcpInput \/ CheckTimeouts
    \/ ClientProcess \/ ReadFreedBuffer \/ ConnectTooEarly
    \/ KillConnections \/ UsbShutdown \/ ClientShutdown
    \/ AppSends \/ AppCloses

Spec == Init /\ [][Next]_vars

-----------------------------------------------------------------------------
\* Types: ports stay within their 16 bits (find_sport), counters within their bounds.
TypeOK ==
    /\ client \in [Fds -> [state : ClientStates, events : SUBSET Events, devents : SUBSET Events,
                           ob : Nat, head : BOOLEAN, dev : 0 .. MaxDev, born : 0 .. MaxAccept]]
    /\ app \in [Fds -> [open : BOOLEAN, cmds : 0 .. MaxCmd]]
    /\ dev \in [DevIds -> [state : DevStates, next_sport : Ports, conns : SUBSET Connections]]
    /\ pc \in {"poll", "listen", "usb", "clients", "usb_shutdown", "client_shutdown", "exit",
               "crash"}
    /\ rev \in [Fds -> SUBSET Events]
    /\ accepted \in 0 .. MaxAccept /\ sent \in 0 .. MaxCmd
    /\ told \in [Fds -> SUBSET DevIds]
    /\ stray \subseteq {"client", "ib_buf", "connections"}

\* Clients and connections correspond one to one, in matching states, through
\* refusals, resets, unplugging and clients that leave at any point: neither
\* ever refers to the other after it was freed (connection_teardown,
\* client_close and device_abort_connect call each other).
ConnectionsMatchClients ==
    /\ \A d \in DevIds : \A c \in dev[d].conns :
        /\ client[c.client].dev = d
        /\ IF c.state = "CONNECTING" THEN client[c.client].state = "CONNECTING1"
           ELSE client[c.client].state \in {"CONNECTING2", "CONNECTED"}
    /\ \A f \in Fds :
        Cardinality(ConnsOf(f)) =
            IF client[f].state \in {"CONNECTING1", "CONNECTING2", "CONNECTED"} THEN 1 ELSE 0

\* No two connections of a device share a source port, none uses port 0, and
\* only an active device has connections (find_sport, device_remove).
PortsDistinct ==
    \A d \in DevIds :
        /\ \A c, e \in dev[d].conns : c # e => c.sport # e.sport
        /\ \A c \in dev[d].conns : c.sport # 0 /\ dev[d].state = "ACTIVE"

\* A message that waits in an output buffer is polled for, and a client whose
\* socket carries a device's data has no message left to mix into it.
QueuedIsPolled ==
    \A f \in Fds :
        /\ client[f].ob > 0 => "OUT" \in client[f].events
        /\ client[f].state = "CONNECTING2" => client[f].ob > 0
        /\ client[f].state = "CONNECTED" =>
            client[f].ob = 0 /\ client[f].events = client[f].devents

\* A listener has been told of exactly the devices it may connect to, whether
\* they came or went before or after it sent Listen (start_listen,
\* client_device_add, client_device_remove).
ListenersInformed ==
    \A f \in Fds : told[f] = IF client[f].state = "LISTEN" THEN Visible ELSE {}

\* The results of a poll() are never applied to a client accepted after it,
\* although a descriptor closed during the iteration may be reused: main_loop
\* serves the listening socket first.
FreshClientHasNoEvents ==
    [][\A f \in Fds : client'[f].born \notin {0, client[f].born} => rev'[f] = {}]_vars

\* What happens on one device leaves the connections of the others, and their
\* clients, alone.
DevicesAreIsolated ==
    [][pc = "usb" /\ pc' = "usb" =>
        \A d, e \in DevIds :
            dev'[d].conns # dev[d].conns /\ d # e =>
                /\ dev'[e].conns = dev[e].conns
                /\ \A c \in dev[e].conns : client'[c.client] = client[c.client]]_vars

\* The phase of the conversation with f: what the client is told of a Connect
\* depends on the connection that is made for it, not on its own state.
HasConn(f) == \E d \in DevIds : \E c \in dev[d].conns : c.client = f
Awaits(f) == \E d \in DevIds : \E c \in dev[d].conns : c.client = f /\ c.state = "CONNECTING"

Phase(f) ==
    IF ~Live(f) THEN "none"
    ELSE IF client[f].state = "LISTEN" THEN "listening"
    ELSE IF ~HasConn(f) THEN "command"
    ELSE IF Awaits(f) THEN "waiting"
    ELSE IF client[f].ob > 0 THEN "granted" ELSE "relaying"

Phases == [f \in Fds |-> Phase(f)]
Queued == [f \in Fds |-> client[f].ob]

Protocol == INSTANCE ClientProtocol WITH
    Clients <- Fds, phase <- Phases, queue <- Queued, view <- told, devices <- Visible

\* Whatever devices, other clients and the shutdown do between poll() and the
\* handling of its results, each client sees the protocol: one answer to a
\* Connect, no message among a device's bytes, and all news while it listens.
ProtocolKept == Protocol!ProtocolSpec

\* find_sport gives no port only when all are taken.
PortRefusedOnlyWhenFull ==
    \A d \in Visible :
        FindSport(d).sport = 0 => Cardinality(dev[d].conns) >= PortMod - 1

\* The command buffer is no longer needed once the Connect succeeded.
CommandBufferUnneeded == "ib_buf" \notin stray

\* A client that died while its command was handled is left alone afterwards.
DeadClientUntouched == "client" \notin stray

=============================================================================
