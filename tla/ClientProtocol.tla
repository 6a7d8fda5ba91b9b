--------------------------- MODULE ClientProtocol ---------------------------
(***************************************************************************)
(* What the daemon promises the processes that connect to its socket, the  *)
(* conversation of src/src/client.c without the event loop behind it: a    *)
(* Connect is answered exactly once, nothing but answers and the bytes of  *)
(* the device reaches the socket and never both at a time, and a listener  *)
(* is told of every change of the devices, in step with all others.        *)
(***************************************************************************)
EXTENDS Naturals, FiniteSets

CONSTANT Clients

VARIABLES
    phase,      \* of each client's conversation
    queue,      \* messages each client is still to receive
    view,       \* the devices each client has been told of
    devices     \* the devices one may connect to

protocolVars == <<phase, queue, view, devices>>

ProtocolInit ==
    /\ phase = [f \in Clients |-> "none"] /\ queue = [f \in Clients |-> 0]
    /\ view = [f \in Clients |-> {}] /\ devices = {}

Moves(f, p, q) == phase[f] = p /\ phase'[f] = q
Queues(f, n) == queue'[f] = queue[f] + n /\ view'[f] = view[f]

Stays(f) == phase'[f] = phase[f] /\ Queues(f, 0)
Joins(f) == Moves(f, "none", "command") /\ queue'[f] = 0 /\ view'[f] = {}
Leaves(f) == phase'[f] = "none" /\ queue'[f] = 0 /\ view'[f] = {}

\* A command with a result, and news of a device that stays.
Answers(f) == Moves(f, "command", "command") /\ Queues(f, 1)
Notifies(f) == Moves(f, "listening", "listening") /\ Queues(f, 1)

\* The client becomes a listener: the result, then what there is.
Listens(f) ==
    /\ Moves(f, "command", "listening") /\ view'[f] = devices
    /\ queue'[f] = queue[f] + 1 + Cardinality(devices)

\* A Connect, without a word until it is granted or refused.
Connects(f) == Moves(f, "command", "waiting") /\ Queues(f, 0)
Grants(f) == Moves(f, "waiting", "granted") /\ Queues(f, 1)
Refuses(f) == Moves(f, "waiting", "command") /\ Queues(f, 1)

\* With the last message of a granted Connect the socket becomes the device's.
Delivers(f) ==
    /\ phase[f] \notin {"none", "relaying"} /\ view'[f] = view[f]
    /\ \E n \in 1 .. queue[f] : queue'[f] = queue[f] - n
    /\ phase'[f] = IF phase[f] = "granted" /\ queue'[f] = 0 THEN "relaying" ELSE phase[f]

\* The client's connection is lost together with a device.
Loses(f) == Refuses(f) \/ (phase[f] \in {"granted", "relaying"} /\ Leaves(f))

\* The devices are now ds: all listeners hear of each that came or left.
Hears(f, ds) ==
    /\ Moves(f, "listening", "listening") /\ view'[f] = ds
    /\ queue'[f] = queue[f] + Cardinality((ds \ devices) \cup (devices \ ds))

Converse ==
    /\ devices' = devices
    /\ \A f \in Clients :
        \/ Stays(f) \/ Joins(f) \/ Leaves(f) \/ Answers(f) \/ Notifies(f) \/ Listens(f)
        \/ Connects(f) \/ Grants(f) \/ Refuses(f) \/ Delivers(f)

Change ==
    /\ devices' # devices
    /\ \A f \in Clients : IF phase[f] = "listening" THEN Hears(f, devices') ELSE Stays(f) \/ Loses(f)

ProtocolNext == Converse \/ Change

ProtocolSpec == ProtocolInit /\ [][ProtocolNext]_protocolVars

=============================================================================
