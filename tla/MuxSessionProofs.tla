-------------------------- MODULE MuxSessionProofs --------------------------
(***************************************************************************)
(* That clients and connections never refer to each other after one of     *)
(* them was freed, that the source ports of a device's connections are     *)
(* distinct although next_sport wraps, that what is queued for a client is *)
(* polled for, that listeners know the devices, that a step concerns one   *)
(* device only, and that each client sees the client protocol: for any     *)
(* number of clients, devices and commands, and the 2^16 ports of the code.*)
(***************************************************************************)
EXTENDS MuxSession, FiniteSetTheorems, WellFoundedInduction, TLAPS

\* Most leaves need no arithmetic: they are left to Zenon, the others to SMT.
USE ZenonT(4), SMTT(30), ZenonT(40)

-----------------------------------------------------------------------------
(* find_sport.                                                              *)

\* A non-empty set of natural numbers has a least element.
LEMMA LeastElement ==
    ASSUME NEW S \in SUBSET Nat, S # {}
    PROVE  \E i \in S : \A j \in S : i <= j
<1> DEFINE R == {ss \in Nat \X Nat : ss[1] < ss[2]}
<1>1. IsWellFoundedOn(R, Nat)
  BY NatLessThanWellFounded DEF OpToRel
<1>2. PICK i \in S : \A j \in S : <<j, i>> \notin R
  <2> HIDE DEF R
  <2> QED
    BY <1>1, WFMin
<1>3. ASSUME NEW j \in S
      PROVE  i <= j
  <2>1. SUFFICES ASSUME j < i PROVE FALSE
    OBVIOUS
  <2>2. j \in Nat /\ i \in Nat
    OBVIOUS
  <2>3. <<j, i>> \in R
    BY <2>1, <2>2
  <2> QED
    BY <1>2, <2>3
<1> QED
  BY <1>3

\* Counting modulo PortMod from any port reaches every port.
LEMMA CountingReaches ==
    ASSUME NEW s \in Ports, NEW p \in Ports
    PROVE  \E i \in Ports : (s + i) % PortMod = p
<1>1. CASE s <= p
  <2>1. p - s \in Ports /\ s + (p - s) = p /\ p % PortMod = p
    BY <1>1, SessionAssumption DEF Ports
  <2> QED
    BY <2>1
<1>2. CASE p < s
  <2>1. p - s + PortMod \in Ports /\ s + (p - s + PortMod) = p + PortMod
    BY <1>2, SessionAssumption DEF Ports
  <2>2. (p + PortMod) % PortMod = p
    BY SessionAssumption DEF Ports
  <2> QED
    BY <2>1, <2>2
<1> QED
  BY <1>1, <1>2, SessionAssumption DEF Ports

\* With fewer connections than ports some port is free.
LEMMA SomePortFree ==
    ASSUME NEW S \in SUBSET Connections, IsFiniteSet(S), Cardinality(S) < PortMod
    PROVE  \E p \in Ports : \A c \in S : c.sport # p
<1> SUFFICES ASSUME \A p \in Ports : \E c \in S : c.sport = p PROVE FALSE
  OBVIOUS
<1> DEFINE g == [p \in Ports |-> CHOOSE c \in S : c.sport = p]
<1>1. \A p \in Ports : g[p] \in S /\ g[p].sport = p
  OBVIOUS
<1>2. IsFiniteSet(Ports) /\ Cardinality(Ports) = PortMod
  BY FS_Interval, SessionAssumption DEF Ports
<1>3. g \in [Ports -> S]
  BY <1>1
<1> HIDE DEF g
<1>4. \E x, y \in Ports : x # y /\ g[x] = g[y]
  BY <1>2, <1>3, FS_PigeonHole
<1> QED
  BY <1>1, <1>4

\* find_sport returns a port that no connection of the device has, or 0.
LEMMA FindSportFree ==
    ASSUME NEW d \in DevIds, dev[d].conns \in SUBSET Connections, IsFiniteSet(dev[d].conns),
           dev[d].next_sport \in Ports
    PROVE  /\ FindSport(d).sport \in Ports /\ FindSport(d).next \in Ports
           /\ FindSport(d).sport # 0 => \A c \in dev[d].conns : c.sport # FindSport(d).sport
<1>1. CASE Cardinality(dev[d].conns) >= PortMod - 1
  BY <1>1, SessionAssumption DEF FindSport, Ports
<1>2. CASE ~(Cardinality(dev[d].conns) >= PortMod - 1)
  <2> DEFINE used == {c.sport : c \in dev[d].conns}
             free == {i \in Ports : (dev[d].next_sport + i) % PortMod \notin used}
             least == CHOOSE i \in free : \A j \in free : i <= j
             sport == (dev[d].next_sport + least) % PortMod
  <2>1. Cardinality(dev[d].conns) < PortMod
    BY <1>2, FS_CardinalityType, SessionAssumption
  <2>2. PICK p \in Ports : p \notin used
    BY <2>1, SomePortFree
  <2>3. free # {}
    BY <2>2, CountingReaches
  <2>4. free \in SUBSET Nat
    BY SessionAssumption DEF Ports
  <2>5. least \in free
    <3> HIDE DEF free
    <3> QED
      BY <2>3, <2>4, LeastElement
  <2>6. sport \notin used /\ least \in Ports
    BY <2>5
  <2>7. sport \in Ports /\ (sport + 1) % PortMod \in Ports
    <3> HIDE DEF least
    <3> QED
      BY <2>6, SessionAssumption DEF Ports
  <2>8. FindSport(d) = [sport |-> sport, next |-> (sport + 1) % PortMod]
    BY <1>2 DEF FindSport
  <2> HIDE DEF used, sport
  <2>9. FindSport(d).sport = sport /\ FindSport(d).next \in Ports
    BY <2>7, <2>8
  <2>10. \A c \in dev[d].conns : c.sport # sport
    BY <2>6 DEF used
  <2> QED
    BY <2>7, <2>9, <2>10
<1> QED
  BY <1>1, <1>2

-----------------------------------------------------------------------------
(* The inductive invariant.                                                 *)

ClientRec == [state : ClientStates, events : SUBSET Events, devents : SUBSET Events,
              ob : Nat, head : BOOLEAN, dev : 0 .. MaxDev, born : Nat]
DevRec == [state : DevStates, next_sport : Ports, conns : SUBSET Connections]
Types == client \in [Fds -> ClientRec] /\ dev \in [DevIds -> DevRec] /\ accepted \in Nat

\* The states of a client that a connection refers to, and the shutdown, which
\* begins with the end of all connections.
Busy == {"CONNECTING1", "CONNECTING2", "CONNECTED"}
Down == {"usb_shutdown", "client_shutdown", "exit"}

\* The client of a connection refers to its device, in a matching state.
Matched(d, c) ==
    /\ client[c.client].dev = d
    /\ IF c.state = "CONNECTING" THEN client[c.client].state = "CONNECTING1"
       ELSE client[c.client].state \in {"CONNECTING2", "CONNECTED"}

SessionInv ==
    /\ Types
    /\ PortsDistinct
    /\ \A d \in DevIds : IsFiniteSet(dev[d].conns)
    /\ \A d \in DevIds : \A c \in dev[d].conns : Matched(d, c)
    /\ \A d \in DevIds : \A c, e \in dev[d].conns : c.client = e.client => c = e
    /\ \A f \in Fds : client[f].state \in Busy =>
        /\ client[f].dev \in DevIds
        /\ \E c \in dev[client[f].dev].conns : c.client = f
    /\ pc \in Down => \A d \in DevIds : dev[d].conns = {}

\* Nothing happens to client f that its connection would have to know of.
Steady(f) ==
    \/ client'[f].state \notin Busy /\ client[f].state \notin Busy
    \/ /\ client'[f].dev = client[f].dev
       /\ \/ client'[f].state = client[f].state
          \/ client[f].state = "CONNECTING2" /\ client'[f].state = "CONNECTED"

\* Connections end and nothing else happens to them: it is enough that their
\* clients are no longer busy.
LEMMA ConnectionsEnd ==
    ASSUME SessionInv, Types', NEW cs,
           \A d \in DevIds : dev'[d].conns = dev[d].conns \ cs,
           \A d \in DevIds : dev'[d].state = dev[d].state \/ dev'[d].conns = {},
           \A f \in Fds : \A d \in DevIds : \A c \in dev[d].conns \cap cs :
               c.client = f => client'[f].state \notin Busy,
           \A f \in Fds : (\A d \in DevIds : \A c \in dev[d].conns \cap cs : c.client # f)
               => Steady(f),
           pc' \in Down => pc \in Down \/ \A d \in DevIds : dev'[d].conns = {}
    PROVE  SessionInv'
<1>1. PortsDistinct'
  BY DEF SessionInv, PortsDistinct
<1>2. \A d \in DevIds : IsFiniteSet(dev'[d].conns)
  BY FS_Subset DEF SessionInv
<1>3. ASSUME NEW d \in DevIds, NEW c \in dev'[d].conns
      PROVE  Matched(d, c)'
  <2>1. c \in dev[d].conns /\ c \notin cs /\ Matched(d, c) /\ c.client \in Fds
    BY <1>3 DEF SessionInv, Types, DevRec, Connections
  <2>2. ASSUME NEW e \in DevIds, NEW b \in dev[e].conns \cap cs, b.client = c.client
        PROVE  FALSE
    <3>1. e = d
      BY <2>1, <2>2 DEF SessionInv, Matched
    <3> QED
      BY <2>1, <2>2, <3>1 DEF SessionInv
  <2>3. Steady(c.client)
    BY <2>1, <2>2
  <2> QED
    BY <2>1, <2>3 DEF Steady, Matched, Busy
<1>4. \A d \in DevIds : \A c, e \in dev'[d].conns : c.client = e.client => c = e
  BY DEF SessionInv
<1>5. ASSUME NEW f \in Fds, client'[f].state \in Busy
      PROVE  /\ client'[f].dev \in DevIds
             /\ \E c \in dev'[client'[f].dev].conns : c.client = f
  <2>1. \A d \in DevIds : \A c \in dev[d].conns \cap cs : c.client # f
    BY <1>5
  <2>2. client[f].state \in Busy /\ client'[f].dev = client[f].dev
    BY <1>5, <2>1 DEF Steady, Busy
  <2>3. PICK c \in dev[client[f].dev].conns : c.client = f
    BY <2>2 DEF SessionInv
  <2>4. client[f].dev \in DevIds
    BY <2>2 DEF SessionInv
  <2> QED
    BY <2>1, <2>2, <2>3, <2>4
<1>6. pc' \in Down => \A d \in DevIds : dev'[d].conns = {}
  BY DEF SessionInv
<1> QED
  BY <1>1, <1>2, <1>3, <1>4, <1>5, <1>6 DEF SessionInv

-----------------------------------------------------------------------------
(* What the helpers make of a client.                                       *)

\* struct mux_client once freed.
LEMMA NoClientType == NoClient \in ClientRec /\ NoClient.state = "FREE"
BY SessionAssumption DEF NoClient, ClientRec, ClientStates, Events

\* struct mux_client as client_accept fills it in.
LEMMA NewClientType ==
    ASSUME NEW n \in Nat
    PROVE  NewClient(n + 1) \in ClientRec /\ NewClient(n + 1).state = "COMMAND"
<1>1. n + 1 \in Nat /\ {"IN"} \in SUBSET Events /\ "COMMAND" \in ClientStates
  BY DEF Events, ClientStates
<1> QED
  BY <1>1, NoClientType DEF NewClient, ClientRec

\* output_buffer_add_message changes only the buffer and the mask.
LEMMA QueueType ==
    ASSUME NEW k \in ClientRec, NEW n \in Nat
    PROVE  /\ Queue(k, n) \in ClientRec
           /\ Queue(k, n).state = k.state /\ Queue(k, n).dev = k.dev
<1>1. CASE n = 0
  BY <1>1 DEF Queue
<1>2. CASE n # 0
  <2>1. Queue(k, n) = [k EXCEPT !.ob = @ + n, !.events = @ \cup {"OUT"}]
    BY <1>2 DEF Queue
  <2>2. k.ob + n \in Nat /\ k.events \cup {"OUT"} \in SUBSET Events
    BY DEF ClientRec, Events
  <2> QED
    BY <2>1, <2>2 DEF ClientRec
<1> QED
  BY <1>1, <1>2

\* client_notify_connect on a client whose Connect is under way.
LEMMA NotifyConnectType ==
    ASSUME NEW k \in ClientRec, NEW ok \in BOOLEAN
    PROVE  /\ NotifyConnect(k, ok) \in ClientRec
           /\ NotifyConnect(k, ok).dev = k.dev
           /\ k.state = "CONNECTING1" =>
                NotifyConnect(k, ok).state = IF ok THEN "CONNECTING2" ELSE "COMMAND"
<1> DEFINE q == Queue(k, 1)
<1>1. q \in ClientRec /\ q.dev = k.dev
  BY QueueType
<1> HIDE DEF q
<1>2. /\ [q EXCEPT !.state = "CONNECTING2", !.events = {"OUT"}] \in ClientRec
      /\ [q EXCEPT !.state = "COMMAND"] \in ClientRec
  BY <1>1 DEF ClientRec, ClientStates, Events
<1>3. NotifyConnect(k, ok) =
        IF k.state # "CONNECTING1" THEN k
        ELSE IF ok THEN [q EXCEPT !.state = "CONNECTING2", !.events = {"OUT"}]
        ELSE [q EXCEPT !.state = "COMMAND"]
  BY DEF NotifyConnect, q
<1> QED
  BY <1>1, <1>2, <1>3 DEF ClientRec

\* client_set_events.
LEMMA SetEventsType ==
    ASSUME NEW k \in ClientRec, NEW ev \in SUBSET Events
    PROVE  /\ SetEvents(k, ev) \in ClientRec
           /\ SetEvents(k, ev).state = k.state /\ SetEvents(k, ev).dev = k.dev
BY DEF SetEvents, ClientRec

\* output_buffer_process: the only change of state is the last step of a Connect.
LEMMA SentType ==
    ASSUME NEW k \in ClientRec, NEW n \in 0 .. k.ob
    PROVE  /\ Sent(k, n) \in ClientRec /\ Sent(k, n).dev = k.dev
           /\ \/ Sent(k, n).state = k.state
              \/ k.state = "CONNECTING2" /\ Sent(k, n).state = "CONNECTED"
<1>1. k.ob \in Nat /\ k.ob - n \in Nat
  BY DEF ClientRec
<1>2. /\ [k EXCEPT !.ob = @ - n] \in ClientRec
      /\ [k EXCEPT !.ob = 0, !.events = @ \ {"OUT"}] \in ClientRec
  BY <1>1 DEF ClientRec
<1>3. [k EXCEPT !.ob = 0, !.state = "CONNECTED", !.events = k.devents] \in ClientRec
  BY DEF ClientRec, ClientStates
<1> QED
  BY <1>2, <1>3 DEF Sent, ClientRec

\* connection_teardown leaves the clients of the connections without one, and
\* the others alone.
LEMMA TeardownFreesClients ==
    ASSUME SessionInv, NEW cs, \A c \in cs : \E d \in DevIds : c \in dev[d].conns
    PROVE  /\ AfterTeardown(cs) \in [Fds -> ClientRec]
           /\ \A f \in Fds : IF \E c \in cs : c.client = f
                             THEN AfterTeardown(cs)[f].state \notin Busy
                             ELSE AfterTeardown(cs)[f] = client[f]
<1>1. ASSUME NEW f \in Fds, NEW c \in cs, c.client = f
      PROVE  TornDown(client[f], c) \in ClientRec /\ TornDown(client[f], c).state \notin Busy
  <2>1. PICK d \in DevIds : Matched(d, c)
    BY DEF SessionInv
  <2>2. client[f] \in ClientRec
    BY DEF SessionInv, Types
  <2>3. CASE c.state = "CONNECTING"
    <3>1. client[f].state = "CONNECTING1"
      BY <1>1, <2>1, <2>3 DEF Matched
    <3> QED
      BY <2>2, <2>3, <3>1, NotifyConnectType DEF TornDown, Busy
  <2>4. CASE c.state # "CONNECTING"
    BY <2>4, NoClientType DEF TornDown, Busy
  <2> QED
    BY <2>3, <2>4
<1>2. ASSUME NEW f \in Fds
      PROVE  LET k == IF \E c \in cs : c.client = f
                      THEN TornDown(client[f], CHOOSE c \in cs : c.client = f) ELSE client[f]
             IN  /\ k \in ClientRec
                 /\ IF \E c \in cs : c.client = f THEN k.state \notin Busy ELSE k = client[f]
  <2>1. client[f] \in ClientRec
    BY DEF SessionInv, Types
  <2>2. CASE \E c \in cs : c.client = f
    <3>1. PICK b : b = CHOOSE c \in cs : c.client = f
      OBVIOUS
    <3>2. b \in cs /\ b.client = f
      BY <2>2, <3>1
    <3> QED
      BY <1>1, <2>2, <3>1, <3>2
  <2> QED
    BY <2>1, <2>2
<1> QED
  BY <1>2 DEF AfterTeardown

-----------------------------------------------------------------------------
(* The ways in which handlers change clients and connections.               *)

\* No connection changes.
LEMMA QuietStep ==
    ASSUME SessionInv, client' \in [Fds -> ClientRec], UNCHANGED dev, accepted' \in Nat,
           \A f \in Fds : Steady(f), pc' \in Down => pc \in Down
    PROVE  SessionInv'
<1>1. Types'
  BY DEF SessionInv, Types
<1>2. \A d \in DevIds : dev'[d].conns = dev[d].conns \ {} /\ dev'[d].state = dev[d].state
  OBVIOUS
<1>3. \A d \in DevIds : dev[d].conns \cap {} = {}
  OBVIOUS
<1> QED
  BY <1>1, <1>2, <1>3, ConnectionsEnd

\* Only a client that is not busy changes, to a state in which it is not busy.
LEMMA IdleClientChanges ==
    ASSUME SessionInv, NEW f \in Fds, NEW k \in ClientRec,
           client[f].state \notin Busy, k.state \notin Busy,
           client' = [client EXCEPT ![f] = k], UNCHANGED dev, accepted' \in Nat,
           pc' \in Down => pc \in Down
    PROVE  SessionInv'
<1>1. client' \in [Fds -> ClientRec] /\ \A g \in Fds : Steady(g)
  BY DEF SessionInv, Types, Steady
<1> QED
  BY <1>1, QuietStep

\* connection_teardown of one connection.
LEMMA EndConnectionKeeps ==
    ASSUME SessionInv, NEW d \in DevIds, NEW c \in dev[d].conns, EndConnection(d, c),
           UNCHANGED accepted, pc' \in Down => pc \in Down
    PROVE  SessionInv'
<1> DEFINE A == AfterTeardown({c})
<1>1. /\ A \in [Fds -> ClientRec]
      /\ \A f \in Fds : IF c.client = f THEN A[f].state \notin Busy ELSE A[f] = client[f]
  BY TeardownFreesClients
<1>2. client' = A /\ dev' = [dev EXCEPT ![d].conns = @ \ {c}]
  BY DEF EndConnection, WithoutConns
<1> HIDE DEF A
<1>3. dev \in [DevIds -> DevRec] /\ dev' \in [DevIds -> DevRec]
  BY <1>2 DEF SessionInv, Types, DevRec
<1>4. \A e \in DevIds : dev'[e].state = dev[e].state
  BY <1>2, <1>3 DEF DevRec
<1>5. \A e \in DevIds : dev'[e].conns = dev[e].conns \ {c}
  <2>1. ASSUME NEW e \in DevIds, c \in dev[e].conns
        PROVE  e = d
    BY <2>1 DEF SessionInv, Matched
  <2> QED
    BY <1>2, <1>3, <2>1 DEF DevRec
<1>6. Types'
  BY <1>1, <1>2, <1>3 DEF SessionInv, Types
<1>7. \A f \in Fds : \A e \in DevIds : \A b \in dev[e].conns \cap {c} :
         b.client = f => client'[f].state \notin Busy
  BY <1>1, <1>2
<1>8. \A f \in Fds : (\A e \in DevIds : \A b \in dev[e].conns \cap {c} : b.client # f)
         => Steady(f)
  BY <1>1, <1>2 DEF Steady
<1> QED
  BY <1>4, <1>5, <1>6, <1>7, <1>8, ConnectionsEnd

\* client_close of a client that is not relaying: device_abort_connect frees
\* the connection of one whose Connect is under way.
LEMMA ClientCloseKeeps ==
    ASSUME SessionInv, NEW f \in Fds, client[f].state # "CONNECTED", ClientClose(f),
           UNCHANGED accepted, pc' \in Down => pc \in Down
    PROVE  SessionInv'
<1>1. /\ client' \in [Fds -> ClientRec] /\ client'[f].state = "FREE"
      /\ \A g \in Fds \ {f} : client'[g] = client[g]
  BY NoClientType DEF ClientClose, SessionInv, Types
<1>2. CASE client[f].state \notin Busy
  <2>1. UNCHANGED dev
    BY <1>2 DEF ClientClose, CloseConns, Busy
  <2>2. \A g \in Fds : Steady(g)
    BY <1>1, <1>2 DEF Steady, Busy
  <2>3. accepted' \in Nat
    BY DEF SessionInv, Types
  <2> QED
    BY <1>1, <2>1, <2>2, <2>3, QuietStep
<1>3. CASE client[f].state \in Busy
  <2> DEFINE d == client[f].dev
             cs == {c \in dev[d].conns : c.client = f}
  <2>1. d \in DevIds /\ dev \in [DevIds -> DevRec]
    BY <1>3 DEF SessionInv, Types
  <2>2. dev' = [dev EXCEPT ![d].conns = @ \ cs]
    <3>1. dev' = [dev EXCEPT ![d].conns = {c \in @ : c.client # f}]
      BY <1>3 DEF ClientClose, CloseConns, Busy
    <3>2. {c \in dev[d].conns : c.client # f} = dev[d].conns \ cs
      OBVIOUS
    <3> QED
      BY <3>1, <3>2
  <2>3. \A e \in DevIds : \A c \in dev[e].conns : c.client = f => e = d /\ c \in cs
    BY DEF SessionInv, Matched
  <2>4. \A c \in cs : c.client = f
    OBVIOUS
  <2> HIDE DEF cs, d
  <2>5. dev' \in [DevIds -> DevRec] /\ \A e \in DevIds : dev'[e].state = dev[e].state
    BY <2>1, <2>2 DEF DevRec
  <2>6. \A e \in DevIds : dev'[e].conns = dev[e].conns \ cs
    <3>1. ASSUME NEW e \in DevIds, e # d
          PROVE  dev[e].conns = dev[e].conns \ cs
      BY <2>3, <2>4, <3>1
    <3> QED
      BY <2>1, <2>2, <3>1 DEF DevRec
  <2>7. Types'
    BY <1>1, <2>5 DEF SessionInv, Types
  <2>8. \A g \in Fds : g # f => Steady(g)
    BY <1>1 DEF Steady
  <2>9. \E c \in cs : c.client = f
    BY <1>3, <2>3 DEF SessionInv, d
  <2>10. \A g \in Fds : (\A e \in DevIds : \A c \in dev[e].conns \cap cs : c.client # g) => Steady(g)
    BY <2>1, <2>3, <2>8, <2>9, <1>3 DEF SessionInv, d
  <2>11. \A g \in Fds : \A e \in DevIds : \A c \in dev[e].conns \cap cs :
            c.client = g => client'[g].state \notin Busy
    BY <1>1, <2>4 DEF Busy
  <2> QED
    BY <2>5, <2>6, <2>7, <2>10, <2>11, ConnectionsEnd
<1> QED
  BY <1>2, <1>3

\* The number of any devices is a number.
LEMMA DevicesCounted ==
    ASSUME NEW ds \in SUBSET DevIds
    PROVE  Cardinality(ds) \in Nat
<1>1. IsFiniteSet(DevIds)
  BY FS_Interval, SessionAssumption DEF DevIds
<1> QED
  BY <1>1, FS_Subset, FS_CardinalityType

\* All connections of the devices ds end, and no others.
LEMMA DevicesEnd ==
    ASSUME SessionInv, Types', NEW ds \in SUBSET DevIds,
           \A d \in DevIds : dev'[d].conns = (IF d \in ds THEN {} ELSE dev[d].conns),
           \A d \in DevIds : dev'[d].state = dev[d].state \/ dev'[d].conns = {},
           NEW A, A = AfterTeardown(UNION {dev[d].conns : d \in ds}),
           \A f \in Fds : client'[f].state = A[f].state /\ client'[f].dev = A[f].dev,
           pc' \in Down => pc \in Down \/ ds = DevIds
    PROVE  SessionInv'
<1> DEFINE cs == UNION {dev[d].conns : d \in ds}
<1>1. \A f \in Fds : IF \E c \in cs : c.client = f THEN A[f].state \notin Busy
                     ELSE A[f] = client[f]
  BY TeardownFreesClients
<1>2. ASSUME NEW d \in DevIds
      PROVE  dev'[d].conns = dev[d].conns \ cs
  <2>1. CASE d \in ds
    BY <2>1
  <2>2. CASE d \notin ds
    <3>1. \A e \in ds : \A c \in dev[e].conns : c \notin dev[d].conns
      BY <2>2 DEF SessionInv, Matched
    <3> QED
      BY <2>2, <3>1
  <2> QED
    BY <2>1, <2>2
<1>3. \A d \in DevIds : \A c \in dev[d].conns \cap cs : c \in cs
  OBVIOUS
<1>4. \A c \in cs : \E d \in DevIds : c \in dev[d].conns \cap cs
  OBVIOUS
<1> HIDE DEF cs
<1>6. \A f \in Fds : \A d \in DevIds : \A c \in dev[d].conns \cap cs :
         c.client = f => client'[f].state \notin Busy
  BY <1>1, <1>3
<1>7. \A f \in Fds : (\A d \in DevIds : \A c \in dev[d].conns \cap cs : c.client # f) => Steady(f)
  BY <1>1, <1>4 DEF Steady
<1>8. pc' \in Down => pc \in Down \/ \A d \in DevIds : dev'[d].conns = {}
  OBVIOUS
<1> QED
  BY <1>2, <1>6, <1>7, <1>8, ConnectionsEnd

\* device_remove, at any time.
LEMMA RemovedKeeps ==
    ASSUME SessionInv, NEW ds \in SUBSET DevIds, Removed(ds), UNCHANGED accepted,
           pc' \in Down => pc \in Down
    PROVE  SessionInv'
<1> DEFINE active == {d \in ds : dev[d].state = "ACTIVE"}
           A == AfterTeardown(UNION {dev[d].conns : d \in active})
           N == Cardinality(active)
<1>1. N \in Nat
  BY DevicesCounted
<1>2. A \in [Fds -> ClientRec]
  BY TeardownFreesClients
<1>3. /\ client' = [f \in Fds |-> IF client[f].state = "LISTEN" THEN Queue(A[f], N) ELSE A[f]]
      /\ dev' = [d \in DevIds |-> IF d \in ds THEN [dev[d] EXCEPT !.state = "GONE", !.conns = {}]
                                  ELSE dev[d]]
  BY DEF Removed
<1>4. \A d \in DevIds : d \notin active => d \notin ds \/ dev[d].conns = {}
  BY DEF SessionInv, PortsDistinct
<1>5. \A d \in active : d \in ds /\ d \in DevIds
  OBVIOUS
<1> HIDE DEF A, N
<1>6. /\ client' \in [Fds -> ClientRec]
      /\ \A f \in Fds : client'[f].state = A[f].state /\ client'[f].dev = A[f].dev
  BY <1>1, <1>2, <1>3, QueueType
<1>7. dev \in [DevIds -> DevRec]
  BY DEF SessionInv, Types
<1>8. \A d \in DevIds : [dev[d] EXCEPT !.state = "GONE", !.conns = {}] \in DevRec
  BY <1>7 DEF DevRec, DevStates
<1>9. dev' \in [DevIds -> DevRec]
  BY <1>3, <1>7, <1>8
<1>10. Types'
  BY <1>6, <1>9 DEF SessionInv, Types
<1> HIDE DEF active
<1>11. \A d \in DevIds : dev'[d].conns = (IF d \in active THEN {} ELSE dev[d].conns)
  BY <1>3, <1>4, <1>5, <1>7 DEF DevRec
<1>12. \A d \in DevIds : dev'[d].state = dev[d].state \/ dev'[d].conns = {}
  BY <1>3, <1>7 DEF DevRec
<1>13. active \in SUBSET DevIds /\ A = AfterTeardown(UNION {dev[d].conns : d \in active})
  BY DEF active, A
<1> QED
  BY <1>6, <1>10, <1>11, <1>12, <1>13, DevicesEnd

\* device_kill_connections.
LEMMA KillConnectionsKeeps ==
    ASSUME SessionInv, KillConnections
    PROVE  SessionInv'
<1> DEFINE A == AfterTeardown(UNION {dev[d].conns : d \in DevIds})
<1>1. A \in [Fds -> ClientRec] /\ client' = A /\ UNCHANGED accepted
  BY TeardownFreesClients DEF KillConnections
<1>2. dev \in [DevIds -> DevRec] /\ dev' = [d \in DevIds |-> [dev[d] EXCEPT !.conns = {}]]
  BY DEF SessionInv, Types, KillConnections
<1> HIDE DEF A
<1>3. dev' \in [DevIds -> DevRec] /\ \A d \in DevIds : dev'[d].conns = {}
  BY <1>2 DEF DevRec
<1>4. Types'
  BY <1>1, <1>3 DEF SessionInv, Types
<1>5. A = AfterTeardown(UNION {dev[d].conns : d \in DevIds})
  BY DEF A
<1> QED
  BY <1>1, <1>3, <1>4, <1>5, DevicesEnd

\* device_tcp_input on the device's answer to the SYN.
LEMMA EstablishedKeeps ==
    ASSUME SessionInv, NEW d \in DevIds, NEW c \in dev[d].conns, NEW ev \in SUBSET Events,
           c.state = "CONNECTING",
           dev' = [dev EXCEPT ![d].conns = (@ \ {c}) \cup {[c EXCEPT !.state = "CONNECTED"]}],
           client' = [client EXCEPT ![c.client] = SetEvents(NotifyConnect(@, TRUE), ev)],
           UNCHANGED accepted, pc' \in Down => pc \in Down
    PROVE  SessionInv'
<1> DEFINE n == [c EXCEPT !.state = "CONNECTED"]
           f == c.client
           k == SetEvents(NotifyConnect(client[f], TRUE), ev)
<1>1. dev \in [DevIds -> DevRec] /\ client \in [Fds -> ClientRec] /\ c \in Connections /\ f \in Fds
  BY DEF SessionInv, Types, DevRec, Connections
<1>2. client[f].state = "CONNECTING1" /\ client[f].dev = d
  BY DEF SessionInv, Matched
<1>3. k \in ClientRec /\ k.state = "CONNECTING2" /\ k.dev = d
  <2>1. client[f] \in ClientRec
    BY <1>1
  <2>2. k \in ClientRec /\ k.state = "CONNECTING2" /\ k.dev = d
    <3> DEFINE q == NotifyConnect(client[f], TRUE)
    <3>1. q \in ClientRec /\ q.state = "CONNECTING2" /\ q.dev = d
      BY <1>2, <2>1, NotifyConnectType
    <3> HIDE DEF q
    <3>2. SetEvents(q, ev) \in ClientRec /\ SetEvents(q, ev).state = "CONNECTING2"
          /\ SetEvents(q, ev).dev = d
      BY <3>1, SetEventsType
    <3> QED
      BY <3>2 DEF q
  <2> QED
    BY <2>2
<1>4. n \in Connections /\ n.client = f /\ n.sport = c.sport /\ n.state = "CONNECTED"
  BY <1>1 DEF Connections
<1>5. client' = [client EXCEPT ![f] = k] /\ dev' = [dev EXCEPT ![d].conns = (@ \ {c}) \cup {n}]
  BY <1>1
<1> HIDE DEF n, f, k
<1>6. dev' \in [DevIds -> DevRec] /\ client' \in [Fds -> ClientRec] /\ accepted' \in Nat
  <2>1. (dev[d].conns \ {c}) \cup {n} \in SUBSET Connections
    BY <1>1, <1>4 DEF DevRec
  <2>2. dev' \in [DevIds -> DevRec]
    BY <1>1, <1>5, <2>1 DEF DevRec
  <2>3. client' \in [Fds -> ClientRec]
    BY <1>1, <1>3, <1>5
  <2> QED
    BY <2>2, <2>3 DEF SessionInv, Types
<1>7. /\ dev'[d].conns = (dev[d].conns \ {c}) \cup {n}
      /\ \A e \in DevIds : dev'[e].state = dev[e].state /\ (e # d => dev'[e].conns = dev[e].conns)
  BY <1>1, <1>5 DEF DevRec
<1>8. client'[f] = k /\ \A g \in Fds : g # f => client'[g] = client[g]
  BY <1>1, <1>5
<1>9. PortsDistinct'
  BY <1>4, <1>7 DEF SessionInv, PortsDistinct
<1>10. \A e \in DevIds : IsFiniteSet(dev'[e].conns)
  <2>1. IsFiniteSet(dev[d].conns \ {c})
    BY FS_RemoveElement DEF SessionInv
  <2>2. IsFiniteSet((dev[d].conns \ {c}) \cup {n})
    BY <2>1, FS_AddElement
  <2>3. IsFiniteSet(dev'[d].conns)
    BY <1>7, <2>2
  <2> QED
    BY <1>7, <2>3 DEF SessionInv
<1>11. ASSUME NEW e \in DevIds, NEW b \in dev'[e].conns
       PROVE  Matched(e, b)'
  <2>1. CASE e = d /\ b = n
    BY <1>3, <1>4, <1>8, <2>1 DEF Matched
  <2>2. CASE ~(e = d /\ b = n)
    <3>1. b \in dev[e].conns /\ b # c /\ Matched(e, b)
      BY <1>2, <1>7, <2>2 DEF SessionInv, Matched
    <3>2. b.client # f
      BY <1>2, <3>1 DEF SessionInv, Matched, f
    <3>3. b.client \in Fds
      BY <1>1, <3>1 DEF DevRec, Connections
    <3> QED
      BY <1>8, <3>1, <3>2, <3>3 DEF Matched
  <2> QED
    BY <2>1, <2>2
<1>12. \A e \in DevIds : \A a, b \in dev'[e].conns : a.client = b.client => a = b
  BY <1>4, <1>7 DEF SessionInv, f
<1>13. ASSUME NEW g \in Fds, client'[g].state \in Busy
       PROVE  /\ client'[g].dev \in DevIds
              /\ \E b \in dev'[client'[g].dev].conns : b.client = g
  <2>1. CASE g = f
    BY <1>3, <1>4, <1>7, <1>8, <2>1
  <2>2. CASE g # f
    <3>1. client'[g] = client[g] /\ client[g].dev \in DevIds
      BY <1>8, <1>13, <2>2 DEF SessionInv
    <3>2. PICK b \in dev[client[g].dev].conns : b.client = g
      BY <1>13, <3>1 DEF SessionInv
    <3>3. b # c
      BY <2>2, <3>2 DEF f
    <3> QED
      BY <1>7, <3>1, <3>2, <3>3
  <2> QED
    BY <2>1, <2>2
<1>14. pc' \in Down => \A e \in DevIds : dev'[e].conns = {}
  BY DEF SessionInv
<1> QED
  BY <1>6, <1>9, <1>10, <1>11, <1>12, <1>13, <1>14 DEF SessionInv, Types

\* A command answered with n messages.
LEMMA AnsweredType ==
    ASSUME NEW k \in ClientRec, NEW n \in Nat
    PROVE  LET r == [Queue(k, n) EXCEPT !.head = FALSE]
           IN  r \in ClientRec /\ r.state = k.state
<1> DEFINE q == Queue(k, n)
<1>1. q \in ClientRec /\ q.state = k.state
  BY QueueType
<1> HIDE DEF q
<1>2. LET r == [q EXCEPT !.head = FALSE] IN r \in ClientRec /\ r.state = k.state
  BY <1>1 DEF ClientRec
<1> QED
  BY <1>2 DEF q

\* device_start_connect that creates a connection.
LEMMA ConnectionStarts ==
    ASSUME SessionInv, NEW f \in Fds, NEW d \in DevIds,
           NEW k \in ClientRec, NEW D \in DevRec, NEW n \in Connections,
           client[f].state = "COMMAND", k.state = "CONNECTING1", k.dev = d,
           n.client = f, n.state = "CONNECTING", n.sport # 0,
           \A c \in dev[d].conns : c.sport # n.sport,
           D.state = "ACTIVE", dev[d].state = "ACTIVE", D.conns = dev[d].conns \cup {n},
           client' = [client EXCEPT ![f] = k], dev' = [dev EXCEPT ![d] = D],
           UNCHANGED accepted, pc' \notin Down
    PROVE  SessionInv'
<1>1. dev \in [DevIds -> DevRec] /\ client \in [Fds -> ClientRec]
  BY DEF SessionInv, Types
<1>2. dev' \in [DevIds -> DevRec] /\ client' \in [Fds -> ClientRec] /\ accepted' \in Nat
  BY <1>1 DEF SessionInv, Types
<1>3. /\ dev'[d].conns = dev[d].conns \cup {n}
      /\ \A e \in DevIds : dev'[e].state = dev[e].state /\ (e # d => dev'[e].conns = dev[e].conns)
  BY <1>1
<1>4. client'[f] = k /\ \A g \in Fds : g # f => client'[g] = client[g]
  BY <1>1
<1>5. \A e \in DevIds : \A c \in dev[e].conns : c.client \in Fds /\ c.client # f
  BY <1>1 DEF SessionInv, Matched, DevRec, Connections
<1>6. PortsDistinct'
  BY <1>3 DEF SessionInv, PortsDistinct
<1>7. \A e \in DevIds : IsFiniteSet(dev'[e].conns)
  <2>1. IsFiniteSet(dev[d].conns \cup {n})
    BY FS_AddElement DEF SessionInv
  <2> QED
    BY <1>3, <2>1 DEF SessionInv
<1>8. ASSUME NEW e \in DevIds, NEW b \in dev'[e].conns
       PROVE  Matched(e, b)'
  <2>1. CASE e = d /\ b = n
    BY <1>4, <2>1 DEF Matched
  <2>2. CASE ~(e = d /\ b = n)
    <3>1. b \in dev[e].conns
      BY <1>3, <1>8, <2>2
    <3>2. Matched(e, b) /\ client'[b.client] = client[b.client]
      BY <1>4, <1>5, <3>1 DEF SessionInv
    <3> QED
      BY <3>2 DEF Matched
  <2> QED
    BY <2>1, <2>2
<1>9. \A e \in DevIds : \A a, b \in dev'[e].conns : a.client = b.client => a = b
  BY <1>3, <1>5 DEF SessionInv
<1>10. ASSUME NEW g \in Fds, client'[g].state \in Busy
       PROVE  /\ client'[g].dev \in DevIds
              /\ \E b \in dev'[client'[g].dev].conns : b.client = g
  <2>1. CASE g = f
    BY <1>3, <1>4, <2>1
  <2>2. CASE g # f
    BY <1>3, <1>4, <1>10, <2>2 DEF SessionInv
  <2> QED
    BY <2>1, <2>2
<1> QED
  BY <1>2, <1>6, <1>7, <1>8, <1>9, <1>10 DEF SessionInv, Types

\* device_start_connect, whatever its result.
LEMMA StartConnectKeeps ==
    ASSUME SessionInv, NEW f \in Fds, NEW d \in DevIds, client[f].state = "COMMAND",
           StartConnect(f, d), UNCHANGED accepted, pc' \notin Down
    PROVE  SessionInv'
<1> DEFINE k == [Queue(client[f], 1) EXCEPT !.head = FALSE]
           port == FindSport(d)
<1>1. dev \in [DevIds -> DevRec] /\ client \in [Fds -> ClientRec] /\ accepted' \in Nat
  BY DEF SessionInv, Types
<1>2. k \in ClientRec /\ k.state = "COMMAND"
  <2>1. client[f] \in ClientRec
    BY <1>1
  <2> QED
    BY <2>1, AnsweredType
<1>3. /\ port.sport \in Ports /\ port.next \in Ports
      /\ port.sport # 0 => \A c \in dev[d].conns : c.sport # port.sport
  BY <1>1, FindSportFree DEF SessionInv, DevRec
<1> HIDE DEF k, port
<1>4. CASE client' = [client EXCEPT ![f] = k] /\ UNCHANGED dev
  BY <1>1, <1>2, <1>4, IdleClientChanges DEF Busy
<1>5. CASE client' = [client EXCEPT ![f] = k] /\ dev' = [dev EXCEPT ![d].next_sport = port.next]
  <2>1. dev' \in [DevIds -> DevRec]
    BY <1>1, <1>3, <1>5 DEF DevRec
  <2>2. \A e \in DevIds : dev'[e].conns = dev[e].conns \ {} /\ dev'[e].state = dev[e].state
    BY <1>1, <1>5 DEF DevRec
  <2>3. \A g \in Fds : Steady(g)
    BY <1>1, <1>2, <1>5 DEF Steady, Busy
  <2>4. Types'
    BY <1>1, <1>2, <1>5, <2>1 DEF Types
  <2>5. \A e \in DevIds : dev[e].conns \cap {} = {}
    OBVIOUS
  <2> QED
    BY <2>2, <2>3, <2>4, <2>5, ConnectionsEnd
<1>6. CASE /\ dev[d].state = "ACTIVE" /\ port.sport # 0
           /\ client' = [client EXCEPT ![f].state = "CONNECTING1", ![f].dev = d, ![f].head = FALSE]
           /\ dev' = [dev EXCEPT ![d].next_sport = port.next,
                                 ![d].conns = @ \cup {[client |-> f, sport |-> port.sport,
                                                       state |-> "CONNECTING"]}]
  <2> DEFINE n == [client |-> f, sport |-> port.sport, state |-> "CONNECTING"]
             c == [client[f] EXCEPT !.state = "CONNECTING1", !.dev = d, !.head = FALSE]
             D == [dev[d] EXCEPT !.next_sport = port.next, !.conns = @ \cup {n}]
  <2>1. client' = [client EXCEPT ![f] = c] /\ dev' = [dev EXCEPT ![d] = D]
    BY <1>1, <1>6
  <2>2. n \in Connections /\ n.client = f /\ n.sport = port.sport /\ n.state = "CONNECTING"
    BY <1>3 DEF Connections
  <2>3. c \in ClientRec /\ c.state = "CONNECTING1" /\ c.dev = d
    <3>1. client[f] \in ClientRec /\ d \in 0 .. MaxDev
      BY <1>1, SessionAssumption DEF DevIds
    <3> QED
      BY <3>1 DEF ClientRec, ClientStates
  <2> HIDE DEF n, c
  <2>4. D \in DevRec /\ D.state = dev[d].state /\ D.conns = dev[d].conns \cup {n}
    <3>1. dev[d] \in DevRec
      BY <1>1
    <3>2. dev[d].conns \cup {n} \in SUBSET Connections
      BY <2>2, <3>1 DEF DevRec
    <3> QED
      BY <1>3, <3>1, <3>2 DEF DevRec
  <2> HIDE DEF D
  <2>5. /\ D.state = "ACTIVE" /\ dev[d].state = "ACTIVE" /\ n.sport # 0
        /\ \A b \in dev[d].conns : b.sport # n.sport
    BY <1>3, <1>6, <2>2, <2>4
  <2> QED
    BY <2>1, <2>2, <2>3, <2>4, <2>5, ConnectionStarts
<1> QED
  BY <1>4, <1>5, <1>6 DEF StartConnect, k, port

-----------------------------------------------------------------------------
(* client_process.                                                          *)

\* start_listen.
LEMMA StartListenKeeps ==
    ASSUME SessionInv, NEW f \in Fds, client[f].state = "COMMAND", StartListen(f),
           UNCHANGED accepted, pc' \notin Down
    PROVE  SessionInv'
<1> DEFINE n == 1 + Cardinality(Visible)
           q == Queue(client[f], n)
           k == [q EXCEPT !.state = "LISTEN", !.head = FALSE]
<1>1. n \in Nat
  <2>1. Visible \in SUBSET DevIds
    BY DEF Visible
  <2> QED
    BY <2>1, DevicesCounted
<1>2. client' = [client EXCEPT ![f] = k] /\ UNCHANGED dev
  BY DEF StartListen
<1>3. client[f] \in ClientRec /\ accepted' \in Nat
  BY DEF SessionInv, Types
<1> HIDE DEF n
<1>4. q \in ClientRec
  BY <1>1, <1>3, QueueType
<1> HIDE DEF q
<1>5. k \in ClientRec /\ k.state = "LISTEN"
  BY <1>4 DEF ClientRec, ClientStates
<1> HIDE DEF k
<1> QED
  BY <1>2, <1>3, <1>5, IdleClientChanges DEF Busy

\* A command that is answered with n messages.
LEMMA AnswerKeeps ==
    ASSUME SessionInv, NEW f \in Fds, NEW n \in Nat, client[f].state = "COMMAND", Answer(f, n),
           UNCHANGED accepted, pc' \notin Down
    PROVE  SessionInv'
<1> DEFINE k == [Queue(client[f], n) EXCEPT !.head = FALSE]
<1>1. client' = [client EXCEPT ![f] = k] /\ UNCHANGED dev
  BY DEF Answer
<1>2. client[f] \in ClientRec /\ accepted' \in Nat
  BY DEF SessionInv, Types
<1>3. k \in ClientRec /\ k.state = "COMMAND"
  BY <1>2, AnsweredType
<1> HIDE DEF k
<1> QED
  BY <1>1, <1>2, <1>3, IdleClientChanges DEF Busy

\* SavePairRecord, which also writes to every listener.
LEMMA SavePairRecordKeeps ==
    ASSUME SessionInv, NEW f \in Fds, NEW d, client[f].state = "COMMAND", SavePairRecord(f, d),
           UNCHANGED accepted, pc' \notin Down
    PROVE  SessionInv'
<1> DEFINE K(g) == IF d \in Visible /\ client[g].state = "LISTEN"
                   THEN Queue(client[g], 1) ELSE client[g]
           R(g) == [Queue(K(g), 1) EXCEPT !.head = FALSE]
<1>1. client' = [g \in Fds |-> IF g = f THEN R(g) ELSE K(g)] /\ UNCHANGED dev
  BY DEF SavePairRecord
<1>2. ASSUME NEW g \in Fds
      PROVE  K(g) \in ClientRec /\ K(g).state = client[g].state /\ K(g).dev = client[g].dev
  <2>1. client[g] \in ClientRec
    BY DEF SessionInv, Types
  <2> QED
    BY <2>1, QueueType
<1> HIDE DEF K
<1>3. R(f) \in ClientRec /\ R(f).state = "COMMAND"
  BY <1>2, AnsweredType
<1> HIDE DEF R
<1>4. client' \in [Fds -> ClientRec] /\ \A g \in Fds : Steady(g)
  BY <1>1, <1>2, <1>3 DEF Steady, Busy
<1>5. accepted' \in Nat
  BY DEF SessionInv, Types
<1> QED
  BY <1>1, <1>4, <1>5, QuietStep

\* handle_command.
LEMMA HandleCommandKeeps ==
    ASSUME SessionInv, NEW f \in Fds, client[f].state # "CONNECTED", NEW kinds,
           HandleCommand(f, kinds), UNCHANGED accepted, pc' \notin Down
    PROVE  SessionInv'
BY ClientCloseKeeps, StartListenKeeps, StartConnectKeeps, SavePairRecordKeeps, AnswerKeeps
   DEF HandleCommand

\* input_buffer_process.
LEMMA InputBufferProcessKeeps ==
    ASSUME SessionInv, NEW f \in Fds, client[f].state # "CONNECTED", InputBufferProcess(f),
           UNCHANGED accepted, pc' \notin Down
    PROVE  SessionInv'
<1>1. CASE client' = [client EXCEPT ![f].head = TRUE] /\ UNCHANGED dev
  <2>1. client \in [Fds -> ClientRec] /\ accepted' \in Nat
    BY DEF SessionInv, Types
  <2>2. client' \in [Fds -> ClientRec] /\ \A g \in Fds : Steady(g)
    BY <1>1, <2>1 DEF ClientRec, Steady
  <2> QED
    BY <1>1, <2>1, <2>2, QuietStep
<1> QED
  BY <1>1, ClientCloseKeeps, HandleCommandKeeps DEF InputBufferProcess

\* output_buffer_process.
LEMMA OutputBufferProcessKeeps ==
    ASSUME SessionInv, NEW f \in Fds, client[f].state # "CONNECTED", OutputBufferProcess(f),
           UNCHANGED accepted, pc' \notin Down
    PROVE  SessionInv'
<1>1. client \in [Fds -> ClientRec] /\ accepted' \in Nat
  BY DEF SessionInv, Types
<1>2. ASSUME NEW n \in (IF client[f].ob = 0 THEN {0} ELSE 1 .. client[f].ob),
             client' = [client EXCEPT ![f] = Sent(@, n)], UNCHANGED dev
      PROVE  SessionInv'
  <2> DEFINE k == Sent(client[f], n)
  <2>1. client[f] \in ClientRec /\ n \in 0 .. client[f].ob
    BY <1>1 DEF ClientRec
  <2>2. /\ k \in ClientRec /\ k.dev = client[f].dev
        /\ \/ k.state = client[f].state
           \/ client[f].state = "CONNECTING2" /\ k.state = "CONNECTED"
    BY <2>1, SentType
  <2>3. client' = [client EXCEPT ![f] = k]
    BY <1>2
  <2> HIDE DEF k
  <2>4. client' \in [Fds -> ClientRec] /\ \A g \in Fds : Steady(g)
    BY <1>1, <2>2, <2>3 DEF Steady
  <2> QED
    BY <1>1, <1>2, <2>4, QuietStep
<1> QED
  BY <1>2, ClientCloseKeeps DEF OutputBufferProcess

\* A new mask for one client, as update_connection computes it.
LEMMA MaskChanges ==
    ASSUME SessionInv, NEW f \in Fds, NEW ev \in SUBSET Events,
           client' = [client EXCEPT ![f] = SetEvents(@, ev)], UNCHANGED <<dev, accepted>>,
           pc' \in Down => pc \in Down
    PROVE  SessionInv'
<1> DEFINE k == SetEvents(client[f], ev)
<1>1. client \in [Fds -> ClientRec] /\ accepted' \in Nat
  BY DEF SessionInv, Types
<1>2. k \in ClientRec /\ k.state = client[f].state /\ k.dev = client[f].dev
  <2>1. client[f] \in ClientRec
    BY <1>1
  <2> QED
    BY <2>1, SetEventsType
<1>3. client' = [client EXCEPT ![f] = k]
  OBVIOUS
<1> HIDE DEF k
<1>4. client' \in [Fds -> ClientRec] /\ \A g \in Fds : Steady(g)
  BY <1>1, <1>2, <1>3 DEF Steady
<1> QED
  BY <1>1, <1>4, QuietStep

\* client_process for one client with results of poll().
LEMMA ClientProcessKeeps ==
    ASSUME SessionInv, ClientProcess
    PROVE  SessionInv'
<1>1. pc' \notin Down /\ UNCHANGED accepted /\ accepted' \in Nat
  BY DEF ClientProcess, Down, SessionInv, Types
<1>2. CASE UNCHANGED <<client, dev>>
  <2>1. client' \in [Fds -> ClientRec] /\ \A f \in Fds : Steady(f)
    BY <1>2 DEF Steady, SessionInv, Types
  <2> QED
    BY <1>1, <1>2, <2>1, QuietStep
<1>3. ASSUME NEW f \in Fds, DeviceClientProcess(f)
      PROVE  SessionInv'
  BY <1>1, <1>3, EndConnectionKeeps, MaskChanges DEF DeviceClientProcess
<1>4. ASSUME NEW f \in Fds, client[f].state # "CONNECTED",
             InputBufferProcess(f) \/ OutputBufferProcess(f)
      PROVE  SessionInv'
  BY <1>1, <1>4, InputBufferProcessKeeps, OutputBufferProcessKeeps
<1> QED
  BY <1>2, <1>3, <1>4 DEF ClientProcess

-----------------------------------------------------------------------------
(* USB events and the rest of the main loop.                                *)

\* device_tcp_input.
LEMMA DeviceTcpInputKeeps ==
    ASSUME SessionInv, DeviceTcpInput
    PROVE  SessionInv'
<1>1. pc' \notin Down /\ UNCHANGED accepted
  BY DEF DeviceTcpInput, Down
<1>2. \A d \in DevIds : \A c \in dev[d].conns : c.client \in Fds
  BY DEF SessionInv, Types, DevRec, Connections
<1> QED
  BY <1>1, <1>2, EndConnectionKeeps, EstablishedKeeps, MaskChanges DEF DeviceTcpInput

\* A device without connections changes its state, listeners may be told.
LEMMA DeviceStateChanges ==
    ASSUME SessionInv, NEW d \in DevIds, NEW st \in DevStates, dev[d].state # "ACTIVE",
           dev' = [dev EXCEPT ![d].state = st],
           client' \in [Fds -> ClientRec],
           \A f \in Fds : client'[f].state = client[f].state /\ client'[f].dev = client[f].dev,
           UNCHANGED <<accepted, pc>>
    PROVE  SessionInv'
<1>1. dev \in [DevIds -> DevRec]
  BY DEF SessionInv, Types
<1>2. dev' \in [DevIds -> DevRec]
  BY <1>1 DEF DevRec
<1>3. \A e \in DevIds : dev'[e].conns = dev[e].conns \ {}
  BY <1>1 DEF DevRec
<1>4. dev[d].conns = {}
  BY DEF SessionInv, PortsDistinct
<1>5. \A e \in DevIds : dev'[e].state = dev[e].state \/ dev'[e].conns = {}
  BY <1>1, <1>3, <1>4 DEF DevRec
<1>6. Types'
  BY <1>2 DEF SessionInv, Types
<1>7. (\A f \in Fds : Steady(f)) /\ \A e \in DevIds : dev[e].conns \cap {} = {}
  BY DEF Steady
<1> QED
  BY <1>3, <1>5, <1>6, <1>7, ConnectionsEnd

\* device_version_input.
LEMMA DeviceVersionInputKeeps ==
    ASSUME SessionInv, DeviceVersionInput
    PROVE  SessionInv'
<1>1. PICK d \in DevIds :
        /\ dev[d].state = "INIT"
        /\ \/ /\ dev' = [dev EXCEPT ![d].state = "ACTIVE"]
              /\ client' = [f \in Fds |-> IF client[f].state = "LISTEN" THEN Queue(client[f], 1)
                                          ELSE client[f]]
           \/ dev' = [dev EXCEPT ![d].state = "GONE"] /\ UNCHANGED client
  BY DEF DeviceVersionInput
<1>2. \A f \in Fds : client[f] \in ClientRec
  BY DEF SessionInv, Types
<1>3. /\ client' \in [Fds -> ClientRec]
      /\ \A f \in Fds : client'[f].state = client[f].state /\ client'[f].dev = client[f].dev
  <2>1. CASE UNCHANGED client
    BY <2>1 DEF SessionInv, Types
  <2>2. CASE client' = [f \in Fds |-> IF client[f].state = "LISTEN" THEN Queue(client[f], 1)
                                      ELSE client[f]]
    BY <1>2, <2>2, QueueType
  <2> QED
    BY <1>1, <2>1, <2>2
<1>4. UNCHANGED <<accepted, pc>> /\ "ACTIVE" \in DevStates /\ "GONE" \in DevStates
  BY DEF DeviceVersionInput, DevStates
<1> QED
  BY <1>1, <1>3, <1>4, DeviceStateChanges

\* Every step.
LEMMA NextKeepsSession ==
    ASSUME SessionInv, [Next]_vars
    PROVE  SessionInv'
<1>1. client \in [Fds -> ClientRec] /\ dev \in [DevIds -> DevRec] /\ accepted \in Nat
  BY DEF SessionInv, Types
<1>2. CASE UNCHANGED <<client, dev, accepted>> /\ (pc' \in Down => pc \in Down)
  <2>1. \A f \in Fds : Steady(f)
    BY <1>2 DEF Steady
  <2> QED
    BY <1>1, <1>2, <2>1, QuietStep
<1>3. CASE Poll \/ Advance \/ ReadFreedBuffer \/ ConnectTooEarly \/ AppSends \/ AppCloses
           \/ UNCHANGED vars
  BY <1>2, <1>3 DEF Poll, Advance, ReadFreedBuffer, ConnectTooEarly, AppSends, AppCloses, vars, Down
<1>4. CASE Accept
  <2>1. PICK f \in Fds : /\ ~Live(f)
                         /\ client' = [client EXCEPT ![f] = NewClient(accepted + 1)]
    BY <1>4 DEF Accept
  <2>2. NewClient(accepted + 1) \in ClientRec /\ NewClient(accepted + 1).state = "COMMAND"
    BY <1>1, NewClientType
  <2>3. UNCHANGED dev /\ accepted' \in Nat /\ pc' \notin Down
    BY <1>1, <1>4 DEF Accept, Down
  <2> QED
    BY <2>1, <2>2, <2>3, IdleClientChanges DEF Live, Busy
<1>5. CASE DeviceAdd
  BY <1>1, <1>5, DeviceStateChanges DEF DeviceAdd, DevStates
<1>6. CASE DeviceRemove
  <2>1. (pc' \in Down => pc \in Down) /\ UNCHANGED accepted
    BY <1>6 DEF DeviceRemove
  <2> QED
    BY <1>6, <2>1, RemovedKeeps DEF DeviceRemove
<1>7. CASE CheckTimeouts
  <2>1. pc' \notin Down /\ UNCHANGED accepted
    BY <1>7 DEF CheckTimeouts, Down
  <2> QED
    BY <1>7, <2>1, EndConnectionKeeps DEF CheckTimeouts
<1>8. CASE UsbShutdown
  BY <1>8, RemovedKeeps DEF UsbShutdown, Down
<1>9. CASE ClientShutdown
  <2>1. \A f \in Fds : client[f].state \notin Busy
    BY <1>9 DEF SessionInv, ClientShutdown, Down
  <2>2. client' \in [Fds -> ClientRec] /\ \A f \in Fds : Steady(f)
    BY <1>9, <2>1, NoClientType DEF ClientShutdown, Steady, Busy
  <2> QED
    BY <1>1, <1>9, <2>2, QuietStep DEF ClientShutdown, Down
<1> QED
  BY <1>3, <1>4, <1>5, <1>6, <1>7, <1>8, <1>9, DeviceVersionInputKeeps, DeviceTcpInputKeeps,
     ClientProcessKeeps, KillConnectionsKeeps DEF Next

\* There are no connections at first.
LEMMA InitSession == Init => SessionInv
<1> SUFFICES ASSUME Init PROVE SessionInv
  OBVIOUS
<1>1. \A d \in DevIds : dev[d].conns = {}
  BY DEF Init
<1>2. Types
  <2>1. client \in [Fds -> ClientRec]
    BY NoClientType DEF Init
  <2>2. dev \in [DevIds -> DevRec]
    BY SessionAssumption DEF Init, DevRec, DevStates, Ports
  <2> QED
    BY <2>1, <2>2 DEF Init, Types
<1>3. \A f \in Fds : client[f].state \notin Busy
  BY NoClientType DEF Init, Busy
<1> QED
  BY <1>1, <1>2, <1>3, FS_EmptySet DEF SessionInv, PortsDistinct

-----------------------------------------------------------------------------
\* No two connections of a device share a source port, and none uses port 0,
\* however often next_sport has wrapped (find_sport): for any number of ports,
\* in particular the 2^16 of the code, and of clients that connect.
THEOREM SourcePortsDistinct == Spec => []PortsDistinct
<1>1. SessionInv => PortsDistinct
  BY DEF SessionInv
<1>2. SessionInv /\ [Next]_vars => SessionInv'
  BY NextKeepsSession
<1> QED
  BY <1>1, <1>2, InitSession, PTL DEF Spec

\* A client and a connection never refer to each other after one of them was
\* freed, whoever ends the connection and at whatever point.
THEOREM ConnectionsAreMatched == Spec => []ConnectionsMatchClients
<1>1. ASSUME SessionInv PROVE ConnectionsMatchClients
  <2>1. ASSUME NEW f \in Fds, client[f].state \in Busy
        PROVE  Cardinality(ConnsOf(f)) = 1
    <3>1. PICK c \in dev[client[f].dev].conns : c.client = f
      BY <1>1, <2>1 DEF SessionInv
    <3>2. ASSUME NEW d \in DevIds, NEW e \in dev[d].conns, e.client = f
          PROVE  e = c
      <4>1. d = client[f].dev
        BY <1>1, <3>2 DEF SessionInv, Matched
      <4> QED
        BY <1>1, <3>1, <3>2, <4>1 DEF SessionInv
    <3>3. client[f].dev \in DevIds
      BY <1>1, <2>1 DEF SessionInv
    <3>4. ConnsOf(f) = {c}
      BY <3>1, <3>2, <3>3 DEF ConnsOf
    <3> QED
      BY <3>4, FS_Singleton
  <2>2. ASSUME NEW f \in Fds, client[f].state \notin Busy
        PROVE  Cardinality(ConnsOf(f)) = 0
    <3>1. \A d \in DevIds : \A c \in dev[d].conns : c.client # f
      BY <1>1, <2>2 DEF SessionInv, Matched, Busy
    <3>2. ConnsOf(f) = {}
      BY <3>1 DEF ConnsOf
    <3> QED
      BY <3>2, FS_EmptySet
  <2>3. \A d \in DevIds : \A c \in dev[d].conns : Matched(d, c)
    BY <1>1 DEF SessionInv
  <2> QED
    BY <2>1, <2>2, <2>3 DEF ConnectionsMatchClients, Matched, Busy
<1>2. SessionInv /\ [Next]_vars => SessionInv'
  BY NextKeepsSession
<1> QED
  BY <1>1, <1>2, InitSession, PTL DEF Spec

-----------------------------------------------------------------------------
(* What a step does to the messages queued for a client, and to the client's *)
(* identity.                                                                 *)

\* A message that waits is polled for, and none is left on a relaying client.
Tidy(k) ==
    /\ k.ob > 0 => "OUT" \in k.events
    /\ k.state = "CONNECTING2" => k.ob > 0
    /\ k.state = "CONNECTED" => k.ob = 0 /\ k.events = k.devents

\* What becomes of the client k without being accepted anew: it stays tidy, it
\* is no other client, and whether it is a listener does not change.
Follows(k, j) ==
    /\ Tidy(j) /\ j.born \in {0, k.born}
    /\ j.state = "LISTEN" <=> k.state = "LISTEN"

\* A client that was closed.
LEMMA NoClientFollows ==
    ASSUME NEW k, k.state # "LISTEN" PROVE Follows(k, NoClient)
BY DEF Follows, Tidy, NoClient

\* output_buffer_add_message, on a client that is not relaying.
LEMMA QueueTidy ==
    ASSUME NEW k \in ClientRec, Tidy(k), k.state # "CONNECTED", NEW n \in Nat
    PROVE  /\ Follows(k, Queue(k, n))
           /\ n > 0 => Queue(k, n).ob > 0 /\ "OUT" \in Queue(k, n).events
<1>1. CASE n = 0
  BY <1>1 DEF Queue, Follows
<1>2. CASE n # 0
  <2> DEFINE q == Queue(k, n)
  <2>1. q = [k EXCEPT !.ob = @ + n, !.events = @ \cup {"OUT"}] /\ k.ob \in Nat
    BY <1>2 DEF Queue, ClientRec
  <2>2. /\ q.ob = k.ob + n /\ q.events = k.events \cup {"OUT"} /\ q.state = k.state
        /\ q.born = k.born
    BY <2>1 DEF ClientRec
  <2> HIDE DEF q
  <2> QED
    BY <1>2, <2>1, <2>2 DEF Follows, Tidy, q
<1> QED
  BY <1>1, <1>2

\* A client whose command was handled with n messages for an answer, and one
\* whose command was a Listen.
Answered(k, n) == [Queue(k, n) EXCEPT !.head = FALSE]
Listened(k, n) == [Queue(k, n) EXCEPT !.state = "LISTEN", !.head = FALSE]

\* What is queued for either is polled for.
LEMMA AnswerTidy ==
    ASSUME NEW k \in ClientRec, Tidy(k), k.state = "COMMAND", NEW n \in Nat
    PROVE  /\ Follows(k, Answered(k, n))
           /\ Tidy(Listened(k, n))
           /\ Listened(k, n).born = k.born /\ Listened(k, n).state = "LISTEN"
<1> DEFINE q == Queue(k, n)
<1>1. q \in ClientRec /\ q.state = "COMMAND"
  BY QueueType
<1>2. Tidy(q) /\ q.born \in {0, k.born}
  BY QueueTidy DEF Follows
<1>3. q.born = k.born
  BY DEF Queue, ClientRec
<1>4. Answered(k, n) = [q EXCEPT !.head = FALSE]
  BY DEF Answered
<1>5. Listened(k, n) = [q EXCEPT !.state = "LISTEN", !.head = FALSE]
  BY DEF Listened
<1> HIDE DEF q
<1>6. Follows(k, Answered(k, n))
  BY <1>1, <1>2, <1>4 DEF Follows, Tidy, ClientRec
<1>7. Tidy(Listened(k, n)) /\ Listened(k, n).born = k.born /\ Listened(k, n).state = "LISTEN"
  BY <1>1, <1>2, <1>3, <1>5 DEF Tidy, ClientRec
<1> QED
  BY <1>6, <1>7

\* client_notify_connect.
LEMMA NotifyTidy ==
    ASSUME NEW k \in ClientRec, Tidy(k), NEW ok \in BOOLEAN
    PROVE  Follows(k, NotifyConnect(k, ok))
<1>1. CASE k.state # "CONNECTING1"
  BY <1>1 DEF NotifyConnect, Follows
<1>2. CASE k.state = "CONNECTING1"
  <2> DEFINE q == Queue(k, 1)
  <2>1. q \in ClientRec /\ q.ob > 0 /\ "OUT" \in q.events /\ q.born \in {0, k.born}
    BY <1>2, QueueType, QueueTidy DEF Follows
  <2> HIDE DEF q
  <2>2. /\ Follows(k, [q EXCEPT !.state = "CONNECTING2", !.events = {"OUT"}])
        /\ Follows(k, [q EXCEPT !.state = "COMMAND"])
    BY <1>2, <2>1 DEF Follows, Tidy, ClientRec
  <2> QED
    BY <1>2, <2>2 DEF NotifyConnect, q
<1> QED
  BY <1>1, <1>2

\* client_set_events.
LEMMA SetEventsTidy ==
    ASSUME NEW k \in ClientRec, Tidy(k), NEW ev \in SUBSET Events
    PROVE  Follows(k, SetEvents(k, ev))
<1>1. CASE k.state = "CONNECTED"
  BY <1>1 DEF SetEvents, Follows, Tidy, ClientRec
<1>2. CASE k.state = "CONNECTING2"
  BY <1>2 DEF SetEvents, Follows, Tidy, ClientRec
<1>3. CASE k.state \notin {"CONNECTED", "CONNECTING2"}
  BY <1>3 DEF SetEvents, Follows
<1> QED
  BY <1>1, <1>2, <1>3

\* output_buffer_process.
LEMMA SentTidy ==
    ASSUME NEW k \in ClientRec, Tidy(k), k.state # "CONNECTED", NEW n \in 0 .. k.ob
    PROVE  Follows(k, Sent(k, n))
<1>1. k.ob \in Nat
  BY DEF ClientRec
<1>2. CASE n < k.ob
  <2>1. Sent(k, n) = [k EXCEPT !.ob = @ - n] /\ k.ob - n > 0
    BY <1>1, <1>2 DEF Sent
  <2> QED
    BY <1>1, <1>2, <2>1 DEF Follows, Tidy, ClientRec
<1>3. CASE ~(n < k.ob) /\ k.state = "CONNECTING2"
  BY <1>3 DEF Sent, Follows, Tidy, ClientRec
<1>4. CASE ~(n < k.ob) /\ k.state # "CONNECTING2"
  <2>1. Sent(k, n) = [k EXCEPT !.ob = 0, !.events = @ \ {"OUT"}]
    BY <1>4 DEF Sent
  <2> QED
    BY <1>4, <2>1 DEF Follows, Tidy, ClientRec
<1> QED
  BY <1>2, <1>3, <1>4

\* connection_teardown of any of the connections.
LEMMA TeardownTidy ==
    ASSUME SessionInv, NEW cs, \A c \in cs : \E d \in DevIds : c \in dev[d].conns,
           NEW f \in Fds, Tidy(client[f])
    PROVE  Follows(client[f], AfterTeardown(cs)[f])
<1>1. client[f] \in ClientRec
  BY DEF SessionInv, Types
<1>2. CASE \E c \in cs : c.client = f
  <2>1. PICK b : b = CHOOSE c \in cs : c.client = f
    OBVIOUS
  <2>2. b \in cs /\ b.client = f
    BY <1>2, <2>1
  <2>3. client[f].state # "LISTEN"
    BY <2>2 DEF SessionInv, Matched
  <2>4. Follows(client[f], TornDown(client[f], b))
    BY <1>1, <2>3, NotifyTidy, NoClientFollows DEF TornDown
  <2> QED
    BY <1>2, <2>1, <2>4 DEF AfterTeardown
<1>3. CASE ~\E c \in cs : c.client = f
  BY <1>3 DEF AfterTeardown, Follows
<1> QED
  BY <1>2, <1>3

-----------------------------------------------------------------------------
(* What a step does to a client's queue, its identity and what it was told.  *)

\* What a listener, or another client, should have been told.
Informed(f) == told[f] = IF client[f].state = "LISTEN" THEN Visible ELSE {}

Proceeds(f) ==
    /\ Tidy(client'[f])
    /\ Informed(f) => Informed(f)'
    /\ client'[f].born \in {0, client[f].born} \/ (Accept /\ ~Live(f))

\* The visible devices only depend on the states of the devices.
LEMMA VisibleKept ==
    ASSUME \A d \in DevIds : dev'[d].state = dev[d].state PROVE Visible' = Visible
BY DEF Visible

\* A client of whose listening nothing changes, and no news for it.
LEMMA FollowsProceeds ==
    ASSUME NEW f \in Fds, Follows(client[f], client'[f]), told'[f] = told[f], Visible' = Visible
    PROVE  Proceeds(f)
BY DEF Follows, Proceeds, Informed

\* A client to which nothing happens.
LEMMA SameProceeds ==
    ASSUME NEW f \in Fds, Tidy(client[f]), client'[f] = client[f], told'[f] = told[f],
           Visible' = Visible
    PROVE  Proceeds(f)
BY DEF Proceeds, Informed

\* client_close.
LEMMA CloseProceeds ==
    ASSUME SessionInv, NEW g \in Fds, ClientClose(g), NEW f \in Fds, Tidy(client[f]),
           told \in [Fds -> SUBSET DevIds]
    PROVE  Proceeds(f)
<1>1. client \in [Fds -> ClientRec] /\ dev \in [DevIds -> DevRec]
  BY DEF SessionInv, Types
<1>2. \A d \in DevIds : dev'[d].state = dev[d].state
  BY <1>1 DEF ClientClose, CloseConns, DevRec
<1>3. CASE f = g
  <2>1. client'[f] = NoClient /\ told'[f] = {}
    BY <1>1, <1>3 DEF ClientClose
  <2> QED
    BY <2>1 DEF Proceeds, Informed, Tidy, NoClient
<1>4. CASE f # g
  <2>1. client'[f] = client[f] /\ told'[f] = told[f]
    BY <1>1, <1>4 DEF ClientClose
  <2> QED
    BY <1>2, <2>1, VisibleKept, SameProceeds
<1> QED
  BY <1>3, <1>4

\* connection_teardown of one connection.
LEMMA EndConnectionProceeds ==
    ASSUME SessionInv, NEW d \in DevIds, NEW c \in dev[d].conns, EndConnection(d, c),
           NEW f \in Fds, Tidy(client[f])
    PROVE  Proceeds(f)
<1>1. dev \in [DevIds -> DevRec]
  BY DEF SessionInv, Types
<1>2. \A e \in DevIds : dev'[e].state = dev[e].state
  BY <1>1 DEF EndConnection, WithoutConns, DevRec
<1>3. Follows(client[f], client'[f]) /\ told'[f] = told[f]
  BY TeardownTidy DEF EndConnection
<1> QED
  BY <1>2, <1>3, VisibleKept, FollowsProceeds

\* device_remove: listeners are told to forget the devices that leave.
LEMMA RemovedProceeds ==
    ASSUME SessionInv, NEW ds \in SUBSET DevIds, Removed(ds), NEW f \in Fds, Tidy(client[f])
    PROVE  Proceeds(f)
<1> DEFINE active == {d \in ds : dev[d].state = "ACTIVE"}
           A == AfterTeardown(UNION {dev[d].conns : d \in active})
           N == Cardinality(active)
<1>1. N \in Nat
  BY DevicesCounted
<1>2. A \in [Fds -> ClientRec] /\ Follows(client[f], A[f])
  BY TeardownFreesClients, TeardownTidy
<1>3. dev \in [DevIds -> DevRec]
  BY DEF SessionInv, Types
<1>4. /\ client'[f] = (IF client[f].state = "LISTEN" THEN Queue(A[f], N) ELSE A[f])
      /\ told'[f] = told[f] \ active
      /\ \A d \in DevIds : dev'[d].state = IF d \in ds THEN "GONE" ELSE dev[d].state
  <2>1. \A d \in ds : [dev[d] EXCEPT !.state = "GONE", !.conns = {}].state = "GONE"
    BY <1>3 DEF DevRec
  <2> QED
    BY <2>1 DEF Removed
<1>5. Visible' = Visible \ active
  BY <1>4 DEF Visible
<1> HIDE DEF active, N, A
<1>6. CASE client[f].state = "LISTEN"
  <2>1. A[f].state = "LISTEN" /\ Tidy(A[f]) /\ A[f] \in ClientRec /\ A[f].born \in {0, client[f].born}
    BY <1>2, <1>6 DEF Follows
  <2>2. Follows(A[f], client'[f])
    BY <1>1, <1>4, <1>6, <2>1, QueueTidy
  <2> QED
    BY <1>4, <1>5, <1>6, <2>1, <2>2 DEF Proceeds, Follows, Informed
<1>7. CASE client[f].state # "LISTEN"
  BY <1>2, <1>4, <1>7 DEF Proceeds, Follows, Informed
<1> QED
  BY <1>6, <1>7

\* device_kill_connections.
LEMMA KillProceeds ==
    ASSUME SessionInv, KillConnections, NEW f \in Fds, Tidy(client[f])
    PROVE  Proceeds(f)
<1>1. dev \in [DevIds -> DevRec]
  BY DEF SessionInv, Types
<1>2. \A e \in DevIds : dev'[e].state = dev[e].state
  BY <1>1 DEF KillConnections, DevRec
<1>3. Follows(client[f], client'[f]) /\ told'[f] = told[f]
  BY TeardownTidy DEF KillConnections
<1> QED
  BY <1>2, <1>3, VisibleKept, FollowsProceeds

\* A new mask for one client, as update_connection computes it.
LEMMA MaskProceeds ==
    ASSUME SessionInv, NEW g, NEW ev \in SUBSET Events,
           client' = [client EXCEPT ![g] = SetEvents(@, ev)], UNCHANGED <<dev, told>>,
           NEW f \in Fds, Tidy(client[f])
    PROVE  Proceeds(f)
<1>1. client \in [Fds -> ClientRec]
  BY DEF SessionInv, Types
<1>2. client[f] \in ClientRec /\ (client'[f] = client[f] \/ client'[f] = SetEvents(client[f], ev))
  BY <1>1
<1>3. Follows(client[f], client'[f])
  BY <1>2, SetEventsTidy DEF Follows
<1> QED
  BY <1>3, VisibleKept, FollowsProceeds

\* device_tcp_input.
LEMMA TcpInputProceeds ==
    ASSUME SessionInv, DeviceTcpInput, NEW f \in Fds, Tidy(client[f])
    PROVE  Proceeds(f)
<1>1. client \in [Fds -> ClientRec] /\ dev \in [DevIds -> DevRec]
  BY DEF SessionInv, Types
<1>2. ASSUME NEW d \in DevIds, NEW c \in dev[d].conns, NEW ev \in SUBSET Events,
             dev' = [dev EXCEPT ![d].conns = (@ \ {c}) \cup {[c EXCEPT !.state = "CONNECTED"]}],
             client' = [client EXCEPT ![c.client] = SetEvents(NotifyConnect(@, TRUE), ev)],
             UNCHANGED told
      PROVE  Proceeds(f)
  <2>1. \A e \in DevIds : dev'[e].state = dev[e].state
    BY <1>1, <1>2 DEF DevRec
  <2> DEFINE j == NotifyConnect(client[f], TRUE)
  <2>2. j \in ClientRec /\ Follows(client[f], j)
    BY <1>1, NotifyConnectType, NotifyTidy
  <2>3. client'[f] = client[f] \/ client'[f] = SetEvents(j, ev)
    BY <1>1, <1>2
  <2> HIDE DEF j
  <2>4. Follows(client[f], client'[f])
    BY <2>2, <2>3, SetEventsTidy DEF Follows
  <2> QED
    BY <1>2, <2>1, <2>4, VisibleKept, FollowsProceeds
<1> QED
  BY <1>2, EndConnectionProceeds, MaskProceeds DEF DeviceTcpInput

\* device_start_connect and the other commands that leave a client what it is
\* or make it wait for a connection.
LEMMA CommandProceeds ==
    ASSUME SessionInv, NEW g \in Fds, client[g].state = "COMMAND",
           \/ \E d \in DevIds : StartConnect(g, d)
           \/ \E d \in {0} \cup DevIds : SavePairRecord(g, d)
           \/ \E n \in Nat : Answer(g, n),
           NEW f \in Fds, Tidy(client[f])
    PROVE  Proceeds(f)
<1>1. client \in [Fds -> ClientRec] /\ dev \in [DevIds -> DevRec] /\ client[f] \in ClientRec
  BY DEF SessionInv, Types
<1>2. CASE \E d \in DevIds : StartConnect(g, d)
  <2>1. PICK d \in DevIds : StartConnect(g, d)
    BY <1>2
  <2>2. \A e \in DevIds : dev'[e].state = dev[e].state
    BY <1>1, <2>1 DEF StartConnect, DevRec
  <2>3. CASE client' = [client EXCEPT ![g] = [Queue(@, 1) EXCEPT !.head = FALSE]]
    <3>1. client'[f] = IF f = g THEN Answered(client[f], 1) ELSE client[f]
      BY <1>1, <2>3 DEF Answered
    <3>2. Follows(client[f], client'[f])
      BY <1>1, <3>1, AnswerTidy DEF Follows
    <3> QED
      BY <2>1, <2>2, <3>2, VisibleKept, FollowsProceeds DEF StartConnect
  <2>4. CASE client' = [client EXCEPT ![g].state = "CONNECTING1", ![g].dev = d, ![g].head = FALSE]
    <3>1. Follows(client[f], client'[f])
      BY <1>1, <2>4 DEF Follows, Tidy, ClientRec
    <3> QED
      BY <2>1, <2>2, <3>1, VisibleKept, FollowsProceeds DEF StartConnect
  <2> QED
    BY <2>1, <2>3, <2>4 DEF StartConnect
<1>3. CASE \E d \in {0} \cup DevIds : SavePairRecord(g, d)
  <2>1. PICK d \in {0} \cup DevIds : SavePairRecord(g, d)
    BY <1>3
  <2> DEFINE k == IF d \in Visible /\ client[f].state = "LISTEN"
                  THEN Queue(client[f], 1) ELSE client[f]
  <2>2. k \in ClientRec /\ Follows(client[f], k) /\ k.state = client[f].state
    BY <1>1, QueueType, QueueTidy DEF Follows
  <2>3. client'[f] = IF f = g THEN Answered(k, 1) ELSE k
    BY <2>1 DEF SavePairRecord, Answered
  <2> HIDE DEF k
  <2>4. f = g => Follows(k, Answered(k, 1))
    BY <2>2, AnswerTidy DEF Follows
  <2>5. Follows(client[f], client'[f])
    BY <2>2, <2>3, <2>4 DEF Follows
  <2> QED
    BY <2>1, <2>5, VisibleKept, FollowsProceeds DEF SavePairRecord
<1>4. CASE \E n \in Nat : Answer(g, n)
  <2>1. PICK n \in Nat : Answer(g, n)
    BY <1>4
  <2>2. client'[f] = IF f = g THEN Answered(client[f], n) ELSE client[f]
    BY <1>1, <2>1 DEF Answer, Answered
  <2>3. Follows(client[f], client'[f])
    BY <1>1, <2>2, AnswerTidy DEF Follows
  <2> QED
    BY <2>1, <2>3, VisibleKept, FollowsProceeds DEF Answer
<1> QED
  BY <1>2, <1>3, <1>4

\* start_listen: the client becomes a listener and is told of all devices.
LEMMA ListenProceeds ==
    ASSUME SessionInv, NEW g \in Fds, client[g].state = "COMMAND", StartListen(g),
           NEW f \in Fds, Tidy(client[f]), told \in [Fds -> SUBSET DevIds]
    PROVE  Proceeds(f)
<1>1. client \in [Fds -> ClientRec] /\ client[f] \in ClientRec
  BY DEF SessionInv, Types
<1>2. Visible' = Visible
  BY DEF StartListen, Visible
<1>3. CASE f = g
  <2> DEFINE n == 1 + Cardinality(Visible)
             j == Listened(client[f], n)
  <2>1. n \in Nat
    <3>1. Visible \in SUBSET DevIds
      BY DEF Visible
    <3> QED
      BY <3>1, DevicesCounted
  <2>2. client'[f] = j /\ told'[f] = Visible
    BY <1>1, <1>3 DEF StartListen, Listened
  <2>3. Tidy(j) /\ j.born = client[f].born /\ j.state = "LISTEN"
    BY <1>1, <1>3, <2>1, AnswerTidy
  <2> HIDE DEF j
  <2> QED
    BY <1>2, <2>2, <2>3 DEF Proceeds, Informed
<1>4. CASE f # g
  <2>1. client'[f] = client[f] /\ told'[f] = told[f]
    BY <1>1, <1>4 DEF StartListen
  <2> QED
    BY <1>2, <2>1, SameProceeds
<1> QED
  BY <1>3, <1>4

\* client_process.
LEMMA ClientProcessProceeds ==
    ASSUME SessionInv, ClientProcess, NEW f \in Fds, Tidy(client[f]),
           told \in [Fds -> SUBSET DevIds]
    PROVE  Proceeds(f)
<1>1. client \in [Fds -> ClientRec] /\ client[f] \in ClientRec
  BY DEF SessionInv, Types
<1>2. CASE UNCHANGED <<client, dev, told>>
  BY <1>2, VisibleKept, SameProceeds
<1>3. ASSUME NEW g \in Fds, DeviceClientProcess(g)
      PROVE  Proceeds(f)
  BY <1>3, EndConnectionProceeds, MaskProceeds DEF DeviceClientProcess
<1>4. ASSUME NEW g \in Fds, NEW kinds, HandleCommand(g, kinds)
      PROVE  Proceeds(f)
  <2>1. 0 \in Nat /\ 1 \in Nat
    OBVIOUS
  <2> QED
    BY <1>4, <2>1, CloseProceeds, ListenProceeds, CommandProceeds DEF HandleCommand
<1>5. ASSUME NEW g \in Fds, InputBufferProcess(g)
      PROVE  Proceeds(f)
  <2>1. CASE client' = [client EXCEPT ![g].head = TRUE] /\ UNCHANGED <<dev, told>>
    <3>1. Follows(client[f], client'[f])
      BY <1>1, <2>1 DEF Follows, Tidy, ClientRec
    <3> QED
      BY <2>1, <3>1, VisibleKept, FollowsProceeds
  <2> QED
    BY <1>4, <1>5, <2>1, CloseProceeds DEF InputBufferProcess
<1>6. ASSUME NEW g \in Fds, client[g].state # "CONNECTED", OutputBufferProcess(g)
      PROVE  Proceeds(f)
  <2>1. ASSUME NEW n \in (IF client[g].ob = 0 THEN {0} ELSE 1 .. client[g].ob),
               client' = [client EXCEPT ![g] = Sent(@, n)], UNCHANGED <<dev, told>>
        PROVE  Proceeds(f)
    <3>1. client[g] \in ClientRec /\ n \in 0 .. client[g].ob
      BY <1>1 DEF ClientRec
    <3>2. client'[f] = IF f = g THEN Sent(client[f], n) ELSE client[f]
      BY <1>1, <2>1
    <3>3. Follows(client[f], client'[f])
      BY <1>1, <1>6, <3>1, <3>2, SentTidy DEF Follows
    <3> QED
      BY <2>1, <3>3, VisibleKept, FollowsProceeds
  <2> QED
    BY <1>6, <2>1, CloseProceeds DEF OutputBufferProcess
<1> QED
  BY <1>2, <1>3, <1>5, <1>6 DEF ClientProcess

\* client_accept.
LEMMA AcceptProceeds ==
    ASSUME SessionInv, Accept, NEW f \in Fds, Tidy(client[f])
    PROVE  Proceeds(f)
<1>1. PICK g \in Fds : ~Live(g) /\ client' = [client EXCEPT ![g] = NewClient(accepted + 1)]
  BY DEF Accept
<1>2. client \in [Fds -> ClientRec] /\ UNCHANGED <<dev, told>>
  BY DEF SessionInv, Types, Accept
<1>3. CASE f = g
  <2>1. client'[f] = NewClient(accepted + 1)
    BY <1>1, <1>2, <1>3
  <2>2. Tidy(NewClient(accepted + 1)) /\ NewClient(accepted + 1).state = "COMMAND"
    BY DEF Tidy, NewClient, NoClient
  <2>3. Visible' = Visible
    BY <1>2, VisibleKept
  <2> QED
    BY <1>1, <1>2, <1>3, <2>1, <2>2, <2>3 DEF Proceeds, Informed, Live
<1>4. CASE f # g
  <2>1. client'[f] = client[f]
    BY <1>1, <1>2, <1>4
  <2> QED
    BY <1>2, <2>1, VisibleKept, SameProceeds
<1> QED
  BY <1>3, <1>4

\* device_version_input: listeners are told of the device.
LEMMA VersionInputProceeds ==
    ASSUME SessionInv, DeviceVersionInput, NEW f \in Fds, Tidy(client[f])
    PROVE  Proceeds(f)
<1>1. client[f] \in ClientRec /\ dev \in [DevIds -> DevRec]
  BY DEF SessionInv, Types
<1>2. ASSUME NEW d \in DevIds, dev[d].state = "INIT", dev' = [dev EXCEPT ![d].state = "ACTIVE"],
             client'[f] = (IF client[f].state = "LISTEN" THEN Queue(client[f], 1) ELSE client[f]),
             told'[f] = (IF client[f].state = "LISTEN" THEN told[f] \cup {d} ELSE told[f])
      PROVE  Proceeds(f)
  <2>1. Visible' = Visible \cup {d}
    BY <1>1, <1>2 DEF Visible, DevRec
  <2>2. Follows(client[f], client'[f])
    BY <1>1, <1>2, QueueTidy DEF Follows
  <2> QED
    BY <1>2, <2>1, <2>2 DEF Proceeds, Follows, Informed
<1>3. ASSUME NEW d \in DevIds, dev[d].state = "INIT", dev' = [dev EXCEPT ![d].state = "GONE"],
             UNCHANGED <<client, told>>
      PROVE  Proceeds(f)
  <2>1. Visible' = Visible
    BY <1>1, <1>3 DEF Visible, DevRec
  <2> QED
    BY <1>3, <2>1, SameProceeds
<1> QED
  BY <1>2, <1>3 DEF DeviceVersionInput

\* Every step.
LEMMA NextProceeds ==
    ASSUME SessionInv, [Next]_vars, NEW f \in Fds, Tidy(client[f]),
           told \in [Fds -> SUBSET DevIds]
    PROVE  Proceeds(f)
<1>1. dev \in [DevIds -> DevRec]
  BY DEF SessionInv, Types
<1>2. CASE Poll \/ Advance \/ ReadFreedBuffer \/ ConnectTooEarly \/ AppSends \/ AppCloses
           \/ UNCHANGED vars
  <2>1. UNCHANGED <<client, dev, told>>
    BY <1>2 DEF Poll, Advance, ReadFreedBuffer, ConnectTooEarly, AppSends, AppCloses, vars
  <2> QED
    BY <2>1, VisibleKept, SameProceeds
<1>3. CASE DeviceAdd
  <2>1. Visible' = Visible
    BY <1>1, <1>3 DEF DeviceAdd, Visible, DevRec
  <2>2. UNCHANGED <<client, told>>
    BY <1>3 DEF DeviceAdd
  <2> QED
    BY <2>1, <2>2, SameProceeds
<1>4. CASE DeviceRemove \/ UsbShutdown
  BY <1>4, RemovedProceeds DEF DeviceRemove, UsbShutdown
<1>5. CASE CheckTimeouts
  BY <1>5, EndConnectionProceeds DEF CheckTimeouts
<1>6. CASE ClientShutdown
  <2>1. client'[f] = NoClient /\ told'[f] = {}
    BY <1>6 DEF ClientShutdown
  <2> QED
    BY <2>1 DEF Proceeds, Informed, Tidy, NoClient
<1> QED
  BY <1>2, <1>3, <1>4, <1>5, <1>6, AcceptProceeds, VersionInputProceeds, TcpInputProceeds,
     ClientProcessProceeds, KillProceeds DEF Next

-----------------------------------------------------------------------------
(* The rest of the types, and the results of poll().                        *)

\* The other variables; no client has more commands waiting than were sent.
OtherTypes ==
    /\ app \in [Fds -> [open : BOOLEAN, cmds : 0 .. MaxCmd]]
    /\ \A f \in Fds : app[f].cmds <= sent
    /\ pc \in {"poll", "listen", "usb", "clients", "usb_shutdown", "client_shutdown", "exit",
               "crash"}
    /\ rev \in [Fds -> SUBSET Events]
    /\ accepted \in 0 .. MaxAccept /\ sent \in 0 .. MaxCmd
    /\ told \in [Fds -> SUBSET DevIds]
    /\ stray \subseteq {"client", "ib_buf", "connections"}
    /\ \A f \in Fds : client[f].born \in 0 .. MaxAccept

\* Until the listening socket was served, only live clients have results.
PolledLive == pc = "listen" => \A f \in Fds : Live(f) \/ rev[f] = {}

FullInv ==
    SessionInv /\ QueuedIsPolled /\ ListenersInformed /\ OtherTypes /\ PolledLive

\* The commands that wait: only AppSends adds one, and counts it.
LEMMA CommandsCounted ==
    ASSUME OtherTypes, [Next]_vars
    PROVE  /\ app' \in [Fds -> [open : BOOLEAN, cmds : 0 .. MaxCmd]]
           /\ \A f \in Fds : app'[f].cmds <= sent'
           /\ sent' \in 0 .. MaxCmd
<1>1. app \in [Fds -> [open : BOOLEAN, cmds : 0 .. MaxCmd]] /\ sent \in 0 .. MaxCmd
      /\ (\A f \in Fds : app[f].cmds <= sent) /\ MaxCmd \in Nat
  BY SessionAssumption DEF OtherTypes
<1>2. CASE UNCHANGED <<app, sent>>
  BY <1>1, <1>2
<1>3. ASSUME NEW f \in Fds, app[f].cmds > 0, app' = [app EXCEPT ![f].cmds = @ - 1], UNCHANGED sent
      PROVE  /\ app' \in [Fds -> [open : BOOLEAN, cmds : 0 .. MaxCmd]]
             /\ \A g \in Fds : app'[g].cmds <= sent'
  BY <1>1, <1>3
<1>4. CASE ClientProcess
  <2>1. UNCHANGED sent /\ (UNCHANGED app
          \/ \E f \in Fds : app[f].cmds > 0 /\ app' = [app EXCEPT ![f].cmds = @ - 1])
    BY <1>4 DEF ClientProcess, DeviceClientProcess, InputBufferProcess, OutputBufferProcess
  <2> QED
    BY <1>1, <1>2, <1>3, <2>1
<1>5. CASE Accept
  <2>1. PICK f \in Fds : app' = [app EXCEPT ![f] = [open |-> TRUE, cmds |-> 0]]
    BY <1>5 DEF Accept
  <2>2. UNCHANGED sent
    BY <1>5 DEF Accept
  <2> QED
    BY <1>1, <2>1, <2>2
<1>6. CASE AppSends
  <2>1. PICK f \in Fds : app' = [app EXCEPT ![f].cmds = @ + 1]
    BY <1>6 DEF AppSends
  <2>2. sent' = sent + 1 /\ sent < MaxCmd
    BY <1>6 DEF AppSends
  <2> QED
    BY <1>1, <2>1, <2>2
<1>7. CASE AppCloses
  <2>1. PICK f \in Fds : app' = [app EXCEPT ![f].open = FALSE]
    BY <1>7 DEF AppCloses
  <2>2. UNCHANGED sent
    BY <1>7 DEF AppCloses
  <2> QED
    BY <1>1, <2>1, <2>2
<1>8. CASE \/ Poll \/ Advance \/ DeviceAdd \/ DeviceVersionInput \/ DeviceRemove \/ DeviceTcpInput
           \/ CheckTimeouts \/ ReadFreedBuffer \/ ConnectTooEarly \/ KillConnections
           \/ UsbShutdown \/ ClientShutdown \/ UNCHANGED vars
  BY <1>2, <1>8 DEF Poll, Advance, DeviceAdd, DeviceVersionInput, DeviceRemove, DeviceTcpInput,
     CheckTimeouts, ReadFreedBuffer, ConnectTooEarly, KillConnections, UsbShutdown,
     ClientShutdown, vars
<1> QED
  BY <1>4, <1>5, <1>6, <1>7, <1>8 DEF Next

\* What listeners were told remains a set of devices.
LEMMA ToldTypes ==
    ASSUME told \in [Fds -> SUBSET DevIds], [Next]_vars
    PROVE  told' \in [Fds -> SUBSET DevIds]
<1>1. CASE UNCHANGED told
  BY <1>1
<1>2. ASSUME NEW f \in Fds, ClientClose(f) PROVE told' \in [Fds -> SUBSET DevIds]
  BY <1>2 DEF ClientClose
<1>3. ASSUME NEW f \in Fds, StartListen(f) PROVE told' \in [Fds -> SUBSET DevIds]
  BY <1>3 DEF StartListen, Visible
<1>4. CASE ClientProcess
  <2>1. ASSUME NEW f \in Fds, NEW kinds, HandleCommand(f, kinds)
        PROVE  told' \in [Fds -> SUBSET DevIds]
    BY <1>1, <1>2, <1>3, <2>1 DEF HandleCommand, StartConnect, SavePairRecord, Answer
  <2> QED
    BY <1>1, <1>2, <1>4, <2>1 DEF ClientProcess, DeviceClientProcess, EndConnection,
       InputBufferProcess, OutputBufferProcess
<1>5. ASSUME NEW ds \in SUBSET DevIds, Removed(ds) PROVE told' \in [Fds -> SUBSET DevIds]
  BY <1>5 DEF Removed
<1>6. CASE DeviceRemove \/ UsbShutdown
  BY <1>5, <1>6 DEF DeviceRemove, UsbShutdown
<1>7. CASE DeviceVersionInput \/ ClientShutdown
  BY <1>1, <1>7 DEF DeviceVersionInput, ClientShutdown
<1>8. CASE \/ Poll \/ Accept \/ Advance \/ DeviceAdd \/ DeviceTcpInput \/ CheckTimeouts
           \/ ReadFreedBuffer \/ ConnectTooEarly \/ KillConnections \/ AppSends \/ AppCloses
           \/ UNCHANGED vars
  BY <1>1, <1>8 DEF Poll, Accept, Advance, DeviceAdd, DeviceTcpInput, CheckTimeouts, EndConnection,
     ReadFreedBuffer, ConnectTooEarly, KillConnections, AppSends, AppCloses, vars
<1> QED
  BY <1>4, <1>6, <1>7, <1>8 DEF Next

\* The program counter, the results of poll() and the counters.
LEMMA LoopTypes ==
    ASSUME OtherTypes, [Next]_vars
    PROVE  /\ pc' \in {"poll", "listen", "usb", "clients", "usb_shutdown", "client_shutdown",
                       "exit", "crash"}
           /\ rev' \in [Fds -> SUBSET Events]
           /\ accepted' \in 0 .. MaxAccept
           /\ stray' \subseteq {"client", "ib_buf", "connections"}
<1>1. /\ pc \in {"poll", "listen", "usb", "clients", "usb_shutdown", "client_shutdown", "exit",
                 "crash"}
      /\ rev \in [Fds -> SUBSET Events]
      /\ accepted \in 0 .. MaxAccept /\ MaxAccept \in Nat
      /\ stray \subseteq {"client", "ib_buf", "connections"}
  BY SessionAssumption DEF OtherTypes
<1>2. CASE Poll \/ Advance
  BY <1>1, <1>2 DEF Poll, Advance
<1>3. CASE Accept
  BY <1>1, <1>3 DEF Accept
<1>4. CASE ClientProcess
  <2>1. stray' = stray \/ stray' = stray \cup {"client"}
    BY <1>4 DEF ClientProcess, DeviceClientProcess, InputBufferProcess, OutputBufferProcess,
       HandleCommand
  <2>2. UNCHANGED <<pc, accepted>> /\ \E f \in Fds : rev' = [rev EXCEPT ![f] = {}]
    BY <1>4 DEF ClientProcess
  <2> QED
    BY <1>1, <2>1, <2>2
<1>5. CASE ReadFreedBuffer \/ ConnectTooEarly
  BY <1>1, <1>5 DEF ReadFreedBuffer, ConnectTooEarly
<1>6. CASE KillConnections \/ UsbShutdown \/ ClientShutdown
  BY <1>1, <1>6 DEF KillConnections, UsbShutdown, ClientShutdown
<1>7. CASE \/ DeviceAdd \/ DeviceVersionInput \/ DeviceRemove \/ DeviceTcpInput
           \/ CheckTimeouts \/ AppSends \/ AppCloses \/ UNCHANGED vars
  BY <1>1, <1>7 DEF DeviceAdd, DeviceVersionInput, DeviceRemove, DeviceTcpInput, CheckTimeouts,
     AppSends, AppCloses, vars
<1> QED
  BY <1>2, <1>3, <1>4, <1>5, <1>6, <1>7 DEF Next

\* While the listening socket waits nothing is closed: client_accept is the
\* only handler that may run, and it leaves that place.
LEMMA PolledLiveKept ==
    ASSUME OtherTypes, PolledLive, [Next]_vars
    PROVE  PolledLive'
<1>1. CASE Poll
  <2>1. UNCHANGED client /\ \A f \in Fds : rev'[f] \in IF Live(f) THEN Ready(f) ELSE {{}}
    BY <1>1 DEF Poll
  <2> QED
    BY <2>1 DEF PolledLive, Live
<1>2. CASE AppSends \/ AppCloses \/ UNCHANGED vars
  BY <1>2 DEF AppSends, AppCloses, vars, PolledLive, Live
<1>3. CASE ~(Poll \/ AppSends \/ AppCloses \/ UNCHANGED vars)
  <2>1. pc' # "listen"
    BY <1>3 DEF Next, Accept, Advance, DeviceAdd, DeviceVersionInput, DeviceRemove, DeviceTcpInput,
       CheckTimeouts, ClientProcess, ReadFreedBuffer, ConnectTooEarly, KillConnections,
       UsbShutdown, ClientShutdown, UsbServed
  <2> QED
    BY <2>1 DEF PolledLive
<1> QED
  BY <1>1, <1>2, <1>3

\* The number given to a client that was just accepted is a new one.
LEMMA BornBounded ==
    ASSUME SessionInv, OtherTypes, [Next]_vars, NEW f \in Fds, Proceeds(f)
    PROVE  client'[f].born \in 0 .. MaxAccept
<1>1. client \in [Fds -> ClientRec] /\ client[f].born \in 0 .. MaxAccept
      /\ accepted \in 0 .. MaxAccept /\ MaxAccept \in Nat
  BY SessionAssumption DEF SessionInv, Types, OtherTypes
<1>2. CASE client'[f].born \in {0, client[f].born}
  BY <1>1, <1>2
<1>3. CASE Accept
  <2>1. PICK g \in Fds : client' = [client EXCEPT ![g] = NewClient(accepted + 1)]
    BY <1>3 DEF Accept
  <2>2. accepted < MaxAccept
    BY <1>3 DEF Accept
  <2>3. NewClient(accepted + 1).born = accepted + 1
    BY DEF NewClient, NoClient
  <2>4. client'[f] = client[f] \/ client'[f] = NewClient(accepted + 1)
    BY <1>1, <2>1
  <2> QED
    BY <1>1, <2>2, <2>3, <2>4
<1> QED
  BY <1>2, <1>3 DEF Proceeds

\* The whole invariant, by client.
LEMMA FullInvByClient ==
    /\ QueuedIsPolled <=> \A f \in Fds : Tidy(client[f])
    /\ ListenersInformed <=> \A f \in Fds : Informed(f)
BY DEF QueuedIsPolled, Tidy, ListenersInformed, Informed

\* Every step keeps it.
LEMMA NextKeepsFullInv ==
    FullInv /\ [Next]_vars => FullInv'
<1> SUFFICES ASSUME FullInv, [Next]_vars PROVE FullInv'
  OBVIOUS
<1>1. SessionInv'
  BY NextKeepsSession DEF FullInv
<1>2. \A f \in Fds : Proceeds(f)
  BY FullInvByClient, NextProceeds DEF FullInv, OtherTypes
<1>3. QueuedIsPolled'
  BY <1>2 DEF Proceeds, QueuedIsPolled, Tidy
<1>4. ListenersInformed'
  BY <1>2, FullInvByClient DEF FullInv, Proceeds, ListenersInformed, Informed
<1>5. OtherTypes'
  <2>1. \A f \in Fds : client'[f].born \in 0 .. MaxAccept
    BY <1>2, BornBounded DEF FullInv
  <2>2. told' \in [Fds -> SUBSET DevIds]
    BY ToldTypes DEF FullInv, OtherTypes
  <2> QED
    BY <2>1, <2>2, CommandsCounted, LoopTypes DEF FullInv, OtherTypes
<1>6. PolledLive'
  BY PolledLiveKept DEF FullInv
<1> QED
  BY <1>1, <1>3, <1>4, <1>5, <1>6 DEF FullInv

\* It holds when the daemon starts.
LEMMA InitFullInv == Init => FullInv
<1> SUFFICES ASSUME Init PROVE FullInv
  OBVIOUS
<1>1. \A f \in Fds : client[f] = NoClient /\ NoClient.born = 0 /\ NoClient.state = "FREE"
                     /\ Tidy(NoClient)
  BY DEF Init, NoClient, Tidy
<1>2. QueuedIsPolled /\ ListenersInformed
  BY <1>1, FullInvByClient DEF Init, Informed
<1>3. OtherTypes
  BY <1>1, SessionAssumption DEF Init, OtherTypes
<1>4. PolledLive
  BY DEF Init, PolledLive
<1> QED
  BY <1>2, <1>3, <1>4, InitSession DEF FullInv

\* All variables keep their types: in particular ports stay within 16 bits,
\* whatever the number of ports (find_sport).
THEOREM TypesKept == Spec => []TypeOK
<1>1. FullInv => TypeOK
  <2> SUFFICES ASSUME FullInv PROVE TypeOK
    OBVIOUS
  <2>1. \A f \in Fds : client[f] \in ClientRec /\ client[f].born \in 0 .. MaxAccept
    BY DEF FullInv, SessionInv, Types, OtherTypes
  <2>2. \A f \in Fds : client[f] \in [state : ClientStates, events : SUBSET Events,
          devents : SUBSET Events, ob : Nat, head : BOOLEAN, dev : 0 .. MaxDev,
          born : 0 .. MaxAccept]
    BY <2>1 DEF ClientRec
  <2> QED
    BY <2>2 DEF FullInv, SessionInv, Types, DevRec, OtherTypes, TypeOK
<1> QED
  BY <1>1, InitFullInv, NextKeepsFullInv, PTL DEF Spec

\* A message that waits for a client is polled for, and none is left when the
\* client's socket begins to carry a device's data (output_buffer_process).
THEOREM MessagesArePolledFor == Spec => []QueuedIsPolled
<1>1. FullInv => QueuedIsPolled
  BY DEF FullInv
<1> QED
  BY <1>1, InitFullInv, NextKeepsFullInv, PTL DEF Spec

\* A listener has been told of exactly the devices it may connect to.
THEOREM ListenersKnowDevices == Spec => []ListenersInformed
<1>1. FullInv => ListenersInformed
  BY DEF FullInv
<1> QED
  BY <1>1, InitFullInv, NextKeepsFullInv, PTL DEF Spec

\* No result of a poll() is applied to a client accepted after it.
THEOREM ResultsAreNotReused == Spec => FreshClientHasNoEvents
<1>1. FullInv /\ [Next]_vars =>
        [\A f \in Fds : client'[f].born \notin {0, client[f].born} => rev'[f] = {}]_vars
  <2> SUFFICES ASSUME FullInv, [Next]_vars, NEW f \in Fds,
                      client'[f].born \notin {0, client[f].born}
               PROVE  rev'[f] = {}
    OBVIOUS
  <2>1. Proceeds(f)
    BY FullInvByClient, NextProceeds DEF FullInv, OtherTypes
  <2>2. Accept /\ ~Live(f)
    BY <2>1 DEF Proceeds
  <2> QED
    BY <2>2 DEF FullInv, PolledLive, Accept
<1> QED
  BY <1>1, InitFullInv, NextKeepsFullInv, PTL DEF Spec, FreshClientHasNoEvents

-----------------------------------------------------------------------------
(* Devices do not disturb each other.                                       *)

\* A step that only concerns device x: the connections of the others stay, and
\* so does every client that is busy with another device.
Concerns(x) ==
    /\ \A e \in DevIds : e # x => dev'[e].conns = dev[e].conns
    /\ \A f \in Fds : client[f].state \in Busy /\ (\A c \in dev[x].conns : c.client # f)
         => client'[f] = client[f]

\* Then it leaves the connections of another device and their clients alone.
LEMMA OthersUndisturbed ==
    ASSUME SessionInv, NEW x \in DevIds, Concerns(x), NEW d \in DevIds, NEW e \in DevIds,
           dev'[d].conns # dev[d].conns, d # e
    PROVE  /\ dev'[e].conns = dev[e].conns
           /\ \A c \in dev[e].conns : client'[c.client] = client[c.client]
<1>1. d = x /\ e # x
  BY DEF Concerns
<1>2. ASSUME NEW c \in dev[e].conns
      PROVE  client'[c.client] = client[c.client]
  <2>1. Matched(e, c) /\ c.client \in Fds
    BY DEF SessionInv, Types, DevRec, Connections
  <2>2. \A b \in dev[x].conns : b.client # c.client
    BY <1>1, <2>1 DEF SessionInv, Matched
  <2> QED
    BY <2>1, <2>2 DEF Matched, Busy, Concerns
<1> QED
  BY <1>1, <1>2 DEF Concerns

\* connection_teardown of one connection concerns its device.
LEMMA EndConnectionConcerns ==
    ASSUME SessionInv, NEW d \in DevIds, NEW c \in dev[d].conns, EndConnection(d, c)
    PROVE  Concerns(d)
<1>1. \A f \in Fds : c.client # f => AfterTeardown({c})[f] = client[f]
  BY DEF AfterTeardown
<1>2. \A e \in DevIds : e # d => dev'[e].conns = dev[e].conns
  BY DEF EndConnection, WithoutConns, SessionInv, Types
<1> QED
  BY <1>1, <1>2 DEF Concerns, EndConnection

\* What happens on one device leaves the connections of the others, and their
\* clients, alone.
THEOREM OneDeviceAtATime == Spec => DevicesAreIsolated
<1>1. ASSUME SessionInv, [Next]_vars, pc = "usb", pc' = "usb", NEW d \in DevIds, NEW e \in DevIds,
             dev'[d].conns # dev[d].conns, d # e
      PROVE  /\ dev'[e].conns = dev[e].conns
             /\ \A c \in dev[e].conns : client'[c.client] = client[c.client]
  <2>1. client \in [Fds -> ClientRec] /\ dev \in [DevIds -> DevRec]
    BY <1>1 DEF SessionInv, Types
  <2>2. CASE DeviceRemove
    <3>1. PICK x \in DevIds : Removed({x})
      BY <2>2 DEF DeviceRemove
    <3> DEFINE active == {y \in {x} : dev[y].state = "ACTIVE"}
               A == AfterTeardown(UNION {dev[y].conns : y \in active})
    <3>2. \A f \in Fds : (\A c \in dev[x].conns : c.client # f) => A[f] = client[f]
      BY DEF AfterTeardown
    <3>3. \A f \in Fds : client[f].state # "LISTEN" => client'[f] = A[f]
      BY <3>1 DEF Removed
    <3>4. \A y \in DevIds : y # x => dev'[y].conns = dev[y].conns
      BY <3>1 DEF Removed
    <3>5. Concerns(x)
      BY <3>2, <3>3, <3>4 DEF Concerns, Busy
    <3> QED
      BY <1>1, <3>5, OthersUndisturbed
  <2>3. CASE DeviceTcpInput
    <3>1. ASSUME NEW x \in DevIds, NEW c \in dev[x].conns, NEW k,
                 dev' = [dev EXCEPT ![x].conns = (@ \ {c}) \cup {[c EXCEPT !.state = "CONNECTED"]}],
                 client' = [client EXCEPT ![c.client] = k]
          PROVE  Concerns(x)
      BY <2>1, <3>1 DEF Concerns
    <3>2. \E x \in DevIds : Concerns(x)
      BY <1>1, <2>3, <3>1, EndConnectionConcerns DEF DeviceTcpInput
    <3> QED
      BY <1>1, <3>2, OthersUndisturbed
  <2>4. CASE CheckTimeouts
    <3>1. \E x \in DevIds : Concerns(x)
      BY <1>1, <2>4, EndConnectionConcerns DEF CheckTimeouts
    <3> QED
      BY <1>1, <3>1, OthersUndisturbed
  <2>5. CASE DeviceAdd \/ DeviceVersionInput
    <3>1. \A y \in DevIds : dev'[y].conns = dev[y].conns
      BY <2>1, <2>5 DEF DeviceAdd, DeviceVersionInput, DevRec
    <3> QED
      BY <1>1, <3>1
  <2>6. ~(Accept \/ Poll \/ ClientProcess \/ ReadFreedBuffer \/ ConnectTooEarly
          \/ KillConnections \/ UsbShutdown \/ ClientShutdown)
    BY <1>1 DEF Accept, Poll, ClientProcess, ReadFreedBuffer, ConnectTooEarly, KillConnections,
       UsbShutdown, ClientShutdown
  <2>7. CASE Advance \/ AppSends \/ AppCloses \/ UNCHANGED vars
    BY <1>1, <2>7 DEF Advance, AppSends, AppCloses, vars
  <2> QED
    BY <1>1, <2>2, <2>3, <2>4, <2>5, <2>6, <2>7 DEF Next
<1>2. SessionInv /\ [Next]_vars =>
        [pc = "usb" /\ pc' = "usb" =>
           \A d, e \in DevIds :
             dev'[d].conns # dev[d].conns /\ d # e =>
               /\ dev'[e].conns = dev[e].conns
               /\ \A c \in dev[e].conns : client'[c.client] = client[c.client]]_vars
  BY <1>1
<1>3. SessionInv /\ [Next]_vars => SessionInv'
  BY NextKeepsSession
<1> QED
  BY <1>2, <1>3, InitSession, PTL DEF Spec, DevicesAreIsolated

-----------------------------------------------------------------------------
(* The conversation with each client is the one ClientProtocol describes.    *)

\* The phase of a client in state s.
PhaseOf(s) ==
    IF s = "FREE" THEN "none" ELSE IF s = "LISTEN" THEN "listening"
    ELSE IF s = "COMMAND" THEN "command" ELSE IF s = "CONNECTING1" THEN "waiting"
    ELSE IF s = "CONNECTING2" THEN "granted" ELSE "relaying"

\* The connection of a client and the client's own state tell the same phase.
LEMMA PhasesFit ==
    FullInv => \A f \in Fds : Phases[f] = PhaseOf(client[f].state)
<1> SUFFICES ASSUME FullInv, NEW f \in Fds PROVE Phase(f) = PhaseOf(client[f].state)
  BY DEF Phases
<1>1. SessionInv /\ Tidy(client[f]) /\ client[f].state \in ClientStates /\ client[f].ob \in Nat
  BY FullInvByClient DEF FullInv, SessionInv, Types, ClientRec
<1>2. CASE client[f].state \in Busy
  <2>1. PICK c \in dev[client[f].dev].conns : c.client = f
    BY <1>1, <1>2 DEF SessionInv
  <2>2. client[f].dev \in DevIds /\ HasConn(f)
    BY <1>1, <1>2, <2>1 DEF SessionInv, HasConn
  <2>3. Awaits(f) <=> client[f].state = "CONNECTING1"
    <3>1. ASSUME NEW d \in DevIds, NEW b \in dev[d].conns, b.client = f
          PROVE  IF b.state = "CONNECTING" THEN client[f].state = "CONNECTING1"
                 ELSE client[f].state \in {"CONNECTING2", "CONNECTED"}
      BY <1>1, <3>1 DEF SessionInv, Matched
    <3> QED
      BY <2>1, <2>2, <3>1 DEF Awaits
  <2>4. client[f].state = "CONNECTED" => ~(client[f].ob > 0)
    BY <1>1 DEF Tidy
  <2>5. client[f].state = "CONNECTING2" => client[f].ob > 0
    BY <1>1 DEF Tidy
  <2> QED
    BY <1>2, <2>2, <2>3, <2>4, <2>5 DEF Phase, PhaseOf, Live, Busy
<1>3. CASE client[f].state \notin Busy
  <2>1. ~HasConn(f)
    BY <1>1, <1>3 DEF SessionInv, Matched, HasConn, Busy
  <2> QED
    BY <1>1, <1>3, <2>1 DEF Phase, PhaseOf, Live, Busy, ClientStates
<1> QED
  BY <1>2, <1>3

\* And so they do after a step.
LEMMA PhasesFitNext ==
    FullInv' => \A f \in Fds : Phases'[f] = PhaseOf(client'[f].state)
<1>1. (FullInv => \A f \in Fds : Phases[f] = PhaseOf(client[f].state))'
  BY PhasesFit, PTL
<1> QED
  BY <1>1

\* What the end of connections makes of client k: nothing, unless its Connect
\* is refused or it is closed.
Ends(k, j) ==
    \/ j.state = k.state /\ j.ob = k.ob
    \/ k.state = "CONNECTING1" /\ j.state = "COMMAND" /\ j.ob = k.ob + 1
    \/ k.state \in {"CONNECTING2", "CONNECTED"} /\ j.state = "FREE" /\ j.ob = 0

\* What a step makes of client f in which devices and connections may come and go.
Shifts(f) ==
    IF client[f].state = "LISTEN"
    THEN /\ client'[f].state = "LISTEN" /\ told'[f] = Visible'
         /\ client'[f].ob = client[f].ob + Cardinality((Visible' \ Visible) \cup (Visible \ Visible'))
    ELSE told'[f] = told[f] /\ Ends(client[f], client'[f])

\* What a message that is queued or sent, or a Connect, makes of client k.
Says(k, j) ==
    \/ j.state = k.state /\ j.ob = k.ob
    \/ k.state \in {"COMMAND", "LISTEN"} /\ j.state = k.state /\ j.ob = k.ob + 1
    \/ k.state = "COMMAND" /\ j.state = "CONNECTING1" /\ j.ob = k.ob
    \/ k.state = "CONNECTING1" /\ j.state = "CONNECTING2" /\ j.ob = k.ob + 1
    \/ /\ k.state \notin {"FREE", "CONNECTED"}
       /\ \E n \in 1 .. k.ob : j.ob = k.ob - n
       /\ j.state = IF k.state = "CONNECTING2" /\ j.ob = 0 THEN "CONNECTED" ELSE k.state

\* What a step makes of client f in which the devices stay.
Speaks(f) ==
    \/ told'[f] = told[f] /\ Says(client[f], client'[f])
    \/ client'[f].state = "FREE" /\ client'[f].ob = 0 /\ told'[f] = {}
    \/ /\ client[f].state = "FREE" /\ client'[f].state = "COMMAND"
       /\ client'[f].ob = 0 /\ told'[f] = {}
    \/ /\ client[f].state = "COMMAND" /\ client'[f].state = "LISTEN"
       /\ told'[f] = Visible /\ client'[f].ob = client[f].ob + 1 + Cardinality(Visible)

\* The variables of the protocol, for one client.
LEMMA ProtocolState ==
    ASSUME FullInv, FullInv', NEW f \in Fds
    PROVE  /\ Phases[f] = PhaseOf(client[f].state) /\ Phases'[f] = PhaseOf(client'[f].state)
           /\ Queued[f] = client[f].ob /\ Queued'[f] = client'[f].ob
           /\ client[f].ob \in Nat /\ client'[f].ob \in Nat
           /\ client[f].state \in ClientStates /\ client'[f].state \in ClientStates
           /\ Informed(f)
<1>1. Queued[f] = client[f].ob /\ Queued'[f] = client'[f].ob
  BY DEF Queued
<1>2. client[f] \in ClientRec /\ client'[f] \in ClientRec
  BY DEF FullInv, SessionInv, Types
<1> QED
  BY <1>1, <1>2, PhasesFit, PhasesFitNext, FullInvByClient DEF FullInv, ClientRec

\* ClientProtocol counts devices as MuxSession does.
LEMMA SameCount == \A S : Protocol!Cardinality(S) = Cardinality(S)
BY DEF Cardinality, Protocol!Cardinality

\* A step in which the devices stay is part of a conversation.
LEMMA SpeaksMaps ==
    ASSUME FullInv, FullInv', Visible' = Visible, \A f \in Fds : Speaks(f)
    PROVE  Protocol!ProtocolNext
<1>1. SUFFICES ASSUME NEW f \in Fds
               PROVE  \/ Protocol!Stays(f) \/ Protocol!Joins(f) \/ Protocol!Leaves(f)
                      \/ Protocol!Answers(f) \/ Protocol!Notifies(f) \/ Protocol!Listens(f)
                      \/ Protocol!Connects(f) \/ Protocol!Grants(f) \/ Protocol!Refuses(f)
                      \/ Protocol!Delivers(f)
  BY DEF Protocol!ProtocolNext, Protocol!Converse
<1> DEFINE k == client[f]
           j == client'[f]
<1>2. /\ Phases[f] = PhaseOf(k.state) /\ Phases'[f] = PhaseOf(j.state)
      /\ Queued[f] = k.ob /\ Queued'[f] = j.ob /\ k.ob \in Nat /\ j.ob \in Nat
      /\ k.state \in ClientStates
  BY ProtocolState
<1>3. k.ob + 0 = k.ob
  BY <1>2
<1>4. Speaks(f)
  OBVIOUS
<1>5. CASE told'[f] = told[f] /\ Says(k, j)
  <2>1. CASE j.state = k.state /\ j.ob = k.ob
    BY <1>2, <1>3, <1>5, <2>1 DEF Protocol!Stays, Protocol!Queues
  <2>2. CASE k.state \in {"COMMAND", "LISTEN"} /\ j.state = k.state /\ j.ob = k.ob + 1
    BY <1>2, <1>5, <2>2 DEF Protocol!Answers, Protocol!Notifies, Protocol!Moves, Protocol!Queues,
       PhaseOf
  <2>3. CASE k.state = "COMMAND" /\ j.state = "CONNECTING1" /\ j.ob = k.ob
    BY <1>2, <1>3, <1>5, <2>3 DEF Protocol!Connects, Protocol!Moves, Protocol!Queues, PhaseOf
  <2>4. CASE k.state = "CONNECTING1" /\ j.state = "CONNECTING2" /\ j.ob = k.ob + 1
    BY <1>2, <1>5, <2>4 DEF Protocol!Grants, Protocol!Moves, Protocol!Queues, PhaseOf
  <2>5. CASE /\ k.state \notin {"FREE", "CONNECTED"}
             /\ \E n \in 1 .. k.ob : j.ob = k.ob - n
             /\ j.state = IF k.state = "CONNECTING2" /\ j.ob = 0 THEN "CONNECTED" ELSE k.state
    <3>1. Phases[f] \notin {"none", "relaying"}
      BY <1>2, <2>5 DEF PhaseOf, ClientStates
    <3>2. Phases'[f] = IF Phases[f] = "granted" /\ j.ob = 0 THEN "relaying" ELSE Phases[f]
      BY <1>2, <2>5 DEF PhaseOf, ClientStates
    <3> QED
      BY <1>2, <1>5, <2>5, <3>1, <3>2 DEF Protocol!Delivers
  <2> QED
    BY <1>5, <2>1, <2>2, <2>3, <2>4, <2>5 DEF Says
<1>6. CASE j.state = "FREE" /\ j.ob = 0 /\ told'[f] = {}
  BY <1>2, <1>6 DEF Protocol!Leaves, PhaseOf
<1>7. CASE k.state = "FREE" /\ j.state = "COMMAND" /\ j.ob = 0 /\ told'[f] = {}
  BY <1>2, <1>7 DEF Protocol!Joins, Protocol!Moves, PhaseOf
<1>8. CASE /\ k.state = "COMMAND" /\ j.state = "LISTEN" /\ told'[f] = Visible
           /\ j.ob = k.ob + 1 + Cardinality(Visible)
  BY <1>2, <1>8, SameCount DEF Protocol!Listens, Protocol!Moves, PhaseOf
<1> QED
  BY <1>4, <1>5, <1>6, <1>7, <1>8 DEF Speaks

\* A step in which they may not.
LEMMA ShiftsMaps ==
    ASSUME FullInv, FullInv', \A f \in Fds : Shifts(f)
    PROVE  Protocol!ProtocolNext
<1>1. ASSUME NEW f \in Fds
      PROVE  /\ Phases[f] = PhaseOf(client[f].state) /\ Phases'[f] = PhaseOf(client'[f].state)
             /\ Queued[f] = client[f].ob /\ Queued'[f] = client'[f].ob
             /\ client[f].ob \in Nat /\ client[f].ob + 0 = client[f].ob
             /\ client[f].state \in ClientStates /\ Informed(f) /\ Shifts(f)
  BY ProtocolState
<1>2. ASSUME NEW f \in Fds, client[f].state # "LISTEN"
      PROVE  Protocol!Stays(f) \/ Protocol!Loses(f)
  <2> DEFINE k == client[f]
             j == client'[f]
  <2>1. told'[f] = {} /\ told[f] = {} /\ Ends(k, j)
    BY <1>1, <1>2 DEF Informed, Shifts
  <2>2. CASE j.state = k.state /\ j.ob = k.ob
    BY <1>1, <2>1, <2>2 DEF Protocol!Stays, Protocol!Queues
  <2>3. CASE k.state = "CONNECTING1" /\ j.state = "COMMAND" /\ j.ob = k.ob + 1
    BY <1>1, <2>1, <2>3 DEF Protocol!Loses, Protocol!Refuses, Protocol!Moves, Protocol!Queues, PhaseOf
  <2>4. CASE k.state \in {"CONNECTING2", "CONNECTED"} /\ j.state = "FREE" /\ j.ob = 0
    BY <1>1, <2>1, <2>4 DEF Protocol!Loses, Protocol!Leaves, PhaseOf
  <2> QED
    BY <2>1, <2>2, <2>3, <2>4 DEF Ends
<1>3. CASE Visible' # Visible
  <2>1. ASSUME NEW f \in Fds, client[f].state = "LISTEN" PROVE Protocol!Hears(f, Visible')
    BY <1>1, <2>1, SameCount DEF Shifts, Protocol!Hears, Protocol!Moves, PhaseOf
  <2>2. \A f \in Fds : Phases[f] = "listening" <=> client[f].state = "LISTEN"
    BY <1>1 DEF PhaseOf
  <2> QED
    BY <1>2, <1>3, <2>1, <2>2 DEF Protocol!ProtocolNext, Protocol!Change
<1>4. CASE Visible' = Visible
  <2>1. ASSUME NEW f \in Fds, client[f].state = "LISTEN" PROVE Protocol!Stays(f)
    <3>1. (Visible' \ Visible) \cup (Visible \ Visible') = {}
      BY <1>4
    <3>2. client'[f].state = "LISTEN" /\ told'[f] = told[f] /\ client'[f].ob = client[f].ob + 0
      BY <1>1, <1>4, <2>1, <3>1, FS_EmptySet DEF Shifts, Informed
    <3> QED
      BY <1>1, <2>1, <3>2 DEF Protocol!Stays, Protocol!Queues
  <2>2. ASSUME NEW f \in Fds, Protocol!Loses(f) PROVE Protocol!Refuses(f) \/ Protocol!Leaves(f)
    BY <2>2 DEF Protocol!Loses
  <2> QED
    BY <1>2, <1>4, <2>1, <2>2 DEF Protocol!ProtocolNext, Protocol!Converse
<1> QED
  BY <1>3, <1>4

\* output_buffer_add_message.
LEMMA QueueCounts ==
    ASSUME NEW k \in ClientRec, NEW n \in Nat
    PROVE  Queue(k, n).ob = k.ob + n /\ Queue(k, n).state = k.state
<1>1. CASE n = 0
  BY <1>1 DEF Queue, ClientRec
<1>2. CASE n # 0
  BY <1>2 DEF Queue, ClientRec
<1> QED
  BY <1>1, <1>2

\* client_notify_connect queues one message.
LEMMA NotifyCounts ==
    ASSUME NEW k \in ClientRec, k.state = "CONNECTING1", NEW ok \in BOOLEAN
    PROVE  /\ NotifyConnect(k, ok).ob = k.ob + 1
           /\ NotifyConnect(k, ok).state = IF ok THEN "CONNECTING2" ELSE "COMMAND"
<1> DEFINE q == Queue(k, 1)
<1>1. q \in ClientRec /\ q.ob = k.ob + 1
  BY QueueType, QueueCounts
<1>2. NotifyConnect(k, ok) = IF ok THEN [q EXCEPT !.state = "CONNECTING2", !.events = {"OUT"}]
                             ELSE [q EXCEPT !.state = "COMMAND"]
  BY DEF NotifyConnect
<1> HIDE DEF q
<1> QED
  BY <1>1, <1>2 DEF ClientRec

\* client_set_events queues none, and handling a command only those it says.
LEMMA OtherCounts ==
    ASSUME NEW k \in ClientRec
    PROVE  /\ \A ev : SetEvents(k, ev).ob = k.ob /\ SetEvents(k, ev).state = k.state
           /\ \A n \in Nat : Answered(k, n).ob = k.ob + n /\ Answered(k, n).state = k.state
           /\ \A n \in Nat : Listened(k, n).ob = k.ob + n /\ Listened(k, n).state = "LISTEN"
<1>1. \A ev : SetEvents(k, ev).ob = k.ob /\ SetEvents(k, ev).state = k.state
  BY DEF SetEvents, ClientRec
<1>2. ASSUME NEW n \in Nat
      PROVE  /\ Answered(k, n).ob = k.ob + n /\ Answered(k, n).state = k.state
             /\ Listened(k, n).ob = k.ob + n /\ Listened(k, n).state = "LISTEN"
  <2> DEFINE q == Queue(k, n)
  <2>1. q \in ClientRec /\ q.ob = k.ob + n /\ q.state = k.state
    BY QueueType, QueueCounts
  <2>2. /\ Answered(k, n) = [q EXCEPT !.head = FALSE]
        /\ Listened(k, n) = [q EXCEPT !.state = "LISTEN", !.head = FALSE]
    BY DEF Answered, Listened
  <2> HIDE DEF q
  <2> QED
    BY <2>1, <2>2 DEF ClientRec
<1> QED
  BY <1>1, <1>2

\* output_buffer_process sends messages, and with the last one ends a Connect.
LEMMA SentSays ==
    ASSUME NEW k \in ClientRec, Tidy(k), k.state \notin {"FREE", "CONNECTED"},
           NEW n \in (IF k.ob = 0 THEN {0} ELSE 1 .. k.ob)
    PROVE  Says(k, Sent(k, n))
<1>1. k.ob \in Nat
  BY DEF ClientRec
<1>2. CASE k.ob = 0
  <2>1. k.state # "CONNECTING2" /\ n = 0
    BY <1>2 DEF Tidy
  <2>2. Sent(k, n).ob = 0 /\ Sent(k, n).state = k.state
    BY <1>2, <2>1 DEF Sent, ClientRec
  <2> QED
    BY <1>2, <2>2 DEF Says
<1>3. CASE k.ob # 0 /\ n < k.ob
  <2>1. Sent(k, n).ob = k.ob - n /\ Sent(k, n).state = k.state
    BY <1>3 DEF Sent, ClientRec
  <2>2. k.ob - n # 0 /\ n \in 1 .. k.ob
    BY <1>1, <1>3
  <2> QED
    BY <2>1, <2>2 DEF Says
<1>4. CASE k.ob # 0 /\ ~(n < k.ob)
  <2>1. n = k.ob /\ n \in 1 .. k.ob /\ k.ob - n = 0
    BY <1>1, <1>4
  <2>2. /\ Sent(k, n).ob = 0
        /\ Sent(k, n).state = IF k.state = "CONNECTING2" THEN "CONNECTED" ELSE k.state
    BY <1>4 DEF Sent, ClientRec
  <2> QED
    BY <2>1, <2>2 DEF Says
<1> QED
  BY <1>2, <1>3, <1>4

\* connection_teardown of any of the connections.
LEMMA TeardownEnds ==
    ASSUME SessionInv, NEW cs, \A c \in cs : \E d \in DevIds : c \in dev[d].conns, NEW f \in Fds
    PROVE  Ends(client[f], AfterTeardown(cs)[f])
<1>1. client[f] \in ClientRec
  BY DEF SessionInv, Types
<1>2. CASE \E c \in cs : c.client = f
  <2>1. PICK b : b = CHOOSE c \in cs : c.client = f
    OBVIOUS
  <2>2. b \in cs /\ b.client = f
    BY <1>2, <2>1
  <2>3. PICK d \in DevIds : Matched(d, b)
    BY <2>2 DEF SessionInv
  <2>4. CASE b.state = "CONNECTING"
    <3>1. client[f].state = "CONNECTING1"
      BY <2>2, <2>3, <2>4 DEF Matched
    <3> QED
      BY <1>1, <1>2, <2>1, <2>4, <3>1, NotifyCounts DEF AfterTeardown, TornDown, Ends
  <2>5. CASE b.state # "CONNECTING"
    <3>1. client[f].state \in {"CONNECTING2", "CONNECTED"}
      BY <2>2, <2>3, <2>5 DEF Matched
    <3>2. AfterTeardown(cs)[f] = NoClient
      BY <1>2, <2>1, <2>5 DEF AfterTeardown, TornDown
    <3> QED
      BY <3>1, <3>2 DEF Ends, NoClient
  <2> QED
    BY <2>4, <2>5
<1>3. CASE ~\E c \in cs : c.client = f
  BY <1>3 DEF AfterTeardown, Ends
<1> QED
  BY <1>2, <1>3

\* Connections may end, no device comes or goes.
LEMMA EndsShifts ==
    ASSUME FullInv, NEW f \in Fds, Ends(client[f], client'[f]), told'[f] = told[f],
           Visible' = Visible
    PROVE  Shifts(f)
<1>1. client[f].ob \in Nat /\ Informed(f)
  BY FullInvByClient DEF FullInv, SessionInv, Types, ClientRec
<1>2. CASE client[f].state = "LISTEN"
  <2>1. client'[f].state = "LISTEN" /\ client'[f].ob = client[f].ob /\ told'[f] = Visible'
    BY <1>1, <1>2 DEF Ends, Informed
  <2>2. (Visible' \ Visible) \cup (Visible \ Visible') = {}
    OBVIOUS
  <2>3. Cardinality((Visible' \ Visible) \cup (Visible \ Visible')) = 0
    BY <2>2, FS_EmptySet
  <2>4. client[f].ob + 0 = client[f].ob
    BY <1>1
  <2> QED
    BY <1>2, <2>1, <2>3, <2>4 DEF Shifts
<1>3. CASE client[f].state # "LISTEN"
  BY <1>3 DEF Shifts
<1> QED
  BY <1>2, <1>3

\* connection_teardown of one connection.
LEMMA EndConnectionShifts ==
    ASSUME FullInv, NEW d \in DevIds, NEW c \in dev[d].conns, EndConnection(d, c), NEW f \in Fds
    PROVE  Shifts(f)
<1>1. SessionInv /\ dev \in [DevIds -> DevRec]
  BY DEF FullInv, SessionInv, Types
<1>2. \A e \in DevIds : dev'[e].state = dev[e].state
  BY <1>1 DEF EndConnection, WithoutConns, DevRec
<1>3. Ends(client[f], client'[f]) /\ told'[f] = told[f]
  BY <1>1, TeardownEnds DEF EndConnection
<1> QED
  BY <1>2, <1>3, VisibleKept, EndsShifts

\* device_kill_connections.
LEMMA KillShifts ==
    ASSUME FullInv, KillConnections, NEW f \in Fds
    PROVE  Shifts(f)
<1>1. SessionInv /\ dev \in [DevIds -> DevRec]
  BY DEF FullInv, SessionInv, Types
<1>2. \A e \in DevIds : dev'[e].state = dev[e].state
  BY <1>1 DEF KillConnections, DevRec
<1>3. Ends(client[f], client'[f]) /\ told'[f] = told[f]
  BY <1>1, TeardownEnds DEF KillConnections
<1> QED
  BY <1>2, <1>3, VisibleKept, EndsShifts

\* A new mask for one client, as update_connection computes it.
LEMMA MaskShifts ==
    ASSUME FullInv, NEW g, NEW ev \in SUBSET Events,
           client' = [client EXCEPT ![g] = SetEvents(@, ev)], UNCHANGED <<dev, told>>, NEW f \in Fds
    PROVE  Shifts(f)
<1>1. client \in [Fds -> ClientRec]
  BY DEF FullInv, SessionInv, Types
<1>2. client'[f] = client[f] \/ client'[f] = SetEvents(client[f], ev)
  BY <1>1
<1>3. Ends(client[f], client'[f])
  BY <1>1, <1>2, OtherCounts DEF Ends
<1> QED
  BY <1>3, VisibleKept, EndsShifts

\* device_remove: each device that leaves is one message for every listener.
LEMMA RemovedShifts ==
    ASSUME FullInv, NEW ds \in SUBSET DevIds, Removed(ds), NEW f \in Fds
    PROVE  Shifts(f)
<1> DEFINE active == {d \in ds : dev[d].state = "ACTIVE"}
           A == AfterTeardown(UNION {dev[d].conns : d \in active})
           N == Cardinality(active)
<1>1. SessionInv /\ dev \in [DevIds -> DevRec] /\ Informed(f)
  BY FullInvByClient DEF FullInv, SessionInv, Types
<1>2. N \in Nat
  BY DevicesCounted
<1>3. A[f] \in ClientRec /\ Ends(client[f], A[f])
  BY <1>1, TeardownFreesClients, TeardownEnds
<1>4. /\ client'[f] = (IF client[f].state = "LISTEN" THEN Queue(A[f], N) ELSE A[f])
      /\ told'[f] = told[f] \ active
      /\ \A d \in DevIds : dev'[d].state = IF d \in ds THEN "GONE" ELSE dev[d].state
  <2>1. \A d \in ds : [dev[d] EXCEPT !.state = "GONE", !.conns = {}].state = "GONE"
    BY <1>1 DEF DevRec
  <2> QED
    BY <2>1 DEF Removed
<1>5. Visible' = Visible \ active /\ (Visible' \ Visible) \cup (Visible \ Visible') = active
  BY <1>4 DEF Visible
<1> HIDE DEF active, A
<1>6. CASE client[f].state = "LISTEN"
  <2>1. A[f].state = "LISTEN" /\ A[f].ob = client[f].ob
    BY <1>3, <1>6 DEF Ends
  <2>2. client'[f].state = "LISTEN" /\ client'[f].ob = client[f].ob + N
    BY <1>2, <1>3, <1>4, <1>6, <2>1, QueueCounts
  <2>3. told'[f] = Visible'
    BY <1>1, <1>4, <1>5, <1>6 DEF Informed
  <2> QED
    BY <1>5, <1>6, <2>2, <2>3 DEF Shifts
<1>7. CASE client[f].state # "LISTEN"
  BY <1>1, <1>3, <1>4, <1>7 DEF Shifts, Informed
<1> QED
  BY <1>6, <1>7

\* device_version_input: a new device is one message for every listener.
LEMMA VersionInputShifts ==
    ASSUME FullInv, DeviceVersionInput, NEW f \in Fds
    PROVE  Shifts(f)
<1>1. client[f] \in ClientRec /\ dev \in [DevIds -> DevRec] /\ Informed(f)
  BY FullInvByClient DEF FullInv, SessionInv, Types
<1>2. ASSUME NEW d \in DevIds, dev[d].state = "INIT", dev' = [dev EXCEPT ![d].state = "ACTIVE"],
             client'[f] = (IF client[f].state = "LISTEN" THEN Queue(client[f], 1) ELSE client[f]),
             told'[f] = (IF client[f].state = "LISTEN" THEN told[f] \cup {d} ELSE told[f])
      PROVE  Shifts(f)
  <2>1. Visible' = Visible \cup {d} /\ d \notin Visible
    BY <1>1, <1>2 DEF Visible, DevRec
  <2>2. (Visible' \ Visible) \cup (Visible \ Visible') = {d}
    BY <2>1
  <2>3. Cardinality((Visible' \ Visible) \cup (Visible \ Visible')) = 1
    BY <2>2, FS_Singleton
  <2>4. CASE client[f].state = "LISTEN"
    <3>1. client'[f].state = "LISTEN" /\ client'[f].ob = client[f].ob + 1
      BY <1>1, <1>2, <2>4, QueueCounts
    <3>2. told'[f] = Visible'
      BY <1>1, <1>2, <2>1, <2>4 DEF Informed
    <3> QED
      BY <2>3, <2>4, <3>1, <3>2 DEF Shifts
  <2>5. CASE client[f].state # "LISTEN"
    BY <1>2, <2>5 DEF Shifts, Ends
  <2> QED
    BY <2>4, <2>5
<1>3. ASSUME NEW d \in DevIds, dev[d].state = "INIT", dev' = [dev EXCEPT ![d].state = "GONE"],
             UNCHANGED <<client, told>>
      PROVE  Shifts(f)
  <2>1. Visible' = Visible
    BY <1>1, <1>3 DEF Visible, DevRec
  <2> QED
    BY <1>3, <2>1, EndsShifts DEF Ends
<1> QED
  BY <1>2, <1>3 DEF DeviceVersionInput

\* What every step of the daemon turns out to be, for all clients together.
Talks ==
    \/ \A f \in Fds : Shifts(f)
    \/ Visible' = Visible /\ \A f \in Fds : Speaks(f)

\* Something is said to client g alone.
LEMMA OneSpeaks ==
    ASSUME FullInv, NEW g \in Fds, \A f \in Fds : f # g => client'[f] = client[f] /\ told'[f] = told[f],
           Visible' = Visible, Speaks(g)
    PROVE  Talks
<1>1. ASSUME NEW f \in Fds, f # g PROVE Speaks(f)
  BY <1>1 DEF Speaks, Says
<1> QED
  BY <1>1 DEF Talks

\* client_close.
LEMMA CloseTalks ==
    ASSUME FullInv, NEW g \in Fds, ClientClose(g)
    PROVE  Talks
<1>1. client \in [Fds -> ClientRec] /\ dev \in [DevIds -> DevRec] /\ told \in [Fds -> SUBSET DevIds]
  BY DEF FullInv, SessionInv, Types, OtherTypes
<1>2. \A d \in DevIds : dev'[d].state = dev[d].state
  BY <1>1 DEF ClientClose, CloseConns, DevRec
<1>3. client'[g] = NoClient /\ told'[g] = {}
  BY <1>1 DEF ClientClose
<1>4. \A f \in Fds : f # g => client'[f] = client[f] /\ told'[f] = told[f]
  BY <1>1 DEF ClientClose
<1>5. Speaks(g)
  BY <1>3 DEF Speaks, NoClient
<1> QED
  BY <1>2, <1>4, <1>5, VisibleKept, OneSpeaks

\* device_tcp_input: a connection ends, is established, or carries data.
LEMMA TcpInputTalks ==
    ASSUME FullInv, DeviceTcpInput
    PROVE  Talks
<1>1. client \in [Fds -> ClientRec] /\ dev \in [DevIds -> DevRec] /\ SessionInv
  BY DEF FullInv, SessionInv, Types
<1>2. ASSUME NEW d \in DevIds, NEW c \in dev[d].conns, NEW ev \in SUBSET Events,
             c.state = "CONNECTING",
             dev' = [dev EXCEPT ![d].conns = (@ \ {c}) \cup {[c EXCEPT !.state = "CONNECTED"]}],
             client' = [client EXCEPT ![c.client] = SetEvents(NotifyConnect(@, TRUE), ev)],
             UNCHANGED told
      PROVE  Talks
  <2> DEFINE g == c.client
             j == NotifyConnect(client[g], TRUE)
  <2>1. g \in Fds /\ client[g].state = "CONNECTING1"
    BY <1>1, <1>2 DEF DevRec, Connections, SessionInv, Matched
  <2>2. j \in ClientRec /\ j.ob = client[g].ob + 1 /\ j.state = "CONNECTING2"
    BY <1>1, <2>1, NotifyConnectType, NotifyCounts
  <2>3. client'[g] = SetEvents(j, ev) /\ \A f \in Fds : f # g => client'[f] = client[f]
    BY <1>1, <1>2, <2>1
  <2>4. \A e \in DevIds : dev'[e].state = dev[e].state
    BY <1>1, <1>2 DEF DevRec
  <2> HIDE DEF j
  <2> HIDE DEF g
  <2>5. client'[g].ob = client[g].ob + 1 /\ client'[g].state = "CONNECTING2"
    BY <2>2, <2>3, OtherCounts
  <2>6. Speaks(g)
    BY <1>2, <2>1, <2>5 DEF Speaks, Says
  <2> QED
    BY <1>2, <2>1, <2>3, <2>4, <2>6, VisibleKept, OneSpeaks
<1> QED
  BY <1>2, EndConnectionShifts, MaskShifts DEF DeviceTcpInput, Talks

\* handle_command for a client that may give commands.
LEMMA CommandTalks ==
    ASSUME FullInv, NEW g \in Fds, client[g].state = "COMMAND",
           \/ StartListen(g)
           \/ \E d \in DevIds : StartConnect(g, d)
           \/ \E d \in {0} \cup DevIds : SavePairRecord(g, d)
           \/ Answer(g, 1) \/ Answer(g, 0)
    PROVE  Talks
<1>1. /\ client \in [Fds -> ClientRec] /\ dev \in [DevIds -> DevRec]
      /\ told \in [Fds -> SUBSET DevIds] /\ client[g] \in ClientRec /\ client[g].ob \in Nat
  BY DEF FullInv, SessionInv, Types, OtherTypes, ClientRec
<1>2. ASSUME NEW n \in {0, 1}, client' = [client EXCEPT ![g] = [Queue(@, n) EXCEPT !.head = FALSE]],
             UNCHANGED told, Visible' = Visible
      PROVE  Talks
  <2>1. client'[g] = Answered(client[g], n) /\ \A f \in Fds : f # g => client'[f] = client[f]
    BY <1>1, <1>2 DEF Answered
  <2>2. n \in Nat /\ client[g].ob + 0 = client[g].ob
    BY <1>1
  <2>3. client'[g].ob = client[g].ob + n /\ client'[g].state = client[g].state
    BY <1>1, <2>1, <2>2, OtherCounts
  <2>4. Speaks(g)
    BY <1>2, <2>2, <2>3 DEF Speaks, Says
  <2> QED
    BY <1>2, <2>1, <2>4, OneSpeaks
<1>3. CASE StartListen(g)
  <2> DEFINE n == 1 + Cardinality(Visible)
  <2>1. Visible \in SUBSET DevIds /\ Visible' = Visible
    BY <1>3 DEF Visible, StartListen
  <2>2. Cardinality(Visible) \in Nat /\ n \in Nat
    BY <2>1, DevicesCounted
  <2>3. /\ client'[g] = Listened(client[g], n) /\ told'[g] = Visible
        /\ \A f \in Fds : f # g => client'[f] = client[f] /\ told'[f] = told[f]
    BY <1>1, <1>3 DEF StartListen, Listened
  <2>4. client[g].ob + n = client[g].ob + 1 + Cardinality(Visible)
    BY <1>1, <2>2
  <2> HIDE DEF n
  <2>5. Speaks(g)
    BY <1>1, <2>2, <2>3, <2>4, OtherCounts DEF Speaks
  <2> QED
    BY <2>1, <2>3, <2>5, OneSpeaks
<1>4. ASSUME NEW d \in DevIds, StartConnect(g, d) PROVE Talks
  <2>1. \A e \in DevIds : dev'[e].state = dev[e].state
    BY <1>1, <1>4 DEF StartConnect, DevRec
  <2>2. Visible' = Visible /\ UNCHANGED told
    BY <1>4, <2>1, VisibleKept DEF StartConnect
  <2>3. CASE client' = [client EXCEPT ![g] = [Queue(@, 1) EXCEPT !.head = FALSE]]
    BY <1>2, <2>2, <2>3
  <2>4. CASE client' = [client EXCEPT ![g].state = "CONNECTING1", ![g].dev = d, ![g].head = FALSE]
    <3>1. /\ client'[g].state = "CONNECTING1" /\ client'[g].ob = client[g].ob
          /\ \A f \in Fds : f # g => client'[f] = client[f]
      BY <1>1, <2>4 DEF ClientRec
    <3>2. Speaks(g)
      BY <2>2, <3>1 DEF Speaks, Says
    <3> QED
      BY <2>2, <3>1, <3>2, OneSpeaks
  <2> QED
    BY <1>4, <2>3, <2>4 DEF StartConnect
<1>5. ASSUME NEW d \in {0} \cup DevIds, SavePairRecord(g, d) PROVE Talks
  <2>1. UNCHANGED told /\ Visible' = Visible
    BY <1>5, VisibleKept DEF SavePairRecord
  <2>2. ASSUME NEW f \in Fds PROVE Speaks(f)
    <3>1. client[f] \in ClientRec
      BY <1>1
    <3>2. CASE f = g
      <4>1. client'[f] = Answered(client[f], 1)
        BY <1>5, <3>2 DEF SavePairRecord, Answered
      <4> QED
        BY <2>1, <3>1, <3>2, <4>1, OtherCounts DEF Speaks, Says
    <3>3. CASE f # g
      <4>1. \/ client'[f] = client[f]
            \/ client'[f] = Queue(client[f], 1) /\ client[f].state = "LISTEN"
        BY <1>5, <3>3 DEF SavePairRecord
      <4> QED
        BY <2>1, <3>1, <4>1, QueueCounts DEF Speaks, Says
    <3> QED
      BY <3>2, <3>3
  <2> QED
    BY <2>1, <2>2 DEF Talks
<1>6. ASSUME NEW n \in {0, 1}, Answer(g, n) PROVE Talks
  BY <1>2, <1>6, VisibleKept DEF Answer
<1> QED
  BY <1>3, <1>4, <1>5, <1>6

\* client_process.
LEMMA ClientProcessTalks ==
    ASSUME FullInv, ClientProcess
    PROVE  Talks
<1>1. client \in [Fds -> ClientRec] /\ \A f \in Fds : Tidy(client[f])
  BY FullInvByClient DEF FullInv, SessionInv, Types
<1>2. ASSUME UNCHANGED <<client, dev, told>> PROVE Talks
  BY <1>2, VisibleKept, EndsShifts DEF Talks, Ends
<1>3. ASSUME NEW g \in Fds, DeviceClientProcess(g) PROVE Talks
  BY <1>3, EndConnectionShifts, MaskShifts DEF DeviceClientProcess, Talks
<1>4. ASSUME NEW g \in Fds, NEW kinds, HandleCommand(g, kinds) PROVE Talks
  BY <1>4, CloseTalks, CommandTalks DEF HandleCommand
<1>5. ASSUME NEW g \in Fds, InputBufferProcess(g) PROVE Talks
  <2>1. CASE client' = [client EXCEPT ![g].head = TRUE] /\ UNCHANGED <<dev, told>>
    <3>1. \A f \in Fds : Ends(client[f], client'[f])
      BY <1>1, <2>1 DEF Ends, ClientRec
    <3> QED
      BY <2>1, <3>1, VisibleKept, EndsShifts DEF Talks
  <2> QED
    BY <1>4, <1>5, <2>1, CloseTalks DEF InputBufferProcess
<1>6. ASSUME NEW g \in Fds, Live(g), client[g].state # "CONNECTED", OutputBufferProcess(g)
      PROVE  Talks
  <2>1. ASSUME NEW n \in (IF client[g].ob = 0 THEN {0} ELSE 1 .. client[g].ob),
               client' = [client EXCEPT ![g] = Sent(@, n)], UNCHANGED <<dev, told>>
        PROVE  Talks
    <3>1. client'[g] = Sent(client[g], n) /\ \A f \in Fds : f # g => client'[f] = client[f]
      BY <1>1, <2>1
    <3>2. Says(client[g], client'[g])
      BY <1>1, <1>6, <3>1, SentSays DEF Live
    <3> QED
      BY <2>1, <3>1, <3>2, VisibleKept, OneSpeaks DEF Speaks
  <2> QED
    BY <1>6, <2>1, CloseTalks DEF OutputBufferProcess
<1> QED
  BY <1>2, <1>3, <1>5, <1>6 DEF ClientProcess

\* client_accept, and client_shutdown.
LEMMA ArrivalTalks ==
    ASSUME FullInv, Accept \/ ClientShutdown
    PROVE  Talks
<1>1. client \in [Fds -> ClientRec] /\ \A f \in Fds : Informed(f)
  BY FullInvByClient DEF FullInv, SessionInv, Types
<1>2. Visible' = Visible
  BY VisibleKept DEF Accept, ClientShutdown
<1>3. CASE Accept
  <2>1. PICK g \in Fds : ~Live(g) /\ client' = [client EXCEPT ![g] = NewClient(accepted + 1)]
    BY <1>3 DEF Accept
  <2>2. /\ client'[g] = NewClient(accepted + 1) /\ UNCHANGED told
        /\ \A f \in Fds : f # g => client'[f] = client[f]
    BY <1>1, <1>3, <2>1 DEF Accept
  <2>3. client'[g].state = "COMMAND" /\ client'[g].ob = 0
    BY <2>2 DEF NewClient, NoClient
  <2>4. client[g].state = "FREE" /\ told'[g] = {}
    BY <1>1, <2>1, <2>2 DEF Live, Informed
  <2>5. Speaks(g)
    BY <2>3, <2>4 DEF Speaks
  <2> QED
    BY <1>2, <2>2, <2>5, OneSpeaks
<1>4. CASE ClientShutdown
  <2>1. \A f \in Fds : client'[f] = NoClient /\ told'[f] = {}
    BY <1>4 DEF ClientShutdown
  <2> QED
    BY <1>2, <2>1 DEF Talks, Speaks, NoClient
<1> QED
  BY <1>3, <1>4

\* Every step.
LEMMA NextTalks ==
    ASSUME FullInv, [Next]_vars
    PROVE  Talks
<1>1. dev \in [DevIds -> DevRec]
  BY DEF FullInv, SessionInv, Types
<1>2. ASSUME UNCHANGED <<client, told>>, Visible' = Visible PROVE Talks
  BY <1>2, EndsShifts DEF Talks, Ends
<1>3. CASE Poll \/ Advance \/ ReadFreedBuffer \/ ConnectTooEarly \/ AppSends \/ AppCloses
           \/ UNCHANGED vars
  <2>1. UNCHANGED <<client, dev, told>>
    BY <1>3 DEF Poll, Advance, ReadFreedBuffer, ConnectTooEarly, AppSends, AppCloses, vars
  <2> QED
    BY <1>2, <2>1, VisibleKept
<1>4. CASE DeviceAdd
  <2>1. Visible' = Visible
    BY <1>1, <1>4 DEF DeviceAdd, Visible, DevRec
  <2> QED
    BY <1>2, <1>4, <2>1 DEF DeviceAdd
<1>5. CASE DeviceRemove \/ UsbShutdown
  BY <1>5, RemovedShifts DEF DeviceRemove, UsbShutdown, Talks
<1>6. CASE CheckTimeouts
  BY <1>6, EndConnectionShifts DEF CheckTimeouts, Talks
<1>7. CASE DeviceVersionInput \/ KillConnections
  BY <1>7, VersionInputShifts, KillShifts DEF Talks
<1> QED
  BY <1>3, <1>4, <1>5, <1>6, <1>7, TcpInputTalks, ClientProcessTalks, ArrivalTalks DEF Next

\* The daemon keeps to the client protocol, with any number of clients, devices
\* and commands, whatever happens between a poll() and the handling of its
\* results: a Connect is answered once, no message gets among the bytes of a
\* device, and listeners hear of every change (client.c, device.c).
THEOREM KeepsProtocol == Spec => ProtocolKept
<1>1. Init => Protocol!ProtocolInit
  <2> SUFFICES ASSUME Init PROVE Protocol!ProtocolInit
    OBVIOUS
  <2>1. \A f \in Fds : client[f].state = "FREE" /\ client[f].ob = 0
    BY DEF Init, NoClient
  <2>2. Phases = [f \in Fds |-> "none"] /\ Queued = [f \in Fds |-> 0]
    BY <2>1 DEF Phases, Phase, Live, Queued
  <2>3. Visible = {} /\ told = [f \in Fds |-> {}]
    BY DEF Init, Visible
  <2> QED
    BY <2>2, <2>3 DEF Protocol!ProtocolInit
<1>2. FullInv /\ FullInv' /\ [Next]_vars => Protocol!ProtocolNext
  BY NextTalks, SpeaksMaps, ShiftsMaps DEF Talks
<1>3. FullInv /\ FullInv' /\ [Next]_vars => [Protocol!ProtocolNext]_(Protocol!protocolVars)
  BY <1>2
<1> QED
  BY <1>1, <1>3, InitFullInv, NextKeepsFullInv, PTL DEF Spec, ProtocolKept, Protocol!ProtocolSpec

=============================================================================
