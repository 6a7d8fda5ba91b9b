--------------------------- MODULE AnnounceProofs ---------------------------
(***************************************************************************)
(* That no cb_data is used after its thread left it, and that listeners    *)
(* know the devices that are there and forget those that left, however     *)
(* the threads interleave: for any number of devices, threads and clients. *)
(***************************************************************************)
EXTENDS Announce, TLAPS

\* Most leaves need no arithmetic: they are left to Zenon, the others to SMT.
USE ZenonT(4), SMTT(30), ZenonT(40)

\* Where a worker is between registering its cb_data and taking it back.
Registered == {"add_lock", "add_visible", "add_send", "add_write", "waiting", "unregister"}

\* The pointer of a device is that of a worker which is waiting, or will wait,
\* for trust, and has not taken it back.
CbDiscipline ==
    \A d \in Devices :
        /\ dev[d].cb => Listed(d) /\ worker[d].trust /\ worker[d].frame
                        /\ worker[d].pc \in Registered
        /\ worker[d].pc = "register" => worker[d].trust /\ worker[d].frame

\* The event loop knows the device it is removing or sending.
MainDevice == main.op \in {"remove", "write"} => main.dev \in Devices

Inv == TypeOK /\ CbDiscipline /\ MainDevice

-----------------------------------------------------------------------------
\* Types of the records, and what a buffer operation makes of a client's.
DevRecord == [state : {"ABSENT", "ACTIVE", "DEAD", "GONE"}, visible : BOOLEAN,
              cb : BOOLEAN, late : BOOLEAN]
WorkerRecord == [pc : WorkerPcs, trust : BOOLEAN, frame : BOOLEAN, np : BOOLEAN,
                 connected : BOOLEAN, finished : BOOLEAN, todo : SUBSET Clients,
                 at : Clients \cup {NoOne}]
ClientRecord == [state : {"COMMAND", "LISTEN", "CLOSED"}, told : SUBSET Devices,
                 pending : BOOLEAN, busy : SUBSET (Devices \cup {Main}), raced : BOOLEAN]
MainRecord == [op : MainOps, dev : Devices \cup {NoOne}, client : Clients \cup {NoOne},
               unread : SUBSET Devices, todo : SUBSET Devices]

\* The operations on a client's output buffer keep its type.
LEMMA BeginTypes ==
    ASSUME NEW k \in ClientRecord, NEW t \in Devices \cup {Main}
    PROVE  Begin(k, t) \in ClientRecord /\ Finish(k, t) \in ClientRecord
  <1>1. Finish(k, t) \in ClientRecord
    BY DEF Finish, ClientRecord
  <1>2. (k.raced \/ k.busy # {}) \in BOOLEAN
    BY DEF ClientRecord
  <1>3. QED
    BY <1>1, <1>2 DEF Begin, ClientRecord

\* So does a message about a device, lost or not.
LEMMA TellTypes ==
    ASSUME NEW k \in ClientRecord, NEW t \in Devices \cup {Main}, NEW d \in Devices
    PROVE  Tell(k, t, d) \subseteq ClientRecord
  <1>1. Finish(k, t) \in ClientRecord
    BY BeginTypes
  <1>2. [Finish(k, t) EXCEPT !.told = @ \cup {d}, !.pending = TRUE] \in ClientRecord
    BY <1>1 DEF ClientRecord
  <1>3. QED
    BY <1>1, <1>2 DEF Tell

\* Fresh and closed clients, and the idle event loop.
LEMMA ConstantTypes == NewClient \in ClientRecord /\ Gone \in ClientRecord /\ Idle \in MainRecord
  BY DEF NewClient, Gone, ClientRecord, Idle, MainRecord, MainOps

-----------------------------------------------------------------------------
\* What the invariant asks of a device and its worker, and the rest of it.
Disciplined(v, w) ==
    /\ v.cb => v.state \in {"ACTIVE", "DEAD"} /\ w.trust /\ w.frame /\ w.pc \in Registered
    /\ w.pc = "register" => w.trust /\ w.frame
Rest == /\ client \in [Clients -> ClientRecord] /\ main \in MainRecord /\ MainDevice
        /\ clMutex \in Devices \cup {NoOne} /\ dlMutex \in {Main, NoOne}

\* The invariant, by component.
LEMMA InvParts ==
    Inv <=> /\ dev \in [Devices -> DevRecord] /\ worker \in [Devices -> WorkerRecord] /\ Rest
            /\ \A d \in Devices : Disciplined(dev[d], worker[d])
  BY DEF Inv, TypeOK, CbDiscipline, MainDevice, Listed, Disciplined, Rest, DevRecord, WorkerRecord,
         ClientRecord, MainRecord

\* The same in the next state.
LEMMA InvPartsPrime ==
    Inv' <=> /\ dev' \in [Devices -> DevRecord] /\ worker' \in [Devices -> WorkerRecord] /\ Rest'
             /\ \A d \in Devices : Disciplined(dev'[d], worker'[d])
  BY DEF Inv, TypeOK, CbDiscipline, MainDevice, Listed, Disciplined, Rest, DevRecord, WorkerRecord,
         ClientRecord, MainRecord

\* A step that changes one device and its worker need only care for those.
LEMMA OneDevice ==
    ASSUME Inv, Rest', NEW d \in Devices, NEW v \in DevRecord, NEW w \in WorkerRecord,
           dev' = [dev EXCEPT ![d] = v], worker' = [worker EXCEPT ![d] = w], Disciplined(v, w)
    PROVE  Inv'
  BY InvParts, InvPartsPrime

\* Steps of one worker that change nothing but its record.
LEMMA OneWorker ==
    ASSUME Inv, Rest', NEW d \in Devices, NEW w \in WorkerRecord,
           dev' = dev, worker' = [worker EXCEPT ![d] = w], Disciplined(dev[d], w)
    PROVE  Inv'
  BY InvParts, InvPartsPrime

\* Steps that leave the devices and the workers alone.
LEMMA NoDevice ==
    ASSUME Inv, Rest', dev' = dev, worker' = worker
    PROVE  Inv'
  BY InvParts, InvPartsPrime

-----------------------------------------------------------------------------
(* The steps of a worker thread, and of its notification client.            *)

\* The record of a worker that is at pc from moves to pc to.
LEMMA WorkerMoves ==
    ASSUME Inv, Rest', NEW d \in Devices, NEW to \in WorkerPcs, dev' = dev,
           worker' = [worker EXCEPT ![d].pc = to],
           dev[d].cb => to \in Registered, to # "register"
    PROVE  Inv'
  <1> DEFINE w == [worker[d] EXCEPT !.pc = to]
  <1>1. w \in WorkerRecord /\ w.pc = to /\ w.trust = worker[d].trust /\ w.frame = worker[d].frame
    BY InvParts DEF WorkerRecord
  <1>2. Disciplined(dev[d], w)
    BY <1>1, InvParts DEF Disciplined
  <1>3. worker' = [worker EXCEPT ![d] = w]
    OBVIOUS
  <1>4. QED
    BY <1>1, <1>2, <1>3, OneWorker

\* No step of a worker, or of its notification client, breaks the invariant.
LEMMA WorkerKeepsInv ==
    ASSUME Inv, NEW d \in Devices, WorkerThread(d) \/ NpLost(d) \/ NpPairs(d)
    PROVE  Inv'
  <1>t. /\ dev \in [Devices -> DevRecord] /\ worker \in [Devices -> WorkerRecord] /\ Rest
        /\ Disciplined(dev[d], worker[d])
    BY InvParts
  <1>1. CASE Preflight(d)
    <2>1. PICK outcome \in {"done", "add_lock", "register"}, np \in BOOLEAN :
            worker' = [worker EXCEPT ![d].pc = outcome, ![d].trust = outcome = "register",
                                     ![d].frame = outcome = "register",
                                     ![d].np = np /\ outcome = "register"]
      BY <1>1 DEF Preflight
    <2>2. PICK t \in BOOLEAN, n \in BOOLEAN :
            /\ t = (outcome = "register")
            /\ n = (np /\ outcome = "register")
      OBVIOUS
    <2> DEFINE w == [worker[d] EXCEPT !.pc = outcome, !.trust = t, !.frame = t, !.np = n]
    <2>3. w \in WorkerRecord /\ w.pc = outcome /\ w.trust = t /\ w.frame = t
      BY <1>t DEF WorkerRecord, WorkerPcs
    <2>4. worker' = [worker EXCEPT ![d] = w]
      BY <2>1, <2>2
    <2>5. ~dev[d].cb
      BY <1>1, <1>t DEF Disciplined, Preflight, Registered
    <2>6. Disciplined(dev[d], w)
      BY <2>2, <2>3, <2>5 DEF Disciplined
    <2>7. QED
      BY <1>1, <1>t, <2>3, <2>4, <2>6, OneWorker DEF Preflight, Rest, MainDevice
  <1>2. CASE Register(d)
    <2> DEFINE v == [dev[d] EXCEPT !.cb = Listed(d)]
               w == [worker[d] EXCEPT !.pc = "add_lock"]
    <2>1. Listed(d) \in BOOLEAN
      BY DEF Listed
    <2>2. v \in DevRecord /\ w \in WorkerRecord
      <3>1. v \in DevRecord
        BY <1>t, <2>1 DEF DevRecord
      <3>2. w \in WorkerRecord
        BY <1>t DEF WorkerRecord, WorkerPcs
      <3>3. QED
        BY <3>1, <3>2
    <2>3. Disciplined(v, w)
      BY <1>2, <1>t DEF Disciplined, Register, WorkerStep, Registered, Listed, DevRecord,
                        WorkerRecord
    <2>4. QED
      BY <1>2, <1>t, <2>2, <2>3, OneDevice DEF Register, WorkerStep, Rest, MainDevice
  <1>3. CASE AddLock(d)
    BY <1>3, <1>t, WorkerMoves DEF AddLock, WorkerStep, Rest, MainDevice, WorkerPcs, Registered
  <1>4. CASE AddVisible(d)
    <2> DEFINE v == [dev[d] EXCEPT !.visible = Listed(d)]
               w == [worker[d] EXCEPT !.pc = "add_send", !.todo = Clients]
    <2>1. Listed(d) \in BOOLEAN
      BY DEF Listed
    <2>2. v \in DevRecord /\ w \in WorkerRecord
      <3>1. v \in DevRecord
        BY <1>t, <2>1 DEF DevRecord
      <3>2. w \in WorkerRecord
        BY <1>t DEF WorkerRecord, WorkerPcs
      <3>3. QED
        BY <3>1, <3>2
    <2>3. Disciplined(v, w)
      BY <1>t DEF Disciplined, Registered, DevRecord, WorkerRecord
    <2>4. QED
      BY <1>4, <1>t, <2>2, <2>3, OneDevice DEF AddVisible, Rest, MainDevice
  <1>5. CASE AddSend(d)
    <2>1. PICK c \in worker[d].todo :
            \/ /\ client' = [client EXCEPT ![c] = Begin(@, d)]
               /\ worker' = [worker EXCEPT ![d].pc = "add_write", ![d].at = c]
            \/ /\ worker' = [worker EXCEPT ![d].todo = @ \ {c}]
               /\ UNCHANGED client
      BY <1>5 DEF AddSend
    <2>2. c \in Clients
      BY <1>t DEF WorkerRecord
    <2>3. Rest'
      <3>1. Begin(client[c], d) \in ClientRecord
        BY <1>t, <2>2, BeginTypes DEF Rest
      <3>2. QED
        BY <1>5, <1>t, <2>1, <2>2, <3>1 DEF AddSend, Rest, MainDevice
    <2> DEFINE w == [worker[d] EXCEPT !.pc = "add_write", !.at = c]
               u == [worker[d] EXCEPT !.todo = @ \ {c}]
    <2>4. w \in WorkerRecord /\ u \in WorkerRecord
      BY <1>t, <2>2 DEF WorkerRecord, WorkerPcs
    <2>5. Disciplined(dev[d], w) /\ Disciplined(dev[d], u)
      BY <1>t DEF Disciplined, Registered, WorkerRecord
    <2>6. worker' = [worker EXCEPT ![d] = w] \/ worker' = [worker EXCEPT ![d] = u]
      BY <2>1
    <2>7. QED
      BY <1>5, <2>3, <2>4, <2>5, <2>6, OneWorker DEF AddSend
  <1>6. CASE AddWrite(d)
    <2>1. worker[d].at \in Clients => client[worker[d].at] \in ClientRecord
      BY <1>t DEF Rest
    <2>2. client' \in [Clients -> ClientRecord]
      <3>1. PICK k \in Tell(client[worker[d].at], d, d) :
                client' = [client EXCEPT ![worker[d].at] = k]
        BY <1>6 DEF AddWrite
      <3>2. worker[d].at \in Clients => k \in ClientRecord
        BY <2>1, <3>1, TellTypes
      <3>3. QED
        BY <1>t, <3>1, <3>2 DEF Rest
    <2>3. Rest'
      BY <1>6, <1>t, <2>2 DEF AddWrite, Rest, MainDevice
    <2> DEFINE w == [worker[d] EXCEPT !.pc = "add_send", !.todo = @ \ {worker[d].at}]
    <2>4. w \in WorkerRecord
      BY <1>t DEF WorkerRecord, WorkerPcs
    <2>5. Disciplined(dev[d], w)
      BY <1>t DEF Disciplined, Registered, WorkerRecord
    <2>6. QED
      BY <1>6, <2>3, <2>4, <2>5, OneWorker DEF AddWrite
  <1>7. CASE AddUnlock(d)
    <2>1. dev[d].cb => worker[d].trust
      BY <1>t DEF Disciplined
    <2>2. QED
      BY <1>7, <1>t, <2>1, WorkerMoves DEF AddUnlock, Rest, MainDevice, WorkerPcs, Registered
  <1>8. CASE Wait(d)
    BY <1>8, <1>t, WorkerMoves DEF Wait, WorkerStep, Rest, MainDevice, WorkerPcs, Registered
  <1>9. CASE Unregister(d)
    <2> DEFINE v == [dev[d] EXCEPT !.cb = FALSE]
               w == [worker[d] EXCEPT !.pc = "done", !.frame = FALSE]
    <2>1. v \in DevRecord /\ w \in WorkerRecord /\ ~v.cb /\ w.pc = "done"
      <3>1. v \in DevRecord /\ ~v.cb
        BY <1>t DEF DevRecord
      <3>2. w \in WorkerRecord /\ w.pc = "done"
        BY <1>t DEF WorkerRecord, WorkerPcs
      <3>3. QED
        BY <3>1, <3>2
    <2>2. Disciplined(v, w)
      BY <2>1 DEF Disciplined
    <2>3. QED
      BY <1>9, <1>t, <2>1, <2>2, OneDevice DEF Unregister, Rest, MainDevice
  <1>10. CASE NpLost(d) \/ NpPairs(d)
    <2> DEFINE w == [worker[d] EXCEPT !.np = FALSE]
               u == [worker[d] EXCEPT !.finished = TRUE]
    <2>1. w \in WorkerRecord /\ u \in WorkerRecord
      BY <1>t DEF WorkerRecord
    <2>2. Disciplined(dev[d], w) /\ Disciplined(dev[d], u)
      BY <1>t DEF Disciplined, WorkerRecord
    <2>3. QED
      BY <1>10, <1>t, <2>1, <2>2, OneWorker DEF NpLost, NpPairs, Rest, MainDevice
  <1>11. QED
    BY <1>1, <1>2, <1>3, <1>4, <1>5, <1>6, <1>7, <1>8, <1>9, <1>10 DEF WorkerThread

-----------------------------------------------------------------------------
(* The steps of the event loop.                                             *)

\* Attaching and removing a device keep the invariant.
LEMMA DevicesKeepInv ==
    ASSUME Inv, Attach \/ AttachVisible \/ RemoveLock \/ RemoveFinish
    PROVE  Inv'
  <1>t. /\ dev \in [Devices -> DevRecord] /\ worker \in [Devices -> WorkerRecord] /\ Rest
        /\ \A d \in Devices : Disciplined(dev[d], worker[d])
    BY InvParts
  <1>1. CASE Attach
    <2>1. PICK d \in Devices : /\ dev[d].state = "ABSENT"
                               /\ dev' = [dev EXCEPT ![d].state = "ACTIVE"]
                               /\ worker' = [worker EXCEPT ![d].pc = "preflight"]
      BY <1>1 DEF Attach
    <2> DEFINE v == [dev[d] EXCEPT !.state = "ACTIVE"]
               w == [worker[d] EXCEPT !.pc = "preflight"]
    <2>2. v \in DevRecord /\ v.cb = dev[d].cb /\ w \in WorkerRecord /\ w.pc = "preflight"
      <3>1. v \in DevRecord /\ v.cb = dev[d].cb
        BY <1>t DEF DevRecord
      <3>2. w \in WorkerRecord /\ w.pc = "preflight"
        BY <1>t DEF WorkerRecord, WorkerPcs
      <3>3. QED
        BY <3>1, <3>2
    <2>3. Disciplined(v, w)
      BY <1>t, <2>1, <2>2 DEF Disciplined
    <2>4. QED
      BY <1>1, <1>t, <2>1, <2>2, <2>3, OneDevice DEF Attach, Rest, MainDevice
  <1>2. CASE AttachVisible
    <2>1. PICK d \in Devices : /\ dev[d].state = "ABSENT"
                               /\ dev' = [dev EXCEPT ![d].state = "ACTIVE", ![d].visible = TRUE]
                               /\ worker' = [worker EXCEPT ![d].pc = "done"]
                               /\ client' = [c \in Clients |->
                                     IF Listening(c)
                                     THEN [client[c] EXCEPT !.told = @ \cup {d}, !.pending = TRUE]
                                     ELSE client[c]]
      BY <1>2 DEF AttachVisible
    <2>2. client' \in [Clients -> ClientRecord]
      <3>1. ASSUME NEW c \in Clients
            PROVE  /\ client[c] \in ClientRecord
                   /\ [client[c] EXCEPT !.told = @ \cup {d}, !.pending = TRUE] \in ClientRecord
        <4>1. client[c] \in ClientRecord
          BY <1>t DEF Rest
        <4>2. QED
          BY <4>1 DEF ClientRecord
      <3>2. QED
        BY <2>1, <3>1
    <2> DEFINE v == [dev[d] EXCEPT !.state = "ACTIVE", !.visible = TRUE]
               w == [worker[d] EXCEPT !.pc = "done"]
    <2>3. v \in DevRecord /\ v.cb = dev[d].cb /\ w \in WorkerRecord /\ w.pc = "done"
      <3>1. v \in DevRecord /\ v.cb = dev[d].cb
        BY <1>t DEF DevRecord
      <3>2. w \in WorkerRecord /\ w.pc = "done"
        BY <1>t DEF WorkerRecord, WorkerPcs
      <3>3. QED
        BY <3>1, <3>2
    <2>4. Disciplined(v, w)
      BY <1>t, <2>1, <2>3 DEF Disciplined
    <2>5. Rest'
      BY <1>2, <1>t, <2>2 DEF AttachVisible, Rest, MainDevice
    <2>6. dev' = [dev EXCEPT ![d] = v] /\ worker' = [worker EXCEPT ![d] = w]
      BY <2>1
    <2>7. QED
      BY <2>3, <2>4, <2>5, <2>6, OneDevice
  <1>3. CASE RemoveLock
    <2>1. PICK d \in Devices : /\ dev[d].state = "ACTIVE" /\ Does("remove", d, NoOne)
                               /\ dev' = [dev EXCEPT ![d].state = "DEAD"]
      BY <1>3 DEF RemoveLock
    <2>2. main' \in MainRecord /\ main'.dev = d
      BY <2>1 DEF Does, Idle, MainRecord, MainOps
    <2> DEFINE v == [dev[d] EXCEPT !.state = "DEAD"]
    <2>3. v \in DevRecord /\ v.cb = dev[d].cb /\ v.state = "DEAD"
      BY <1>t DEF DevRecord
    <2>4. Disciplined(v, worker[d])
      BY <1>t, <2>3 DEF Disciplined
    <2>5. worker' = [worker EXCEPT ![d] = worker[d]] /\ worker[d] \in WorkerRecord
      BY <1>3, <1>t DEF RemoveLock
    <2>6. Rest'
      BY <1>3, <1>t, <2>2 DEF RemoveLock, Rest, MainDevice
    <2>7. dev' = [dev EXCEPT ![d] = v]
      BY <2>1
    <2>8. QED
      BY <2>3, <2>4, <2>5, <2>6, <2>7, OneDevice
  <1>4. CASE RemoveFinish
    <2> DEFINE d == main.dev
               v == [state |-> "GONE", visible |-> FALSE, cb |-> FALSE,
                     late |-> worker[d].pc \in BeforeAdded]
               w == [worker[d] EXCEPT !.connected = @ /\ ~dev[d].cb]
    <2>1. d \in Devices
      BY <1>4, <1>t DEF RemoveFinish, Rest, MainDevice
    <2>2. client' \in [Clients -> ClientRecord]
      <3>1. \A c \in Clients : [client[c] EXCEPT !.told = @ \ {d}, !.pending = TRUE] \in ClientRecord
        BY <1>t DEF Rest, ClientRecord
      <3>2. QED
        BY <1>4, <1>t, <3>1 DEF RemoveFinish, Rest
    <2>3. Rest'
      BY <1>4, <1>t, <2>2, ConstantTypes DEF RemoveFinish, Rest, MainDevice, Idle
    <2>4. v \in DevRecord /\ ~v.cb
      <3>1. (worker[d].pc \in BeforeAdded) \in BOOLEAN
        OBVIOUS
      <3>2. QED
        BY <3>1 DEF DevRecord
    <2>5. w \in WorkerRecord /\ w.pc = worker[d].pc /\ w.trust = worker[d].trust
          /\ w.frame = worker[d].frame
      <3>1. (worker[d].connected /\ ~dev[d].cb) \in BOOLEAN
        BY <1>t, <2>1 DEF WorkerRecord
      <3>2. PICK b \in BOOLEAN : b = (worker[d].connected /\ ~dev[d].cb)
        BY <3>1
      <3>3. worker[d] \in WorkerRecord /\ w = [worker[d] EXCEPT !.connected = b]
        BY <1>t, <2>1, <3>2
      <3>4. QED
        BY <3>3 DEF WorkerRecord
    <2>6. Disciplined(v, w)
      BY <1>t, <2>1, <2>4, <2>5 DEF Disciplined
    <2>7. dev' = [dev EXCEPT ![d] = v] /\ worker' = [worker EXCEPT ![d] = w]
      BY <1>4 DEF RemoveFinish
    <2>8. QED
      BY <2>1, <2>3, <2>4, <2>5, <2>6, <2>7, OneDevice
  <1>5. QED
    BY <1>1, <1>2, <1>3, <1>4

\* Serving the listeners touches neither devices nor workers, and keeps the types.
LEMMA ListenersKeepInv ==
    ASSUME Inv,
           Listen \/ ListCopy \/ ListRead \/ ListSend \/ ListWrite \/ FlushBegin \/ FlushEnd
           \/ FlushFail \/ CheckTimeouts \/ CheckTimeoutsClose \/ Close
    PROVE  Inv'
  <1>t. Rest
    BY InvParts
  <1>b. Main \in Devices \cup {Main}
    OBVIOUS
  <1>m. main.unread \in SUBSET Devices /\ main.todo \in SUBSET Devices
    BY <1>t DEF Rest, MainRecord
  <1>s. UNCHANGED <<dev, worker>>
    BY DEF Listen, ListCopy, ListRead, ListSend, ListWrite, FlushBegin, FlushEnd, FlushFail,
           CheckTimeouts, CheckTimeoutsClose, Close
  <1>1. CASE Listen
    <2>1. client' \in [Clients -> ClientRecord]
      BY <1>1, <1>t DEF Listen, Rest, ClientRecord
    <2>2. main' \in MainRecord /\ main'.op = "list"
      BY <1>1 DEF Listen, Does, Idle, MainRecord, MainOps
    <2>3. Rest'
      BY <1>1, <1>t, <2>1, <2>2 DEF Listen, Rest, MainDevice
    <2>4. QED
      BY <1>s, <2>3, NoDevice
  <1>2. CASE ListCopy
    <2>1. main' \in MainRecord /\ main'.op = "read"
      BY <1>2, <1>t DEF ListCopy, Rest, MainRecord, MainOps
    <2>2. Rest'
      BY <1>2, <1>t, <2>1 DEF ListCopy, Rest, MainDevice
    <2>3. QED
      BY <1>s, <2>2, NoDevice
  <1>3. CASE ListRead
    <2>1. PICK d \in main.unread, todo \in SUBSET Devices :
            main' = [main EXCEPT !.unread = @ \ {d}, !.todo = todo]
      BY <1>3, <1>m DEF ListRead
    <2>2. main' \in MainRecord /\ main'.op = "read"
      BY <1>3, <1>t, <2>1 DEF ListRead, Rest, MainRecord
    <2>3. Rest'
      BY <1>3, <1>t, <2>2 DEF ListRead, Rest, MainDevice
    <2>4. QED
      BY <1>s, <2>3, NoDevice
  <1>4. CASE ListSend
    <2>1. CASE main' = Idle /\ UNCHANGED client
      <3>1. Rest'
        BY <1>4, <1>t, <2>1, ConstantTypes DEF ListSend, Rest, MainDevice, Idle
      <3>2. QED
        BY <1>s, <3>1, NoDevice
    <2>2. CASE \E d \in main.todo :
                 /\ client' = [client EXCEPT ![main.client] = Begin(@, Main)]
                 /\ main' = [main EXCEPT !.op = "write", !.dev = d, !.todo = @ \ {d}]
      <3>1. client' \in [Clients -> ClientRecord]
        <4>1. main.client \in Clients => Begin(client[main.client], Main) \in ClientRecord
          BY <1>b, <1>t, BeginTypes DEF Rest
        <4>2. QED
          BY <1>t, <2>2, <4>1 DEF Rest
      <3>2. main' \in MainRecord /\ main'.dev \in Devices
        <4>1. PICK d \in main.todo : main' = [main EXCEPT !.op = "write", !.dev = d, !.todo = @ \ {d}]
          BY <2>2
        <4>2. main \in MainRecord /\ d \in Devices /\ main.todo \ {d} \in SUBSET Devices
          BY <1>m, <1>t DEF Rest
        <4>3. QED
          BY <4>1, <4>2 DEF MainRecord, MainOps
      <3>3. Rest'
        BY <1>4, <1>t, <3>1, <3>2 DEF ListSend, Rest, MainDevice
      <3>4. QED
        BY <1>s, <3>3, NoDevice
    <2>3. QED
      BY <1>4, <2>1, <2>2 DEF ListSend
  <1>5. CASE ListWrite
    <2>1. PICK k \in Tell(client[main.client], Main, main.dev) :
            client' = [client EXCEPT ![main.client] = k]
      BY <1>5 DEF ListWrite
    <2>2. main.dev \in Devices
      BY <1>5, <1>t DEF ListWrite, Rest, MainDevice
    <2>3. main.client \in Clients => k \in ClientRecord
      BY <1>b, <1>t, <2>1, <2>2, TellTypes DEF Rest
    <2>4. client' \in [Clients -> ClientRecord]
      BY <1>t, <2>1, <2>3 DEF Rest
    <2>5. main' \in MainRecord /\ main'.op = "send"
      BY <1>5, <1>t DEF ListWrite, Rest, MainRecord, MainOps
    <2>6. Rest'
      BY <1>5, <1>t, <2>4, <2>5 DEF ListWrite, Rest, MainDevice
    <2>7. QED
      BY <1>s, <2>6, NoDevice
  <1>6. CASE FlushBegin
    <2>1. client' \in [Clients -> ClientRecord]
      BY <1>6, <1>b, <1>t, BeginTypes DEF FlushBegin, Rest
    <2>2. main' \in MainRecord /\ main'.op = "flush"
      BY <1>6 DEF FlushBegin, Does, Idle, MainRecord, MainOps
    <2>3. Rest'
      BY <1>6, <1>t, <2>1, <2>2 DEF FlushBegin, Rest, MainDevice
    <2>4. QED
      BY <1>s, <2>3, NoDevice
  <1>7. CASE FlushEnd
    <2>1. PICK left \in BOOLEAN :
            client' = [client EXCEPT ![main.client] = [Finish(@, Main) EXCEPT !.pending = left]]
      BY <1>7 DEF FlushEnd
    <2>2. main.client \in Clients => Finish(client[main.client], Main) \in ClientRecord
      BY <1>t DEF Rest, Finish, ClientRecord
    <2>3. main.client \in Clients
          => [Finish(client[main.client], Main) EXCEPT !.pending = left] \in ClientRecord
      BY <2>2 DEF ClientRecord
    <2>4. client' \in [Clients -> ClientRecord]
      BY <1>t, <2>1, <2>3 DEF Rest
    <2>5. Rest'
      BY <1>7, <1>t, <2>4, ConstantTypes DEF FlushEnd, Rest, MainDevice, Idle
    <2>6. QED
      BY <1>s, <2>5, NoDevice
  <1>8. CASE FlushFail
    <2>1. Rest'
      BY <1>8, <1>t, ConstantTypes DEF FlushFail, Rest, MainDevice, Idle
    <2>2. QED
      BY <1>s, <2>1, NoDevice
  <1>9. CASE CheckTimeouts
    <2>1. main' \in MainRecord /\ main'.op = "timeouts"
      BY <1>9 DEF CheckTimeouts, Does, Idle, MainRecord, MainOps
    <2>2. Rest'
      BY <1>9, <1>t, <2>1 DEF CheckTimeouts, Rest, MainDevice
    <2>3. QED
      BY <1>s, <2>2, NoDevice
  <1>10. CASE CheckTimeoutsClose \/ Close
    <2>1. Rest'
      BY <1>10, <1>t, ConstantTypes DEF CheckTimeoutsClose, Close, Rest, MainDevice, Idle
    <2>2. QED
      BY <1>s, <2>1, NoDevice
  <1>11. QED
    BY <1>1, <1>2, <1>3, <1>4, <1>5, <1>6, <1>7, <1>8, <1>9, <1>10

-----------------------------------------------------------------------------
\* Initially there are no devices, and the threads are idle.
LEMMA InvInit == Init => Inv
  <1> SUFFICES ASSUME Init PROVE Inv
    OBVIOUS
  <1>1. Rest
    BY ConstantTypes DEF Init, Rest, MainDevice, Idle
  <1>2. dev \in [Devices -> DevRecord] /\ worker \in [Devices -> WorkerRecord]
    BY DEF Init, DevRecord, WorkerRecord, WorkerPcs
  <1>3. \A d \in Devices : Disciplined(dev[d], worker[d])
    BY DEF Init, Disciplined
  <1>4. QED
    BY <1>1, <1>2, <1>3, InvParts

\* Every step of every thread keeps the invariant.
LEMMA InvNext == Inv /\ [Next]_vars => Inv'
  <1>1. ASSUME Inv, UNCHANGED vars PROVE Inv'
    BY <1>1, InvParts, NoDevice DEF vars, Rest, MainDevice
  <1>2. ASSUME Inv, Next PROVE Inv'
    BY <1>2, WorkerKeepsInv, DevicesKeepInv, ListenersKeepInv DEF Next, MainThread
  <1>3. QED
    BY <1>1, <1>2

\* The event loop never writes to a dead cb_data, whatever the number of
\* devices and clients: while device_set_preflight_cb_data's pointer is
\* registered, the worker's frame is live.
THEOREM CbDataStaysAlive == Spec => [](TypeOK /\ CbDataAlive)
  <1>1. Inv => TypeOK /\ CbDataAlive
    BY DEF Inv, CbDiscipline, CbDataAlive
  <1>2. QED
    BY <1>1, InvInit, InvNext, PTL DEF Spec

-----------------------------------------------------------------------------
(* What listeners know.                                                     *)

\* A worker is in client_device_add, and writing to a listener, only while it
\* owns client_list_mutex.
Adding == {"add_visible", "add_send", "add_write"}
Holds(d) ==
    /\ worker[d].pc \in Adding => clMutex = d
    /\ worker[d].pc = "add_write" => worker[d].at \in Clients /\ Listening(worker[d].at)

\* The client that the event loop serves is a listener.
Serving == {"list", "read", "send", "write", "flush"}
Serves == main.op \in Serving => main.client \in Clients /\ Listening(main.client)

\* The event loop is going to tell client c of device d, or to find out whether
\* it has to.
WillTell(c, d) ==
    /\ main.client = c
    /\ \/ main.op = "list"
       \/ main.op \in {"read", "send", "write"} /\ d \in main.unread \cup main.todo
       \/ main.op = "write" /\ main.dev = d

\* A listener knows every visible device, or its worker or the event loop is
\* going to tell it.
News(c, d) ==
    Listening(c) /\ ~client[c].raced /\ dev[d].state = "ACTIVE" /\ dev[d].visible =>
        \/ d \in client[c].told
        \/ worker[d].pc \in {"add_send", "add_write"} /\ c \in worker[d].todo
        \/ WillTell(c, d)

\* A device that left after it was announced is known to no client, and nobody
\* is going to tell of it.
Past(c, d) ==
    dev[d].state = "GONE" /\ ~dev[d].late => d \notin client[c].told /\ worker[d].pc \notin BeforeAdded

\* Only listeners are told anything, only devices that are there are listed,
\* and no device is visible before it is attached.
Silent(c) == ~Listening(c) => client[c].told = {}
Current(d) ==
    /\ dev[d].state = "GONE" => d \notin main.todo /\ ~(main.op = "write" /\ main.dev = d)
    /\ dev[d].state = "ABSENT" => ~dev[d].visible

Story ==
    /\ Serves
    /\ \A c \in Clients : Silent(c)
    /\ \A d \in Devices : Holds(d) /\ Current(d)
    /\ \A c \in Clients, d \in Devices : News(c, d) /\ Past(c, d)

\* What the types say of the records.
Typed ==
    /\ dev \in [Devices -> DevRecord] /\ worker \in [Devices -> WorkerRecord]
    /\ client \in [Clients -> ClientRecord] /\ main \in MainRecord
    /\ clMutex \in Devices \cup {NoOne}

\* They follow from the invariant.
LEMMA InvTyped == Inv => Typed
  BY InvParts DEF Typed, Rest

\* A step of a worker outside client_device_add, which tells nobody anything.
LEMMA QuietStory ==
    ASSUME Story, UNCHANGED <<client, main, clMutex>>,
           \A d \in Devices :
              /\ dev'[d].state = dev[d].state /\ dev'[d].late = dev[d].late
              /\ dev'[d].visible = dev[d].visible
              /\ \/ worker'[d] = worker[d]
                 \/ worker'[d].pc = worker[d].pc /\ worker'[d].todo = worker[d].todo
                    /\ worker'[d].at = worker[d].at
                 \/ /\ worker[d].pc \notin Adding /\ worker'[d].pc \notin Adding
                    /\ worker'[d].pc \in BeforeAdded => worker[d].pc \in BeforeAdded
    PROVE  Story'
  <1>1. Serves' /\ \A c \in Clients : Silent(c)'
    BY DEF Story, Serves, Silent, Listening
  <1>2. ASSUME NEW d \in Devices PROVE Holds(d)' /\ Current(d)'
    BY <1>2 DEF Story, Holds, Current, Listening, Adding
  <1>3. ASSUME NEW c \in Clients, NEW d \in Devices PROVE News(c, d)' /\ Past(c, d)'
    BY <1>3 DEF Story, News, Past, WillTell, Listening, Adding
  <1>4. QED
    BY <1>1, <1>2, <1>3 DEF Story

\* The steps of a worker outside client_device_add keep the story.
LEMMA WorkerQuiet ==
    ASSUME Inv, Story, NEW e \in Devices,
           Preflight(e) \/ Register(e) \/ Wait(e) \/ Unregister(e) \/ NpLost(e) \/ NpPairs(e)
    PROVE  Story'
  <1>t. Typed
    BY InvTyped
  <1>s. UNCHANGED <<client, main, clMutex>>
    BY DEF Preflight, Register, Wait, Unregister, NpLost, NpPairs
  <1>d. \A d \in Devices : /\ dev'[d].state = dev[d].state /\ dev'[d].late = dev[d].late
                           /\ dev'[d].visible = dev[d].visible
    BY <1>t DEF Preflight, Register, Wait, Unregister, NpLost, NpPairs, Typed, DevRecord
  <1>1. CASE Preflight(e)
    <2>1. PICK outcome \in {"done", "add_lock", "register"}, np \in BOOLEAN :
            worker' = [worker EXCEPT ![e].pc = outcome, ![e].trust = outcome = "register",
                                     ![e].frame = outcome = "register",
                                     ![e].np = np /\ outcome = "register"]
      BY <1>1 DEF Preflight
    <2>2. worker[e].pc = "preflight" /\ worker'[e].pc = outcome
      <3>1. PICK t \in BOOLEAN, n \in BOOLEAN :
              t = (outcome = "register") /\ n = (np /\ outcome = "register")
        OBVIOUS
      <3> DEFINE w == [worker[e] EXCEPT !.pc = outcome, !.trust = t, !.frame = t, !.np = n]
      <3>2. w.pc = outcome
        BY <1>t DEF Typed, WorkerRecord
      <3>3. worker' = [worker EXCEPT ![e] = w]
        BY <2>1, <3>1
      <3> HIDE DEF w
      <3>4. QED
        BY <1>1, <1>t, <3>2, <3>3 DEF Preflight, Typed
    <2>3. \A d \in Devices : d # e => worker'[d] = worker[d]
      BY <1>t, <2>1 DEF Typed
    <2>4. QED
      BY <1>s, <1>d, <2>2, <2>3, QuietStory DEF Adding, BeforeAdded
  <1>2. CASE Register(e) \/ Wait(e) \/ Unregister(e)
    <2>1. \A d \in Devices : d # e => worker'[d] = worker[d]
      BY <1>2, <1>t DEF Register, Wait, Unregister, WorkerStep, Typed
    <2>2. \/ worker[e].pc = "register" /\ worker'[e].pc = "add_lock"
          \/ worker[e].pc \in {"waiting", "unregister"} /\ worker'[e].pc \in {"unregister", "done"}
      BY <1>2, <1>t DEF Register, Wait, Unregister, WorkerStep, Typed, WorkerRecord
    <2>3. QED
      BY <1>s, <1>d, <2>1, <2>2, QuietStory DEF Adding, BeforeAdded
  <1>3. CASE NpLost(e) \/ NpPairs(e)
    <2>1. \A d \in Devices : /\ worker'[d].pc = worker[d].pc /\ worker'[d].todo = worker[d].todo
                             /\ worker'[d].at = worker[d].at
      BY <1>3, <1>t DEF NpLost, NpPairs, Typed, WorkerRecord
    <2>2. QED
      BY <1>s, <1>d, <2>1, QuietStory
  <1>4. QED
    BY <1>1, <1>2, <1>3

\* client_device_add by a worker.  Only the owner of client_list_mutex is in it,
\* so no other worker is, and no device leaves meanwhile.
LEMMA AddStory ==
    ASSUME Inv, Story, NEW e \in Devices,
           AddLock(e) \/ AddVisible(e) \/ AddUnlock(e)
    PROVE  Story'
  <1>t. Typed
    BY InvTyped
  <1>s. UNCHANGED <<client, main>>
    BY DEF AddLock, AddVisible, AddUnlock
  <1>o. \A d \in Devices : d # e => worker'[d] = worker[d] /\ dev'[d] = dev[d]
    BY <1>t DEF AddLock, AddVisible, AddUnlock, WorkerStep, Typed
  <1>d. dev'[e].state = dev[e].state /\ dev'[e].late = dev[e].late
    BY <1>t DEF AddLock, AddVisible, AddUnlock, WorkerStep, Typed, DevRecord
  <1>0. Serves' /\ \A c \in Clients : Silent(c)'
    BY <1>s DEF Story, Serves, Silent, Listening
  <1>n. NoOne \notin Devices
    BY ThreadsAssumption
  <1>1. CASE AddLock(e)
    <2>1. /\ clMutex = NoOne /\ clMutex' = e /\ dev' = dev /\ worker[e].pc = "add_lock"
          /\ worker'[e].pc = "add_visible" /\ worker'[e].at = worker[e].at
      BY <1>1, <1>t DEF AddLock, WorkerStep, Typed, WorkerRecord
    <2>2. ASSUME NEW d \in Devices PROVE Holds(d)' /\ Current(d)'
      BY <1>s, <1>o, <1>n, <2>1, <2>2 DEF Story, Holds, Current, Listening, Adding
    <2>3. ASSUME NEW c \in Clients, NEW d \in Devices PROVE News(c, d)' /\ Past(c, d)'
      BY <1>s, <1>o, <2>1, <2>3 DEF Story, News, Past, WillTell, Listening, BeforeAdded
    <2>4. QED
      BY <1>0, <2>2, <2>3 DEF Story
  <1>2. CASE AddVisible(e)
    <2>1. /\ clMutex' = clMutex /\ worker[e].pc = "add_visible" /\ worker'[e].pc = "add_send"
          /\ worker'[e].todo = Clients
      BY <1>2, <1>t DEF AddVisible, Typed, WorkerRecord
    <2>2. dev[e].state = "ABSENT" => ~dev'[e].visible
      BY <1>2, <1>t DEF AddVisible, Listed, Typed, DevRecord
    <2>3. ASSUME NEW d \in Devices PROVE Holds(d)' /\ Current(d)'
      BY <1>s, <1>o, <1>d, <2>1, <2>2, <2>3 DEF Story, Holds, Current, Listening, Adding
    <2>4. ASSUME NEW c \in Clients, NEW d \in Devices PROVE News(c, d)' /\ Past(c, d)'
      BY <1>s, <1>o, <1>d, <2>1, <2>4 DEF Story, News, Past, WillTell, Listening, BeforeAdded
    <2>5. QED
      BY <1>0, <2>3, <2>4 DEF Story
  <1>3. CASE AddUnlock(e)
    <2>1. /\ worker[e].pc = "add_send" /\ worker[e].todo = {} /\ dev' = dev /\ clMutex' = NoOne
          /\ worker'[e].pc \in {"waiting", "done"}
      BY <1>3, <1>t DEF AddUnlock, Typed, WorkerRecord
    <2>2. clMutex = e
      BY <2>1 DEF Story, Holds, Adding
    <2>3. ASSUME NEW d \in Devices PROVE Holds(d)' /\ Current(d)'
      BY <1>s, <1>o, <2>1, <2>2, <2>3 DEF Story, Holds, Current, Listening, Adding
    <2>4. ASSUME NEW c \in Clients, NEW d \in Devices PROVE News(c, d)' /\ Past(c, d)'
      BY <1>s, <1>o, <2>1, <2>4 DEF Story, News, Past, WillTell, Listening, BeforeAdded
    <2>5. QED
      BY <1>0, <2>3, <2>4 DEF Story
  <1>4. QED
    BY <1>1, <1>2, <1>3

\* A buffer operation that begins forgets nothing.
LEMMA BeginTold ==
    ASSUME NEW k \in ClientRecord, NEW t \in Devices \cup {Main}
    PROVE  /\ Begin(k, t).state = k.state /\ Begin(k, t).told = k.told
           /\ ~Begin(k, t).raced => ~k.raced
  <1>1. PICK b \in BOOLEAN : b = (k.raced \/ k.busy # {})
    BY DEF ClientRecord
  <1>2. Begin(k, t) = [k EXCEPT !.busy = @ \cup {t}, !.raced = b]
    BY <1>1 DEF Begin
  <1>3. /\ Begin(k, t).state = k.state /\ Begin(k, t).told = k.told /\ Begin(k, t).raced = b
    BY <1>2 DEF ClientRecord
  <1>4. QED
    BY <1>1, <1>3

\* A message is told, or was lost in a race.
LEMMA TellTold ==
    ASSUME NEW k \in ClientRecord, NEW t \in Devices \cup {Main}, NEW d \in Devices,
           NEW n \in Tell(k, t, d)
    PROVE  /\ n.state = k.state /\ n.raced = k.raced
           /\ n.told = k.told \cup {d} \/ (k.raced /\ n.told = k.told)
  <1> DEFINE f == Finish(k, t)
             g == [f EXCEPT !.told = @ \cup {d}, !.pending = TRUE]
  <1>1. f \in ClientRecord /\ f.state = k.state /\ f.raced = k.raced /\ f.told = k.told
    BY DEF Finish, ClientRecord
  <1> HIDE DEF f
  <1>2. g.state = k.state /\ g.raced = k.raced /\ g.told = k.told \cup {d}
    BY <1>1 DEF ClientRecord
  <1>3. n = g \/ (k.raced /\ n = f)
    BY DEF Tell, f
  <1> HIDE DEF g
  <1>4. QED
    BY <1>1, <1>2, <1>3

\* A worker's messages: a client is taken off its list when it was told, or
\* when it is not a listener.
LEMMA AddSendStory ==
    ASSUME Inv, Story, NEW e \in Devices, AddSend(e)
    PROVE  Story'
  <1>t. Typed
    BY InvTyped
  <1>s. UNCHANGED <<clMutex, dev, main>> /\ worker[e].pc = "add_send"
    BY DEF AddSend
  <1>1. PICK c \in worker[e].todo :
          \/ /\ Listening(c)
             /\ client' = [client EXCEPT ![c] = Begin(@, e)]
             /\ worker' = [worker EXCEPT ![e].pc = "add_write", ![e].at = c]
          \/ /\ ~Listening(c)
             /\ worker' = [worker EXCEPT ![e].todo = @ \ {c}]
             /\ UNCHANGED client
    BY DEF AddSend
  <1>2. c \in Clients /\ client[c] \in ClientRecord
    BY <1>t DEF Typed, WorkerRecord
  <1>3. \A d \in Devices : d # e => worker'[d] = worker[d]
    BY <1>1, <1>t DEF Typed
  <1>4. \/ Listening(c) /\ worker'[e].pc = "add_write" /\ worker'[e].at = c
           /\ worker'[e].todo = worker[e].todo
        \/ ~Listening(c) /\ worker'[e].pc = "add_send" /\ worker'[e].at = worker[e].at
           /\ worker'[e].todo = worker[e].todo \ {c}
    BY <1>1, <1>s, <1>t DEF Typed, WorkerRecord
  <1>5. \A b \in Clients : /\ client'[b].state = client[b].state /\ client'[b].told = client[b].told
                           /\ ~client'[b].raced => ~client[b].raced
    BY <1>1, <1>2, <1>t, BeginTold DEF Typed
  <1>6. Serves' /\ \A b \in Clients : Silent(b)'
    BY <1>s, <1>5 DEF Story, Serves, Silent, Listening
  <1>7. ASSUME NEW d \in Devices PROVE Holds(d)' /\ Current(d)'
    BY <1>s, <1>2, <1>3, <1>4, <1>5, <1>7 DEF Story, Holds, Current, Listening, Adding
  <1>8. ASSUME NEW b \in Clients, NEW d \in Devices PROVE News(b, d)' /\ Past(b, d)'
    BY <1>s, <1>3, <1>4, <1>5, <1>8 DEF Story, News, Past, WillTell, Listening, BeforeAdded
  <1>9. QED
    BY <1>6, <1>7, <1>8 DEF Story

\* The message is written, or lost to a race.
LEMMA AddWriteStory ==
    ASSUME Inv, Story, NEW e \in Devices, AddWrite(e)
    PROVE  Story'
  <1>t. Typed
    BY InvTyped
  <1>s. UNCHANGED <<clMutex, dev, main>> /\ worker[e].pc = "add_write"
    BY DEF AddWrite
  <1> DEFINE c == worker[e].at
  <1>1. c \in Clients /\ Listening(c) /\ client[c] \in ClientRecord
    BY <1>s, <1>t DEF Story, Holds, Typed
  <1>2. PICK k \in Tell(client[c], e, e) : client' = [client EXCEPT ![c] = k]
    BY DEF AddWrite
  <1>3. \A d \in Devices : d # e => worker'[d] = worker[d]
    BY <1>t DEF AddWrite, Typed
  <1>4. worker'[e].pc = "add_send" /\ worker'[e].todo = worker[e].todo \ {c}
    BY <1>t DEF AddWrite, Typed, WorkerRecord
  <1>5. /\ k.state = client[c].state /\ k.raced = client[c].raced
        /\ k.told = client[c].told \cup {e} \/ (client[c].raced /\ k.told = client[c].told)
    BY <1>1, <1>2, TellTold
  <1> HIDE DEF c
  <1>6. \A b \in Clients :
          /\ client'[b].state = client[b].state /\ client'[b].raced = client[b].raced
          /\ b # c => client'[b].told = client[b].told
          /\ b = c => \/ client'[b].told = client[b].told \cup {e}
                      \/ client[b].raced /\ client'[b].told = client[b].told
    BY <1>1, <1>2, <1>5, <1>t DEF Typed
  <1>7. Serves' /\ \A b \in Clients : Silent(b)'
    BY <1>s, <1>1, <1>6 DEF Story, Serves, Silent, Listening
  <1>8. ASSUME NEW d \in Devices PROVE Holds(d)' /\ Current(d)'
    BY <1>s, <1>3, <1>4, <1>6, <1>8 DEF Story, Holds, Current, Listening, Adding
  <1>9. ASSUME NEW b \in Clients, NEW d \in Devices PROVE News(b, d)' /\ Past(b, d)'
    <2>1. News(b, d) /\ Past(b, d)
      BY <1>9 DEF Story
    <2>2. News(b, d)'
      BY <2>1, <1>s, <1>3, <1>4, <1>6, <1>9 DEF News, WillTell, Listening
    <2>3. Past(b, d)'
      BY <2>1, <1>s, <1>3, <1>4, <1>6, <1>9 DEF Past, BeforeAdded
    <2>4. QED
      BY <2>2, <2>3
  <1>10. QED
    BY <1>7, <1>8, <1>9 DEF Story

\* So every step of a worker keeps the story.
LEMMA WorkerStory ==
    ASSUME Inv, Story, NEW e \in Devices, WorkerThread(e) \/ NpLost(e) \/ NpPairs(e)
    PROVE  Story'
  BY WorkerQuiet, AddStory, AddSendStory, AddWriteStory DEF WorkerThread

\* Attaching a device: no listener has heard of it, and its worker, or the event
\* loop at once, tells them all.
LEMMA AttachStory ==
    ASSUME Inv, Story, Attach \/ AttachVisible
    PROVE  Story'
  <1>t. Typed
    BY InvTyped
  <1>s. UNCHANGED <<clMutex, main>> /\ main = Idle
    BY DEF Attach, AttachVisible
  <1>n. NoOne \notin Devices
    BY ThreadsAssumption
  <1>m. main.op = "idle" /\ main.todo = {}
    BY <1>s DEF Idle
  <1>1. CASE Attach
    <2>1. PICK e \in Devices : /\ dev[e].state = "ABSENT"
                               /\ dev' = [dev EXCEPT ![e].state = "ACTIVE"]
                               /\ worker' = [worker EXCEPT ![e].pc = "preflight"]
      BY <1>1 DEF Attach
    <2>2. \A d \in Devices : d # e => dev'[d] = dev[d] /\ worker'[d] = worker[d]
      BY <2>1, <1>t DEF Typed
    <2>3. dev'[e].state = "ACTIVE" /\ dev'[e].visible = dev[e].visible
      BY <2>1, <1>t DEF Typed, DevRecord
    <2>4. worker'[e].pc = "preflight"
      BY <2>1, <1>t DEF Typed, WorkerRecord
    <2>5. UNCHANGED client
      BY <1>1 DEF Attach
    <2>6. ~dev[e].visible
      BY <2>1 DEF Story, Current
    <2>7. ASSUME NEW d \in Devices PROVE Holds(d)' /\ Current(d)'
      BY <1>s, <1>m, <2>2, <2>3, <2>4, <2>5, <2>7 DEF Story, Holds, Current, Listening, Adding
    <2>8. ASSUME NEW c \in Clients, NEW d \in Devices PROVE News(c, d)' /\ Past(c, d)'
      BY <1>s, <2>2, <2>3, <2>4, <2>5, <2>6, <2>8 DEF Story, News, Past, WillTell, Listening
    <2>9. QED
      BY <1>s, <2>5, <2>7, <2>8 DEF Story, Serves, Silent, Listening
  <1>2. CASE AttachVisible
    <2>1. PICK e \in Devices :
            /\ dev[e].state = "ABSENT"
            /\ dev' = [dev EXCEPT ![e].state = "ACTIVE", ![e].visible = TRUE]
            /\ worker' = [worker EXCEPT ![e].pc = "done"]
            /\ client' = [c \in Clients |->
                            IF Listening(c)
                            THEN [client[c] EXCEPT !.told = @ \cup {e}, !.pending = TRUE]
                            ELSE client[c]]
      BY <1>2 DEF AttachVisible
    <2>2. \A d \in Devices : d # e => dev'[d] = dev[d] /\ worker'[d] = worker[d]
      BY <2>1, <1>t DEF Typed
    <2>3. dev'[e].state = "ACTIVE"
      BY <2>1, <1>t DEF Typed, DevRecord
    <2>4. worker'[e].pc = "done"
      BY <2>1, <1>t DEF Typed, WorkerRecord
    <2>5. \A c \in Clients :
            /\ client'[c].state = client[c].state /\ client'[c].raced = client[c].raced
            /\ client'[c].told = IF Listening(c) THEN client[c].told \cup {e} ELSE client[c].told
      BY <2>1, <1>t DEF Typed, ClientRecord
    <2>6. ASSUME NEW d \in Devices PROVE Holds(d)' /\ Current(d)'
      <3>1. \A c \in Clients : client'[c].state = client[c].state
        BY <2>5
      <3>2. Holds(d) /\ Current(d)
        BY <2>6 DEF Story
      <3>3. Holds(d)'
        BY <1>s, <2>2, <2>4, <2>6, <3>1, <3>2 DEF Holds, Listening, Adding
      <3>4. Current(d)'
        BY <1>s, <1>m, <2>2, <2>3, <2>6, <3>2 DEF Current
      <3>5. QED
        BY <3>3, <3>4
    <2>7. ASSUME NEW c \in Clients, NEW d \in Devices PROVE News(c, d)' /\ Past(c, d)'
      <3>1. News(c, d) /\ Past(c, d)
        BY <2>7 DEF Story
      <3>2. /\ client'[c].state = client[c].state /\ client'[c].raced = client[c].raced
            /\ d # e => (d \in client'[c].told <=> d \in client[c].told)
            /\ Listening(c) => e \in client'[c].told
        BY <2>5, <2>7
      <3>3. CASE d = e
        BY <2>3, <3>2, <3>3 DEF News, Past, Listening
      <3>4. CASE d # e
        BY <1>s, <2>2, <2>7, <3>1, <3>2, <3>4 DEF News, Past, WillTell, Listening
      <3>5. QED
        BY <3>3, <3>4
    <2>8. QED
      BY <1>s, <1>m, <2>5, <2>6, <2>7 DEF Story, Serves, Serving, Silent, Listening
  <1>3. QED
    BY <1>1, <1>2

\* Removing a device: it is withdrawn from every listener while no worker is in
\* client_device_add.
LEMMA RemoveStory ==
    ASSUME Inv, Story, RemoveLock \/ RemoveFinish
    PROVE  Story'
  <1>t. Typed
    BY InvTyped
  <1>s. UNCHANGED clMutex
    BY DEF RemoveLock, RemoveFinish
  <1>1. CASE RemoveLock
    <2>1. PICK e \in Devices : /\ dev[e].state = "ACTIVE" /\ Does("remove", e, NoOne)
                               /\ dev' = [dev EXCEPT ![e].state = "DEAD"]
      BY <1>1 DEF RemoveLock
    <2>2. \A d \in Devices : d # e => dev'[d] = dev[d]
      BY <2>1, <1>t DEF Typed
    <2>3. dev'[e].state = "DEAD"
      BY <2>1, <1>t DEF Typed, DevRecord
    <2>4. main = Idle /\ main'.op = "remove" /\ main'.todo = {} /\ UNCHANGED <<worker, client>>
      BY <1>1, <2>1 DEF RemoveLock, Does, Idle
    <2>5. main.op = "idle"
      BY <2>4 DEF Idle
    <2>6. ASSUME NEW d \in Devices PROVE Holds(d)' /\ Current(d)'
      BY <1>s, <2>2, <2>3, <2>4, <2>6 DEF Story, Holds, Current, Listening
    <2>7. ASSUME NEW c \in Clients, NEW d \in Devices PROVE News(c, d)' /\ Past(c, d)'
      BY <2>2, <2>3, <2>4, <2>5, <2>7 DEF Story, News, Past, WillTell, Listening
    <2>8. QED
      BY <2>4, <2>6, <2>7 DEF Story, Serves, Serving, Silent, Listening
  <1>2. CASE RemoveFinish
    <2> DEFINE e == main.dev
    <2>1. e \in Devices /\ main.op = "remove"
      BY <1>2 DEF RemoveFinish, Inv, MainDevice
    <2>2. \A d \in Devices : d # e => dev'[d] = dev[d]
      BY <1>2, <1>t DEF RemoveFinish, Typed
    <2>3. dev'[e].state = "GONE" /\ dev'[e].late = (worker[e].pc \in BeforeAdded)
      BY <1>2, <1>t, <2>1 DEF RemoveFinish, Typed
    <2>4. \A d \in Devices : /\ worker'[d].pc = worker[d].pc /\ worker'[d].at = worker[d].at
                             /\ worker'[d].todo = worker[d].todo
      <3>1. PICK b \in BOOLEAN : b = (worker[e].connected /\ ~dev[e].cb)
        BY <1>t, <2>1 DEF Typed, WorkerRecord, DevRecord
      <3> DEFINE w == [worker[e] EXCEPT !.connected = b]
      <3>2. w.pc = worker[e].pc /\ w.at = worker[e].at /\ w.todo = worker[e].todo
        BY <1>t, <2>1 DEF Typed, WorkerRecord
      <3>3. worker' = [worker EXCEPT ![e] = w]
        BY <1>2, <3>1 DEF RemoveFinish
      <3> HIDE DEF w, e
      <3>4. QED
        BY <1>t, <2>1, <3>2, <3>3 DEF Typed
    <2>5. \A c \in Clients :
            /\ client'[c].state = client[c].state /\ client'[c].raced = client[c].raced
            /\ client'[c].told = IF Listening(c) THEN client[c].told \ {e} ELSE client[c].told
      <3>1. ASSUME NEW c \in Clients
            PROVE  /\ client'[c].state = client[c].state /\ client'[c].raced = client[c].raced
                   /\ client'[c].told = IF Listening(c) THEN client[c].told \ {e} ELSE client[c].told
        <4> DEFINE n == [client[c] EXCEPT !.told = @ \ {e}, !.pending = TRUE]
        <4>1. n.state = client[c].state /\ n.raced = client[c].raced /\ n.told = client[c].told \ {e}
          BY <1>t DEF Typed, ClientRecord
        <4>2. client'[c] = IF Listening(c) THEN n ELSE client[c]
          BY <1>2 DEF RemoveFinish
        <4> HIDE DEF n
        <4>3. QED
          BY <4>1, <4>2
      <3>2. QED
        BY <3>1
    <2>6. main' = Idle /\ main'.op = "idle" /\ main'.todo = {}
      BY <1>2 DEF RemoveFinish, Idle
    <2> HIDE DEF e
    <2>7. ASSUME NEW d \in Devices PROVE Holds(d)' /\ Current(d)'
      <3>1. \A c \in Clients : client'[c].state = client[c].state
        BY <2>5
      <3>2. Holds(d) /\ Current(d)
        BY <2>7 DEF Story
      <3>3. Holds(d)'
        BY <1>s, <2>4, <2>7, <3>1, <3>2 DEF Holds, Listening
      <3>4. Current(d)'
        BY <2>2, <2>3, <2>6, <2>7, <3>2 DEF Current
      <3>5. QED
        BY <3>3, <3>4
    <2>8. ASSUME NEW c \in Clients, NEW d \in Devices PROVE News(c, d)' /\ Past(c, d)'
      <3>1. News(c, d) /\ Past(c, d) /\ Silent(c)
        BY <2>8 DEF Story
      <3>2. News(c, d)'
        BY <2>1, <2>2, <2>3, <2>4, <2>5, <2>8, <3>1 DEF News, WillTell, Listening
      <3>3. Past(c, d)'
        BY <2>2, <2>3, <2>4, <2>5, <2>8, <3>1 DEF Past, Silent
      <3>4. QED
        BY <3>2, <3>3
    <2>9. QED
      BY <2>5, <2>6, <2>7, <2>8 DEF Story, Serves, Serving, Silent, Listening
  <1>3. QED
    BY <1>1, <1>2

\* A step of the event loop that leaves devices and workers alone keeps what is
\* said of them, if no listener is lost while a worker writes to it.
LEMMA LoopHolds ==
    ASSUME Story, UNCHANGED <<dev, worker>>,
           \/ clMutex' = clMutex /\ \A c \in Clients : Listening(c) => client'[c].state = "LISTEN"
           \/ clMutex = NoOne /\ clMutex' = NoOne,
           \A d \in Devices : (d \in main'.todo \/ (main'.op = "write" /\ main'.dev = d))
                                => dev[d].state # "GONE"
    PROVE  \A d \in Devices : Holds(d)' /\ Current(d)'
  <1> SUFFICES ASSUME NEW d \in Devices PROVE Holds(d)' /\ Current(d)'
    OBVIOUS
  <1>1. Holds(d) /\ Current(d)
    BY DEF Story
  <1>2. Holds(d)'
    BY <1>1, ThreadsAssumption DEF Holds, Listening, Adding
  <1>3. Current(d)'
    BY <1>1 DEF Current
  <1>4. QED
    BY <1>2, <1>3

\* Sending Listen: all the devices are still to be listed.
LEMMA ListenStory ==
    ASSUME Inv, Story, Listen
    PROVE  Story'
  <1>t. Typed
    BY InvTyped
  <1>s. UNCHANGED <<clMutex, dev, worker>> /\ main = Idle /\ main.op = "idle"
    BY DEF Listen, Idle
  <1>1. PICK e \in Clients : /\ client[e].state = "COMMAND"
                             /\ client' = [client EXCEPT ![e].state = "LISTEN"]
                             /\ Does("list", NoOne, e)
    BY DEF Listen
  <1>2. main'.op = "list" /\ main'.client = e /\ main'.todo = {}
    BY <1>1 DEF Does, Idle
  <1>3. /\ client'[e].state = "LISTEN" /\ client'[e].told = client[e].told
        /\ \A c \in Clients : c # e => client'[c] = client[c]
    BY <1>1, <1>t DEF Typed, ClientRecord
  <1>4. client[e].told = {}
    BY <1>1 DEF Story, Silent, Listening
  <1>5. \A d \in Devices : Holds(d)' /\ Current(d)'
    BY <1>s, <1>2, <1>3, LoopHolds DEF Listening
  <1>6. ASSUME NEW c \in Clients, NEW d \in Devices PROVE News(c, d)' /\ Past(c, d)'
    <2>1. News(c, d) /\ Past(c, d)
      BY <1>6 DEF Story
    <2>2. CASE c = e
      BY <1>s, <1>2, <1>3, <2>1, <2>2 DEF News, Past, WillTell
    <2>3. CASE c # e
      BY <1>s, <1>3, <1>6, <2>1, <2>3 DEF News, Past, WillTell, Listening
    <2>4. QED
      BY <2>2, <2>3
  <1>7. QED
    BY <1>2, <1>3, <1>5, <1>6 DEF Story, Serves, Silent, Listening

\* Reading the list: a device that is not counted is not visible.
LEMMA ListReadStory ==
    ASSUME Inv, Story, ListCopy \/ ListRead
    PROVE  Story'
  <1>t. Typed
    BY InvTyped
  <1>s. UNCHANGED <<clMutex, dev, worker, client>>
    BY DEF ListCopy, ListRead
  <1>m. main'.client = main.client /\ main'.op = "read" /\ main.op \in {"list", "read"}
    BY <1>t DEF ListCopy, ListRead, Typed, MainRecord
  <1>1. /\ \A d \in main'.todo : d \in main.todo \/ dev[d].state = "ACTIVE"
        /\ \A d \in Devices :
             /\ dev[d].state = "ACTIVE" /\ dev[d].visible
             /\ main.op = "list" \/ d \in main.unread \cup main.todo
             => d \in main'.unread \cup main'.todo
    <2>1. CASE ListCopy
      BY <2>1, <1>t DEF ListCopy, Listed, Typed, MainRecord
    <2>2. CASE ListRead
      <3>1. PICK e \in main.unread :
              main' = [main EXCEPT !.unread = @ \ {e},
                                   !.todo = IF dev[e].state = "ACTIVE" /\ dev[e].visible
                                            THEN @ \cup {e} ELSE @]
        BY <2>2 DEF ListRead
      <3>2. /\ main'.unread = main.unread \ {e}
            /\ main'.todo = IF dev[e].state = "ACTIVE" /\ dev[e].visible
                            THEN main.todo \cup {e} ELSE main.todo
        BY <3>1, <1>t DEF Typed, MainRecord
      <3>3. main.op = "read"
        BY <2>2 DEF ListRead
      <3>4. QED
        BY <3>2, <3>3
    <2>3. QED
      BY <2>1, <2>2
  <1>2. \A d \in Devices : Holds(d)' /\ Current(d)'
    BY <1>s, <1>m, <1>1, LoopHolds DEF Story, Current, Listening
  <1>3. ASSUME NEW c \in Clients, NEW d \in Devices PROVE News(c, d)' /\ Past(c, d)'
    <2>1. News(c, d) /\ Past(c, d)
      BY <1>3 DEF Story
    <2>2. QED
      BY <1>s, <1>m, <1>1, <1>3, <2>1 DEF News, Past, WillTell, Listening
  <1>4. QED
    BY <1>s, <1>m, <1>2, <1>3 DEF Story, Serves, Serving, Silent, Listening

\* Sending the list: a device taken off it is being written.
LEMMA ListSendStory ==
    ASSUME Inv, Story, ListSend
    PROVE  Story'
  <1>t. Typed
    BY InvTyped
  <1>s. UNCHANGED <<clMutex, dev, worker>> /\ main.op \in {"read", "send"} /\ main.unread = {}
    BY DEF ListSend
  <1>1. CASE main.todo = {} /\ main' = Idle /\ UNCHANGED client
    <2>1. main'.op = "idle" /\ main'.todo = {}
      BY <1>1 DEF Idle
    <2>2. \A d \in Devices : Holds(d)' /\ Current(d)'
      BY <1>s, <1>1, <2>1, LoopHolds DEF Listening
    <2>3. ASSUME NEW c \in Clients, NEW d \in Devices PROVE News(c, d)' /\ Past(c, d)'
      BY <1>s, <1>1, <2>3 DEF Story, News, Past, WillTell, Listening
    <2>4. QED
      BY <1>1, <2>1, <2>2, <2>3 DEF Story, Serves, Serving, Silent, Listening
  <1>2. ASSUME NEW e \in main.todo,
               client' = [client EXCEPT ![main.client] = Begin(@, Main)],
               main' = [main EXCEPT !.op = "write", !.dev = e, !.todo = @ \ {e}]
        PROVE  Story'
    <2>1. /\ main'.op = "write" /\ main'.dev = e /\ main'.client = main.client
          /\ main'.todo = main.todo \ {e} /\ main'.unread = {}
      BY <1>s, <1>t, <1>2 DEF Typed, MainRecord
    <2>2. main.client \in Clients /\ Listening(main.client)
      BY <1>s DEF Story, Serves, Serving
    <2>3. \A c \in Clients : /\ client'[c].state = client[c].state /\ client'[c].told = client[c].told
                             /\ ~client'[c].raced => ~client[c].raced
      BY <1>t, <1>2, <2>2, BeginTold DEF Typed
    <2>4. \A d \in Devices : Holds(d)' /\ Current(d)'
      <3>1. \A d \in Devices : d \in main.todo => dev[d].state # "GONE"
        BY DEF Story, Current
      <3>2. QED
        BY <1>s, <1>2, <2>1, <2>3, <3>1, LoopHolds DEF Listening
    <2>5. ASSUME NEW c \in Clients, NEW d \in Devices PROVE News(c, d)' /\ Past(c, d)'
      <3>1. News(c, d) /\ Past(c, d)
        BY <2>5 DEF Story
      <3>2. QED
        BY <1>s, <2>1, <2>3, <2>5, <3>1 DEF News, Past, WillTell, Listening
    <2>6. QED
      BY <2>1, <2>2, <2>3, <2>4, <2>5 DEF Story, Serves, Silent, Listening
  <1>3. QED
    BY <1>1, <1>2 DEF ListSend

\* A listed device is told, or lost to a race.
LEMMA ListWriteStory ==
    ASSUME Inv, Story, ListWrite
    PROVE  Story'
  <1>t. Typed
    BY InvTyped
  <1>s. UNCHANGED <<clMutex, dev, worker>> /\ main.op = "write"
    BY DEF ListWrite
  <1> DEFINE c == main.client
             e == main.dev
  <1>1. c \in Clients /\ Listening(c) /\ client[c] \in ClientRecord
    BY <1>s, <1>t DEF Story, Serves, Serving, Typed
  <1>2. e \in Devices /\ dev[e].state # "GONE"
    BY <1>s DEF Story, Current, Inv, MainDevice
  <1>3. PICK k \in Tell(client[c], Main, e) : client' = [client EXCEPT ![c] = k]
    BY DEF ListWrite
  <1>4. /\ k.state = client[c].state /\ k.raced = client[c].raced
        /\ k.told = client[c].told \cup {e} \/ (client[c].raced /\ k.told = client[c].told)
    BY <1>1, <1>2, <1>3, TellTold
  <1>5. /\ main'.op = "send" /\ main'.client = c /\ main'.todo = main.todo
        /\ main'.unread = main.unread
    BY <1>t DEF ListWrite, Typed, MainRecord
  <1> HIDE DEF c, e
  <1>6. \A b \in Clients :
          /\ client'[b].state = client[b].state /\ client'[b].raced = client[b].raced
          /\ b # c => client'[b].told = client[b].told
          /\ b = c => \/ client'[b].told = client[b].told \cup {e}
                      \/ client[b].raced /\ client'[b].told = client[b].told
    BY <1>1, <1>3, <1>4, <1>t DEF Typed
  <1>7. \A d \in Devices : Holds(d)' /\ Current(d)'
    <2>1. \A d \in Devices : d \in main.todo => dev[d].state # "GONE"
      BY DEF Story, Current
    <2>2. QED
      BY <1>s, <1>5, <1>6, <2>1, LoopHolds DEF Listening
  <1>8. ASSUME NEW b \in Clients, NEW d \in Devices PROVE News(b, d)' /\ Past(b, d)'
    <2>1. News(b, d) /\ Past(b, d)
      BY <1>8 DEF Story
    <2>2. News(b, d)'
      BY <1>s, <1>5, <1>6, <1>8, <2>1 DEF News, WillTell, Listening, c, e
    <2>3. Past(b, d)'
      BY <1>s, <1>2, <1>6, <1>8, <2>1 DEF Past
    <2>4. QED
      BY <2>2, <2>3
  <1>9. QED
    BY <1>1, <1>5, <1>6, <1>7, <1>8 DEF Story, Serves, Silent, Listening

\* What the event loop has in hand when it turns to something.
LEMMA DoesOp ==
    ASSUME NEW op, NEW d, NEW c
    PROVE  /\ Idle.op = "idle" /\ Idle.todo = {}
           /\ Does(op, d, c) => main'.op = op /\ main'.todo = {} /\ main'.client = c
  BY DEF Does, Idle

\* The event loop between lists: a flush, a timeout or a client that goes away
\* tells no listener anything.
LEMMA OtherStory ==
    ASSUME Inv, Story,
           FlushBegin \/ FlushEnd \/ FlushFail \/ CheckTimeouts \/ CheckTimeoutsClose \/ Close
    PROVE  Story'
  <1>t. Typed
    BY InvTyped
  <1>s. UNCHANGED <<clMutex, dev, worker>>
    BY DEF FlushBegin, FlushEnd, FlushFail, CheckTimeouts, CheckTimeoutsClose, Close
  <1>1. main.op \in {"idle", "flush", "timeouts"}
    BY DEF FlushBegin, FlushEnd, FlushFail, CheckTimeouts, CheckTimeoutsClose, Close, Idle
  <1>2. main'.op \in {"idle", "flush", "timeouts"} /\ main'.todo = {}
    BY DoesOp DEF FlushBegin, FlushEnd, FlushFail, CheckTimeouts, CheckTimeoutsClose, Close
  <1>3. ASSUME \A b \in Clients :
                 \/ /\ client'[b].state = client[b].state /\ client'[b].told = client[b].told
                    /\ ~client'[b].raced => ~client[b].raced
                 \/ clMutex = NoOne /\ client'[b] = Gone,
               main'.op = "flush" => main'.client \in Clients /\ client'[main'.client].state = "LISTEN"
        PROVE  Story'
    <2>1. Gone.state = "CLOSED" /\ Gone.told = {}
      BY DEF Gone, NewClient
    <2>2. \A d \in Devices : Holds(d)' /\ Current(d)'
      BY <1>s, <1>2, <1>3, LoopHolds DEF Listening
    <2>3. ASSUME NEW b \in Clients, NEW d \in Devices PROVE News(b, d)' /\ Past(b, d)'
      <3>1. News(b, d) /\ Past(b, d)
        BY <2>3 DEF Story
      <3>2. QED
        BY <1>s, <1>1, <1>3, <2>1, <2>3, <3>1 DEF News, Past, WillTell, Listening
    <2>4. Serves'
      BY <1>2, <1>3 DEF Serves, Serving, Listening
    <2>5. \A b \in Clients : Silent(b)'
      BY <1>3, <2>1 DEF Story, Silent, Listening
    <2>6. QED
      BY <2>2, <2>3, <2>4, <2>5 DEF Story
  <1>4. CASE FlushBegin
    <2>1. PICK c \in Clients : /\ Listening(c)
                               /\ client' = [client EXCEPT ![c] = Begin(@, Main)]
                               /\ Does("flush", NoOne, c)
      BY <1>4 DEF FlushBegin
    <2>2. main'.client = c
      BY <2>1 DEF Does, Idle
    <2>3. \A b \in Clients : /\ client'[b].state = client[b].state /\ client'[b].told = client[b].told
                             /\ ~client'[b].raced => ~client[b].raced
      BY <1>t, <2>1, BeginTold DEF Typed
    <2>4. QED
      BY <1>3, <2>1, <2>2, <2>3 DEF Listening
  <1>5. CASE FlushEnd
    <2>1. PICK left \in BOOLEAN :
            client' = [client EXCEPT ![main.client] = [Finish(@, Main) EXCEPT !.pending = left]]
      BY <1>5 DEF FlushEnd
    <2>2. \A b \in Clients : /\ client'[b].state = client[b].state /\ client'[b].told = client[b].told
                             /\ client'[b].raced = client[b].raced
      <3> DEFINE n == [Finish(client[main.client], Main) EXCEPT !.pending = left]
      <3>1. main.client \in Clients =>
              /\ n.state = client[main.client].state /\ n.told = client[main.client].told
              /\ n.raced = client[main.client].raced
        BY <1>t DEF Typed, Finish, ClientRecord
      <3>2. client' = [client EXCEPT ![main.client] = n]
        BY <2>1
      <3> HIDE DEF n
      <3>3. QED
        BY <1>t, <3>1, <3>2 DEF Typed
    <2>3. main'.op = "idle"
      BY <1>5 DEF FlushEnd, Idle
    <2>4. QED
      BY <1>3, <2>2, <2>3
  <1>6. CASE FlushFail \/ Close
    <2>1. clMutex = NoOne /\ main'.op = "idle"
      BY <1>6 DEF FlushFail, Close, Idle
    <2>2. \A b \in Clients : client'[b] = client[b] \/ client'[b] = Gone
      BY <1>6, <1>t DEF FlushFail, Close, Typed
    <2>3. QED
      BY <1>3, <2>1, <2>2
  <1>7. CASE CheckTimeouts \/ CheckTimeoutsClose
    <2>1. UNCHANGED client /\ main'.op # "flush"
      BY <1>7, DoesOp DEF CheckTimeouts, CheckTimeoutsClose
    <2>2. QED
      BY <1>3, <2>1
  <1>8. QED
    BY <1>4, <1>5, <1>6, <1>7

\* Nobody listens at first.
LEMMA StoryInit == Init => Story
  <1> SUFFICES ASSUME Init PROVE Story
    OBVIOUS
  <1>1. main.op = "idle" /\ main.todo = {}
    BY DEF Init, Idle
  <1>2. \A c \in Clients : client[c].state = "COMMAND" /\ client[c].told = {}
    BY DEF Init, NewClient
  <1>3. \A d \in Devices : dev[d].state = "ABSENT" /\ ~dev[d].visible /\ worker[d].pc = "none"
    BY DEF Init
  <1>4. QED
    BY <1>1, <1>2, <1>3
       DEF Story, Serves, Serving, Silent, Holds, Adding, Current, News, Past, Listening

\* Every step of every thread keeps the story.
LEMMA StoryNext == Inv /\ Story /\ [Next]_vars => Story'
  <1>1. ASSUME Inv, Story, UNCHANGED vars PROVE Story'
    BY <1>1, QuietStory DEF vars
  <1>2. ASSUME Inv, Story, Next PROVE Story'
    BY <1>2, WorkerStory, AttachStory, RemoveStory, ListenStory, ListReadStory, ListSendStory,
       ListWriteStory, OtherStory
       DEF Next, MainThread
  <1>3. QED
    BY <1>1, <1>2

\* However start_listen interleaves with the workers' client_device_add, a
\* listener whose buffer two threads did not write at once has been told of
\* every visible device that is not still being announced.
THEOREM ListenersMissNothing == Spec => []PresentDeviceKnown
  <1>1. Inv /\ Story => PresentDeviceKnown
    BY DEF Story, News, WillTell, PresentDeviceKnown
  <1>2. QED
    BY <1>1, InvInit, InvNext, StoryInit, StoryNext, PTL DEF Spec

\* Once device_remove has withdrawn a device that its worker had announced, no
\* client is told of it again: no worker and no list of the event loop names it.
THEOREM GoneStaysGone == Spec => []GoneDeviceForgotten
  <1>1. Story => GoneDeviceForgotten
    BY DEF Story, Past, GoneDeviceForgotten
  <1>2. QED
    BY <1>1, InvInit, InvNext, StoryInit, StoryNext, PTL DEF Spec

=============================================================================
