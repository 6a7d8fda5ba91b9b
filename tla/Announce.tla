------------------------------ MODULE Announce ------------------------------
(***************************************************************************)
(* Announcing devices to listeners while preflight threads run:            *)
(* src/src/preflight.c, and the parts of src/src/client.c and              *)
(* src/src/device.c that the threads share with the event loop.            *)
(*                                                                         *)
(* Each device gets a worker thread, which talks to the device and then    *)
(* calls client_device_add.  The event loop adds and removes devices,      *)
(* serves listeners and closes clients.  client_list_mutex and             *)
(* device_list_mutex are taken and given up in the order of the code, and  *)
(* a thread may be preempted wherever it holds one or waits for one.       *)
(* Output buffers are also written without a lock: an operation on one has *)
(* a begin and an end, and what two overlapping ones leave is undefined.   *)
(***************************************************************************)
EXTENDS Integers, FiniteSets

CONSTANTS
    Devices,   \* devices, each attached at most once
    Clients,   \* clients that may send Listen
    Main,      \* the event loop's thread; the other threads are named by device
    NoOne      \* owner of a free mutex

ASSUME ThreadsAssumption ==
    /\ Main \notin Devices /\ NoOne \notin Devices /\ Main # NoOne

VARIABLES
    clMutex,   \* owner of client_list_mutex
    dlMutex,   \* owner of device_list_mutex
    dev,       \* device_list
    worker,    \* the preflight threads, with the struct cb_data on their stack
    client,    \* the clients' states, and what they were told
    main       \* what the event loop is doing

vars == <<clMutex, dlMutex, dev, worker, client, main>>

Idle == [op |-> "idle", dev |-> NoOne, client |-> NoOne, unread |-> {}, todo |-> {}]

WorkerPcs == {"none", "preflight", "register", "add_lock", "add_visible", "add_send", "add_write",
              "waiting", "unregister", "done"}
MainOps == {"idle", "remove", "list", "read", "send", "write", "flush", "timeouts"}

\* Operations on the output buffer of a client by thread t.  One that meets
\* another in progress may be lost; raced remembers that it happened.
Begin(k, t) == [k EXCEPT !.busy = @ \cup {t}, !.raced = @ \/ k.busy # {}]
Finish(k, t) == [k EXCEPT !.busy = @ \ {t}]
Tell(k, t, d) ==
    {[Finish(k, t) EXCEPT !.told = @ \cup {d}, !.pending = TRUE]}
        \cup (IF k.raced THEN {Finish(k, t)} ELSE {})

NewClient == [state |-> "COMMAND", told |-> {}, pending |-> FALSE, busy |-> {}, raced |-> FALSE]
Gone == [NewClient EXCEPT !.state = "CLOSED"]
Listening(c) == client[c].state = "LISTEN"
Listed(d) == dev[d].state \in {"ACTIVE", "DEAD"}

-----------------------------------------------------------------------------
(* preflight_worker_handle_device_add.                                      *)

WorkerStep(d, from, to) == worker[d].pc = from /\ worker' = [worker EXCEPT ![d].pc = to]

\* The conversation with the device ends in failure, or with a device to be
\* announced, or in waiting for the user's trust.  trust tells the last two apart.
Preflight(d) ==
    /\ worker[d].pc = "preflight"
    /\ \E outcome \in {"done", "add_lock", "register"} :
        \E np \in BOOLEAN :
            worker' = [worker EXCEPT ![d].pc = outcome, ![d].trust = outcome = "register",
                                     ![d].frame = outcome = "register",
                                     ![d].np = np /\ outcome = "register"]
    /\ UNCHANGED <<clMutex, dlMutex, dev, client, main>>

\* device_set_preflight_cb_data(id, &cbdata), if the device is still listed.
Register(d) ==
    /\ WorkerStep(d, "register", "add_lock")
    /\ dlMutex = NoOne
    /\ dev' = [dev EXCEPT ![d].cb = Listed(d)]
    /\ UNCHANGED <<clMutex, dlMutex, client, main>>

\* client_device_add: client_list_mutex, device_set_visible, then a message to
\* every listener.
AddLock(d) ==
    /\ WorkerStep(d, "add_lock", "add_visible")
    /\ clMutex = NoOne /\ clMutex' = d
    /\ UNCHANGED <<dlMutex, dev, client, main>>

AddVisible(d) ==
    /\ worker[d].pc = "add_visible" /\ dlMutex = NoOne
    /\ dev' = [dev EXCEPT ![d].visible = Listed(d)]
    /\ worker' = [worker EXCEPT ![d].pc = "add_send", ![d].todo = Clients]
    /\ UNCHANGED <<clMutex, dlMutex, client, main>>

AddSend(d) ==
    /\ worker[d].pc = "add_send"
    /\ \E c \in worker[d].todo :
        \/ /\ Listening(c)
           /\ client' = [client EXCEPT ![c] = Begin(@, d)]
           /\ worker' = [worker EXCEPT ![d].pc = "add_write", ![d].at = c]
        \/ /\ ~Listening(c)
           /\ worker' = [worker EXCEPT ![d].todo = @ \ {c}]
           /\ UNCHANGED client
    /\ UNCHANGED <<clMutex, dlMutex, dev, main>>

AddWrite(d) ==
    /\ worker[d].pc = "add_write"
    /\ \E k \in Tell(client[worker[d].at], d, d) :
        client' = [client EXCEPT ![worker[d].at] = k]
    /\ worker' = [worker EXCEPT ![d].pc = "add_send", ![d].todo = @ \ {worker[d].at}]
    /\ UNCHANGED <<clMutex, dlMutex, dev, main>>

AddUnlock(d) ==
    /\ worker[d].pc = "add_send" /\ worker[d].todo = {}
    /\ worker' = [worker EXCEPT ![d].pc = IF worker[d].trust THEN "waiting" ELSE "done"]
    /\ clMutex' = NoOne
    /\ UNCHANGED <<dlMutex, dev, client, main>>

\* Mutant: the loop looks at the notification client only.
WaitOver_NpOnly(w) == w.finished

\* while (cbdata.np && cbdata.is_device_connected && !cbdata.is_finished)
WaitOver(w) == ~w.np \/ ~w.connected \/ w.finished

Wait(d) ==
    /\ WorkerStep(d, "waiting", "unregister")
    /\ WaitOver(worker[d])
    /\ UNCHANGED <<clMutex, dlMutex, dev, client, main>>

\* Mutant: the pointer to cbdata stays with the device.
Unregister_Keep(d) ==
    /\ worker[d].pc = "unregister" /\ dlMutex = NoOne
    /\ worker' = [worker EXCEPT ![d].pc = "done", ![d].frame = FALSE]
    /\ UNCHANGED <<clMutex, dlMutex, dev, client, main>>

\* device_set_preflight_cb_data(id, NULL), and the end of cbdata's life.
Unregister(d) ==
    /\ worker[d].pc = "unregister" /\ dlMutex = NoOne
    /\ worker' = [worker EXCEPT ![d].pc = "done", ![d].frame = FALSE]
    /\ dev' = [dev EXCEPT ![d].cb = FALSE]
    /\ UNCHANGED <<clMutex, dlMutex, client, main>>

\* np_callback, on the notification client's thread: the device went away, or
\* the user answered.
NpLost(d) ==
    /\ worker[d].frame /\ worker[d].np
    /\ worker' = [worker EXCEPT ![d].np = FALSE]
    /\ UNCHANGED <<clMutex, dlMutex, dev, client, main>>

NpPairs(d) ==
    /\ worker[d].frame /\ worker[d].np /\ ~worker[d].finished
    /\ worker' = [worker EXCEPT ![d].finished = TRUE]
    /\ UNCHANGED <<clMutex, dlMutex, dev, client, main>>

WorkerThread(d) ==
    \/ Preflight(d) \/ Register(d) \/ AddLock(d) \/ AddVisible(d) \/ AddSend(d) \/ AddWrite(d)
    \/ AddUnlock(d) \/ Wait(d) \/ Unregister(d)

-----------------------------------------------------------------------------
(* The event loop.                                                          *)

Does(op, d, c) == main' = [Idle EXCEPT !.op = op, !.dev = d, !.client = c]

\* device_version_input: the device is active, and its worker starts.
Attach ==
    /\ main = Idle
    /\ \E d \in Devices :
        /\ dev[d].state = "ABSENT"
        /\ dev' = [dev EXCEPT ![d].state = "ACTIVE"]
        /\ worker' = [worker EXCEPT ![d].pc = "preflight"]
    /\ UNCHANGED <<clMutex, dlMutex, client, main>>

\* The same for a device that needs no preflight: client_device_add at once.
AttachVisible ==
    /\ main = Idle /\ clMutex = NoOne /\ dlMutex = NoOne
    /\ \E d \in Devices :
        /\ dev[d].state = "ABSENT"
        /\ dev' = [dev EXCEPT ![d].state = "ACTIVE", ![d].visible = TRUE]
        /\ worker' = [worker EXCEPT ![d].pc = "done"]
        /\ client' = [c \in Clients |->
                        IF Listening(c)
                        THEN [client[c] EXCEPT !.told = @ \cup {d}, !.pending = TRUE]
                        ELSE client[c]]
    /\ UNCHANGED <<clMutex, dlMutex, main>>

\* device_remove up to the wait for client_list_mutex in client_device_remove.
RemoveLock ==
    /\ main = Idle /\ dlMutex = NoOne
    /\ \E d \in Devices : dev[d].state = "ACTIVE" /\ Does("remove", d, NoOne)
                           /\ dev' = [dev EXCEPT ![d].state = "DEAD"]
    /\ dlMutex' = Main
    /\ UNCHANGED <<clMutex, worker, client>>

\* late remembers that the worker had still to finish client_device_add.
BeforeAdded == {"preflight", "register", "add_lock", "add_visible", "add_send", "add_write"}

\* Mutant: the listeners are not told.
RemoveFinish_Silent ==
    /\ main.op = "remove" /\ clMutex = NoOne
    /\ UNCHANGED client
    /\ worker' = [worker EXCEPT ![main.dev].connected = @ /\ ~dev[main.dev].cb]
    /\ dev' = [dev EXCEPT ![main.dev] = [state |-> "GONE", visible |-> FALSE, cb |-> FALSE,
                                         late |-> worker[main.dev].pc \in BeforeAdded]]
    /\ dlMutex' = NoOne
    /\ main' = Idle
    /\ UNCHANGED clMutex

\* The rest of it: Detached to every listener, preflight_device_remove_cb if
\* a worker registered, and the device leaves the list.
RemoveFinish ==
    /\ main.op = "remove" /\ clMutex = NoOne
    /\ client' = [c \in Clients |->
                    IF Listening(c)
                    THEN [client[c] EXCEPT !.told = @ \ {main.dev}, !.pending = TRUE]
                    ELSE client[c]]
    /\ worker' = [worker EXCEPT ![main.dev].connected = @ /\ ~dev[main.dev].cb]
    /\ dev' = [dev EXCEPT ![main.dev] = [state |-> "GONE", visible |-> FALSE, cb |-> FALSE,
                                         late |-> worker[main.dev].pc \in BeforeAdded]]
    /\ dlMutex' = NoOne
    /\ main' = Idle
    /\ UNCHANGED clMutex

\* start_listen: the client is a listener before the devices are listed.
Listen ==
    /\ main = Idle
    /\ \E c \in Clients :
        /\ client[c].state = "COMMAND"
        /\ client' = [client EXCEPT ![c].state = "LISTEN"]
        /\ Does("list", NoOne, c)
    /\ UNCHANGED <<clMutex, dlMutex, dev, worker>>

\* device_get_list(0): the list is copied under the mutex and read after it.
ListCopy ==
    /\ main.op = "list" /\ dlMutex = NoOne
    /\ main' = [main EXCEPT !.op = "read", !.unread = {d \in Devices : Listed(d)}]
    /\ UNCHANGED <<clMutex, dlMutex, dev, worker, client>>

\* Mutant: a device that is read while another is left is not counted.
ListRead_Last ==
    /\ main.op = "read"
    /\ \E d \in main.unread :
        main' = [main EXCEPT !.unread = @ \ {d},
                             !.todo = IF dev[d].visible /\ main.unread = {d} THEN @ \cup {d} ELSE @]
    /\ UNCHANGED <<clMutex, dlMutex, dev, worker, client>>

ListRead ==
    /\ main.op = "read"
    /\ \E d \in main.unread :
        main' = [main EXCEPT !.unread = @ \ {d},
                             !.todo = IF dev[d].state = "ACTIVE" /\ dev[d].visible
                                      THEN @ \cup {d} ELSE @]
    /\ UNCHANGED <<clMutex, dlMutex, dev, worker, client>>

\* send_device_add for each of the devices read.
ListSend ==
    /\ main.op \in {"read", "send"} /\ main.unread = {}
    /\ \/ main.todo = {} /\ main' = Idle /\ UNCHANGED client
       \/ \E d \in main.todo :
            /\ client' = [client EXCEPT ![main.client] = Begin(@, Main)]
            /\ main' = [main EXCEPT !.op = "write", !.dev = d, !.todo = @ \ {d}]
    /\ UNCHANGED <<clMutex, dlMutex, dev, worker>>

ListWrite ==
    /\ main.op = "write"
    /\ \E k \in Tell(client[main.client], Main, main.dev) :
        client' = [client EXCEPT ![main.client] = k]
    /\ main' = [main EXCEPT !.op = "send", !.dev = NoOne]
    /\ UNCHANGED <<clMutex, dlMutex, dev, worker>>

\* output_buffer_process: send, then the buffer is marked empty.
FlushBegin ==
    /\ main = Idle
    /\ \E c \in Clients :
        /\ Listening(c) /\ client[c].pending
        /\ client' = [client EXCEPT ![c] = Begin(@, Main)]
        /\ Does("flush", NoOne, c)
    /\ UNCHANGED <<clMutex, dlMutex, dev, worker>>

FlushEnd ==
    /\ main.op = "flush" /\ main' = Idle
    /\ \E all \in BOOLEAN :
        client' = [client EXCEPT ![main.client] = [Finish(@, Main) EXCEPT !.pending = ~all]]
    /\ UNCHANGED <<clMutex, dlMutex, dev, worker>>

\* The send failed: client_close.
FlushFail ==
    /\ main.op = "flush" /\ main' = Idle /\ clMutex = NoOne
    /\ client' = [client EXCEPT ![main.client] = Gone]
    /\ UNCHANGED <<clMutex, dlMutex, dev, worker>>

\* device_check_timeouts tearing a connection down, whose client is then closed.
CheckTimeouts ==
    /\ main = Idle /\ dlMutex = NoOne
    /\ dlMutex' = Main
    /\ Does("timeouts", NoOne, NoOne)
    /\ UNCHANGED <<clMutex, dev, worker, client>>

CheckTimeoutsClose ==
    /\ main.op = "timeouts" /\ clMutex = NoOne
    /\ dlMutex' = NoOne /\ main' = Idle
    /\ UNCHANGED <<clMutex, dev, worker, client>>

\* client_close of a listener that hung up.
Close ==
    /\ main = Idle /\ clMutex = NoOne
    /\ \E c \in Clients :
        /\ client[c].state \in {"COMMAND", "LISTEN"}
        /\ client' = [client EXCEPT ![c] = Gone]
    /\ UNCHANGED <<clMutex, dlMutex, dev, worker, main>>

MainThread ==
    \/ Attach \/ AttachVisible \/ RemoveLock \/ RemoveFinish \/ Listen \/ ListCopy \/ ListRead
    \/ ListSend \/ ListWrite \/ FlushBegin \/ FlushEnd \/ FlushFail \/ CheckTimeouts \/ CheckTimeoutsClose \/ Close

-----------------------------------------------------------------------------
Init ==
    /\ clMutex = NoOne /\ dlMutex = NoOne
    /\ dev = [d \in Devices |-> [state |-> "ABSENT", visible |-> FALSE, cb |-> FALSE,
                              late |-> FALSE]]
    /\ worker = [d \in Devices |-> [pc |-> "none", trust |-> FALSE, frame |-> FALSE, np |-> FALSE,
                                    connected |-> TRUE, finished |-> FALSE, todo |-> {},
                                    at |-> NoOne]]
    /\ client = [c \in Clients |-> NewClient]
    /\ main = Idle

Next == MainThread \/ \E d \in Devices : WorkerThread(d) \/ NpLost(d) \/ NpPairs(d)

Spec == Init /\ [][Next]_vars

\* A mutex that is given up again and again is obtained by a thread that waits
\* for it, threads run on, and the notification client reports the loss of its
\* device.  The conversations with the device (Preflight, NpPairs) may never
\* end, and the event loop need not do anything else.
FairSpec ==
    /\ Spec
    /\ SF_vars(RemoveFinish \/ CheckTimeoutsClose)
    /\ \A d \in Devices :
        /\ SF_vars(WorkerThread(d) /\ worker[d].pc # "preflight")
        /\ WF_vars(NpLost(d) /\ dev[d].state = "GONE")

-----------------------------------------------------------------------------
\* Types: only threads own a mutex or write to a buffer.
TypeOK ==
    /\ clMutex \in Devices \cup {NoOne}
    /\ dlMutex \in {Main, NoOne}
    /\ dev \in [Devices -> [state : {"ABSENT", "ACTIVE", "DEAD", "GONE"}, visible : BOOLEAN,
                             cb : BOOLEAN, late : BOOLEAN]]
    /\ worker \in [Devices -> [pc : WorkerPcs, trust : BOOLEAN, frame : BOOLEAN, np : BOOLEAN,
                                connected : BOOLEAN, finished : BOOLEAN, todo : SUBSET Clients,
                                at : Clients \cup {NoOne}]]
    /\ client \in [Clients -> [state : {"COMMAND", "LISTEN", "CLOSED"}, told : SUBSET Devices,
                                pending : BOOLEAN, busy : SUBSET (Devices \cup {Main}),
                                raced : BOOLEAN]]
    /\ main \in [op : MainOps, dev : Devices \cup {NoOne}, client : Clients \cup {NoOne},
                  unread : SUBSET Devices, todo : SUBSET Devices]

\* The event loop never writes to a cb_data whose stack frame is gone: the
\* pointer device_remove passes to preflight_device_remove_cb is that of a
\* worker that has not yet left its waiting loop.
CbDataAlive == \A d \in Devices : dev[d].cb => worker[d].frame

\* Unless its output buffer was written by two threads at once, a listener has
\* been told of every visible device, whichever way start_listen and the
\* workers' client_device_add interleave.
PresentDeviceKnown ==
    \A c \in Clients, d \in Devices :
        /\ Listening(c) /\ main.client # c /\ ~client[c].raced
        /\ dev[d].state = "ACTIVE" /\ dev[d].visible
        /\ worker[d].pc \notin {"add_send", "add_write"}
        => d \in client[c].told

\* A device that was removed after its worker announced it is a listener's
\* business no more: device_remove withdrew it, and no list names it again.
GoneDeviceForgotten ==
    \A c \in Clients, d \in Devices :
        dev[d].state = "GONE" /\ ~dev[d].late => d \notin client[c].told

\* A mutex cycle: the event loop holds device_list_mutex and waits for
\* client_list_mutex, a worker holds client_list_mutex and waits for the other.
Deadlocked ==
    /\ main.op \in {"remove", "timeouts"}
    /\ clMutex \in Devices /\ worker[clMutex].pc = "add_visible"

\* The worker of a device that left while it waited for the user's trust ends
\* (unless the mutex cycle stops the daemon first).
WaitEnds ==
    \A d \in Devices :
        dev[d].state = "GONE" /\ worker[d].pc = "waiting" ~> worker[d].pc = "done" \/ Deadlocked

\* "Various memory leak, deadlock and invalid free fixes" (NEWS): no two
\* threads wait for each other's mutex.
NoLockCycle == ~Deadlocked

\* "emit device added event and thus make device visible to clients": a device
\* of which a listener was last told Attached is one clients can see.
AttachedIsVisible ==
    \A c \in Clients, d \in Devices :
        d \in client[c].told /\ main = Idle => dev[d].visible

=============================================================================
