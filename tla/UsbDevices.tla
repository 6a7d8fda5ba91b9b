----------------------------- MODULE UsbDevices -----------------------------
(***************************************************************************)
(* The life of the USB devices: src/src/usb.c.  A device is opened when    *)
(* libusb reports it, brought up by a chain of control transfers, handed   *)
(* to the multiplexer (device_add), read from by several parallel bulk     *)
(* transfers, marked dead on errors or when it leaves, and reaped outside  *)
(* the libusb callbacks: usb_disconnect cancels its transfers and handles  *)
(* libusb events, those of the other devices included, until they ended.   *)
(* When the main loop ends, all devices are disconnected this way.         *)
(*                                                                         *)
(* libusb is modelled from its use here.  A transfer that was submitted    *)
(* ends once, with any status; one whose handle is closed is dropped, and  *)
(* never calls back; its event handling may fail, and does when nested in  *)
(* a callback.  An address is not reused.                                  *)
(***************************************************************************)
EXTENDS Integers, FiniteSets

CONSTANTS
    MaxAddr,         \* bound: devices that may be plugged in, by bus address
    NumRxLoops,      \* NUM_RX_LOOPS
    MaxTx,           \* bound: write transfers of a device in flight
    Modes,           \* whether libusb reports arrivals and departures: the answers it may give
    ResubmitMayFail  \* whether libusb may refuse a transfer that rx_callback submits again

ASSUME UsbAssumption ==
    /\ MaxAddr \in Nat /\ NumRxLoops \in Nat \ {0} /\ MaxTx \in Nat \ {0}
    /\ Modes \subseteq BOOLEAN /\ ResubmitMayFail \in BOOLEAN

VARIABLES
    plug,    \* for each address: what is plugged in, and hotplug events not yet delivered
    dev,     \* device_list: for each address its struct usb_device
    main,    \* where the main thread is
    phase,   \* whether it is in main_loop, device_kill_connections or usb_shutdown
    hotplug  \* !device_polling: libusb reports arrivals and departures

vars == <<plug, dev, main, phase, hotplug>>

Addrs == 1 .. MaxAddr
Stages == {"none", "mode", "switch", "switched", "langid", "serial", "failed", "ready"}

\* rx and tx are the transfers in rx_xfers and tx_xfers; lost are those of rx
\* that libusb does not have; mux tells whether device.c knows the device.
NoDev == [listed |-> FALSE, alive |-> FALSE, stage |-> "none", rx |-> 0, tx |-> 0, lost |-> 0,
          mux |-> FALSE]

-----------------------------------------------------------------------------
(* The outside world.                                                       *)

Plug(a) ==
    /\ plug[a].state = "never"
    /\ plug' = [plug EXCEPT ![a] = [state |-> "in", arrived |-> hotplug, left |-> FALSE]]
    /\ UNCHANGED <<dev, main, phase, hotplug>>

Unplug(a) ==
    /\ plug[a].state = "in"
    /\ plug' = [plug EXCEPT ![a].state = "out", ![a].left = hotplug]
    /\ UNCHANGED <<dev, main, phase, hotplug>>

-----------------------------------------------------------------------------
(* Callbacks, while the main thread handles libusb events: in usb_process   *)
(* and usb_process_timeout, or in the busy-wait of usb_disconnect as long   *)
(* as transfers are left.  usb_shutdown ends the hotplug callbacks first.   *)

InEvents ==
    \/ main.at = "events"
    \/ main.at = "wait" /\ dev[main.addr].rx + dev[main.addr].tx > 0

\* What usb_device_add makes of address a: a known device is alive, a new one
\* is not ours or cannot be opened, or is listed and asked for its mode.
UsbDeviceAdd(a) ==
    IF dev[a].listed THEN {[dev[a] EXCEPT !.alive = TRUE]}
    ELSE {NoDev,
          [NoDev EXCEPT !.listed = TRUE, !.alive = TRUE, !.stage = "mode"],
          [NoDev EXCEPT !.listed = TRUE, !.stage = "failed"]}

\* Mutant: the hotplug callback is still registered during usb_shutdown.
HotplugArrived_Late(a) ==
    /\ InEvents /\ plug[a].arrived
    /\ plug' = [plug EXCEPT ![a].arrived = FALSE]
    /\ \E d \in UsbDeviceAdd(a) : dev' = [dev EXCEPT ![a] = d]
    /\ UNCHANGED <<main, phase, hotplug>>

\* usb_hotplug_cb for an arrival.
HotplugArrived(a) ==
    /\ InEvents /\ plug[a].arrived /\ phase # "shutdown"
    /\ plug' = [plug EXCEPT ![a].arrived = FALSE]
    /\ \E d \in UsbDeviceAdd(a) : dev' = [dev EXCEPT ![a] = d]
    /\ UNCHANGED <<main, phase, hotplug>>

\* usb_hotplug_cb for a departure: dead, and device_remove at once.
HotplugLeft(a) ==
    /\ InEvents /\ plug[a].left /\ ~plug[a].arrived /\ phase # "shutdown"
    /\ plug' = [plug EXCEPT ![a].left = FALSE]
    /\ dev' = [dev EXCEPT ![a].alive = FALSE, ![a].mux = FALSE]
    /\ UNCHANGED <<main, phase, hotplug>>

\* device_complete_initialization: a failure marks the device dead, success,
\* which needs the device to be there, marks it alive and asks for the language.
CompleteInitialization(a) ==
    {[dev[a] EXCEPT !.alive = FALSE, !.stage = "failed"]} \cup
    {[dev[a] EXCEPT !.alive = TRUE, !.stage = "langid"] : s \in {plug[a].state} \cap {"in"}}

\* get_mode_cb, switch_mode_cb.  After a mode switch the device leaves.
GetMode(a) == CompleteInitialization(a) \cup {[dev[a] EXCEPT !.stage = "switch"]}
SwitchMode(a) == CompleteInitialization(a) \cup {[dev[a] EXCEPT !.stage = "switched"]}

\* get_langid_callback: an error ends the initialisation.
GetLangid(d) == {[d EXCEPT !.stage = "serial"], [d EXCEPT !.stage = "failed"]}

\* get_serial_callback, unless it disconnects: an error, or device_add, which
\* sends the version packet, and as many read loops as could be started.
GetSerial(d) ==
    {[d EXCEPT !.stage = "failed"]} \cup
    {[d EXCEPT !.stage = "ready", !.mux = TRUE, !.tx = 1, !.rx = n] : n \in 1 .. NumRxLoops}

ControlDone(a) ==
    /\ InEvents /\ dev[a].stage \in {"mode", "switch", "langid", "serial"}
    /\ \E d \in CASE dev[a].stage = "mode"   -> GetMode(a)
                  [] dev[a].stage = "switch" -> SwitchMode(a)
                  [] dev[a].stage = "langid" -> GetLangid(dev[a])
                  [] dev[a].stage = "serial" -> GetSerial(dev[a]) :
        dev' = [dev EXCEPT ![a] = d]
    /\ UNCHANGED <<plug, main, phase, hotplug>>

\* The other outcome of get_serial_callback: device_add failed, or no read loop
\* could be started and device_remove follows.  usb_disconnect, whose nested
\* event handling fails, gives up its wait and frees the device; the version
\* packet that device_add sent is still pending then, and dropped at the close.
DisconnectInCallback(a) ==
    /\ InEvents /\ dev[a].stage = "serial"
    /\ dev' = [dev EXCEPT ![a] = NoDev]
    /\ UNCHANGED <<plug, main, phase, hotplug>>

\* device_data_input may answer with a packet.
Answered(d) == {d} \cup (IF d.mux /\ d.tx < MaxTx THEN {[d EXCEPT !.tx = @ + 1]} ELSE {})

\* rx_callback: data, and the transfer is submitted again; or an error.  A
\* cancelled transfer is an error.
RxCallback(a) ==
    /\ InEvents /\ dev[a].rx > dev[a].lost
    /\ \E d \in Answered(dev[a]) \cup
               {[dev[a] EXCEPT !.rx = @ - 1, !.alive = FALSE]} \cup
               {[d EXCEPT !.lost = @ + 1] : d \in IF ResubmitMayFail THEN Answered(dev[a]) ELSE {}} :
        /\ main.at = "wait" /\ main.addr = a => d.rx < dev[a].rx
        /\ dev' = [dev EXCEPT ![a] = d]
    /\ UNCHANGED <<plug, main, phase, hotplug>>

TxCallback(a) ==
    /\ InEvents /\ dev[a].tx > 0
    /\ \/ dev' = [dev EXCEPT ![a].tx = @ - 1]
       \/ dev' = [dev EXCEPT ![a].tx = @ - 1, ![a].alive = FALSE]
    /\ UNCHANGED <<plug, main, phase, hotplug>>

Callback(a) ==
    \/ HotplugArrived(a) \/ HotplugLeft(a) \/ ControlDone(a) \/ DisconnectInCallback(a)
    \/ RxCallback(a) \/ TxCallback(a)

-----------------------------------------------------------------------------
(* The main thread.                                                         *)

At(where, a, todo) == [at |-> where, addr |-> a, todo |-> todo]
Reaping == At("reap", 0, Addrs)

\* usb_send, on behalf of a client.
UsbSend(a) ==
    /\ main.at = "poll" /\ dev[a].mux /\ dev[a].tx < MaxTx
    /\ dev' = [dev EXCEPT ![a].tx = @ + 1]
    /\ UNCHANGED <<plug, main, phase, hotplug>>

\* usb_process, and the rounds of usb_process_timeout: libusb's events, then the
\* dead devices.
UsbProcess ==
    /\ \/ main.at = "poll" /\ main' = At("events", 0, {})
       \/ main.at = "events" /\ main' = Reaping
    /\ UNCHANGED <<plug, dev, phase, hotplug>>

\* The end of main_loop: device_kill_connections sends the last packets and
\* starts usb_process_timeout.
EndLoop == phase' = "kill" /\ main' = At("poll", 0, {})

\* A signal ends the main loop, or usb_process does when libusb could not list
\* the devices for the sixth time in a row (any failure may be the sixth).
LoopEnds ==
    /\ main.at = "poll" /\ phase = "loop" /\ EndLoop
    /\ UNCHANGED <<plug, dev, hotplug>>

\* libusb_handle_events_timeout fails: usb_process ends the main loop,
\* usb_process_timeout the wait for the last packets.
EventsFail ==
    /\ main.at = "events"
    /\ \/ phase = "loop" /\ EndLoop
       \/ phase = "kill" /\ phase' = "shutdown" /\ main' = Reaping
    /\ UNCHANGED <<plug, dev, hotplug>>

\* Mutant: the known devices are not marked dead before the scan.
UsbDiscover_NoMark ==
    /\ main.at = "poll" /\ phase = "loop"
    /\ \E a \in Addrs :
        /\ plug[a].state = "in"
        /\ \E d \in UsbDeviceAdd(a) : dev' = [dev EXCEPT ![a] = d]
    /\ main' = Reaping
    /\ UNCHANGED <<plug, phase, hotplug>>

\* usb_discover, when it is time to poll or on SIGUSR2: every device is marked
\* dead, those still plugged in are marked alive or added, the rest is reaped.
\* A scan for which libusb has no device list is skipped.
UsbDiscover ==
    /\ main.at = "poll" /\ phase = "loop"
    /\ \E found \in [Addrs -> UNION {UsbDeviceAdd(a) : a \in Addrs}] :
        /\ \A a \in Addrs : found[a] \in UsbDeviceAdd(a)
        /\ dev' = [a \in Addrs |-> IF plug[a].state = "in" THEN found[a]
                                   ELSE [dev[a] EXCEPT !.alive = FALSE]]
    /\ main' = Reaping
    /\ UNCHANGED <<plug, phase, hotplug>>

\* The devices to disconnect: those marked dead, in usb_shutdown all of them.
Dead(a) == dev[a].listed /\ (~dev[a].alive \/ phase = "shutdown")

\* The walk over the device list is over: back to ppoll, another round of
\* usb_process_timeout or usb_shutdown, or the end of the process.
WalkEnds ==
    \/ phase = "loop" /\ main' = At("poll", 0, {}) /\ UNCHANGED phase
    \/ phase = "kill" /\ main' = At("events", 0, {}) /\ UNCHANGED phase
    \/ phase = "kill" /\ main' = Reaping /\ phase' = "shutdown"
    \/ phase = "shutdown" /\ main' = At("exit", 0, {}) /\ UNCHANGED phase

\* Mutant: device.c is not told that the device goes.
ReapDeadDevices_Silent ==
    /\ main.at = "reap"
    /\ \/ /\ main.todo = {}
          /\ WalkEnds /\ UNCHANGED dev
       \/ \E a \in main.todo :
            /\ Dead(a)
            /\ main' = At("wait", a, main.todo \ {a})
            /\ UNCHANGED <<dev, phase>>
       \/ \E a \in main.todo :
            /\ ~Dead(a)
            /\ main' = At("reap", 0, main.todo \ {a})
            /\ UNCHANGED <<dev, phase>>
    /\ UNCHANGED <<plug, hotplug>>

\* reap_dead_devices, and the walk of usb_shutdown: for each device
\* device_remove, and the start of usb_disconnect.
ReapDeadDevices ==
    /\ main.at = "reap"
    /\ \/ /\ main.todo = {}
          /\ WalkEnds /\ UNCHANGED dev
       \/ \E a \in main.todo :
            /\ Dead(a)
            /\ main' = At("wait", a, main.todo \ {a})
            /\ dev' = [dev EXCEPT ![a].mux = FALSE] /\ UNCHANGED phase
       \/ \E a \in main.todo :
            /\ ~Dead(a)
            /\ main' = At("reap", 0, main.todo \ {a})
            /\ UNCHANGED <<dev, phase>>
    /\ UNCHANGED <<plug, hotplug>>

WaitOver(d) == d.rx = 0 /\ d.tx = 0

Free(a) ==
    /\ dev' = [dev EXCEPT ![a] = [NoDev EXCEPT !.mux = dev[a].mux]]
    /\ main' = At("reap", 0, main.todo)
    /\ UNCHANGED <<plug, phase, hotplug>>

\* usb_disconnect, all transfers have ended: the device is freed.
UsbDisconnect == main.at = "wait" /\ WaitOver(dev[main.addr]) /\ Free(main.addr)

\* usb_disconnect, libusb_handle_events_timeout fails: the wait is given up and
\* the device freed.  Its transfers are pending, and dropped at the close.
AbandonWait == main.at = "wait" /\ ~WaitOver(dev[main.addr]) /\ Free(main.addr)

-----------------------------------------------------------------------------
Init ==
    /\ plug = [a \in Addrs |-> [state |-> "never", arrived |-> FALSE, left |-> FALSE]]
    /\ dev = [a \in Addrs |-> NoDev]
    /\ main = At("poll", 0, {})
    /\ phase = "loop"
    /\ hotplug \in Modes

Next ==
    \/ UsbProcess \/ UsbDiscover \/ LoopEnds \/ EventsFail \/ ReapDeadDevices \/ UsbDisconnect
    \/ AbandonWait
    \/ \E a \in Addrs : Plug(a) \/ Unplug(a) \/ Callback(a) \/ UsbSend(a)

Spec == Init /\ [][Next]_vars

\* The main thread goes on, libusb delivers what it knows and ends the transfers
\* that were cancelled, and without hotplug events devices are polled for, not
\* always in vain.
FairSpec ==
    /\ Spec
    /\ WF_vars(UsbProcess) /\ WF_vars(ReapDeadDevices)
    /\ WF_vars(UsbDisconnect)
    /\ SF_vars(~hotplug /\ UsbDiscover)
    /\ \A a \in Addrs :
        /\ SF_vars(HotplugArrived(a)) /\ SF_vars(HotplugLeft(a))
        /\ WF_vars(main.addr = a /\ RxCallback(a)) /\ WF_vars(main.addr = a /\ TxCallback(a))

-----------------------------------------------------------------------------
\* Types: never more read transfers than read loops (get_serial_callback).
TypeOK ==
    /\ plug \in [Addrs -> [state : {"never", "in", "out"}, arrived : BOOLEAN, left : BOOLEAN]]
    /\ dev \in [Addrs -> [listed : BOOLEAN, alive : BOOLEAN, stage : Stages, rx : 0 .. NumRxLoops,
                           tx : 0 .. MaxTx, lost : 0 .. NumRxLoops, mux : BOOLEAN]]
    /\ main \in [at : {"poll", "events", "reap", "wait", "exit"}, addr : 0 .. MaxAddr,
                 todo : SUBSET Addrs]
    /\ phase \in {"loop", "kill", "shutdown"}
    /\ hotplug \in BOOLEAN

\* A device that device.c knows is in the list and fully set up: device.c
\* never keeps a pointer to a usb_device that usb_disconnect has freed.
MuxImpliesUsb == \A a \in Addrs : dev[a].mux => dev[a].listed /\ dev[a].stage = "ready"

\* usb_shutdown leaves no device open, and device.c knows none, although
\* callbacks of all devices run while it waits for the transfers of one: none of
\* them may add a device behind its walk over the list.
ShutdownClosesAll == main.at = "exit" => \A a \in Addrs : ~dev[a].listed /\ ~dev[a].mux

\* As long as the main loop runs, a device that is unplugged, at whatever stage,
\* is eventually removed from the list for good, unless libusb refused to take a
\* read transfer again: its callback never comes, and usb_disconnect waits for it.
DepartedIsForgotten ==
    \A a \in Addrs :
        plug[a].state = "out" ~> \/ [](~dev[a].listed) \/ phase # "loop"
                                 \/ \E b \in Addrs : dev[b].lost > 0

\* "mark it as dead and reap it after processing events" (rx_callback,
\* tx_callback): a device that is marked dead stays so until it is reaped.
DeadStaysDead ==
    [][\A a \in Addrs : dev[a].stage = "ready" /\ ~dev[a].alive => ~dev'[a].alive]_vars

\* "so we can close it in case of failure/disconnection" (usb_device_add): a
\* device whose initialisation failed is marked for closing.
InitFailureClosed == \A a \in Addrs : dev[a].stage = "failed" => ~dev[a].alive

\* "we can't usb_disconnect here due to a deadlock" (rx_callback): no callback
\* disconnects a device.
DisconnectOutsideCallbacks ==
    [][\A a \in Addrs : dev[a].listed /\ main.at = "events" => dev'[a].listed]_vars

\* "try to make sure the callbacks get called before we free the device"
\* (usb_disconnect): a device is freed without transfers.
FreedWithoutTransfers ==
    [][\A a \in Addrs : dev[a].listed /\ ~dev'[a].listed =>
            dev[a].rx = 0 /\ dev[a].tx = 0 /\ dev[a].stage # "serial"]_vars

\* "Busy-wait until all xfers are closed" (usb_disconnect): the wait ends.
DisconnectEnds == main.at = "wait" ~> main.at # "wait"

=============================================================================
