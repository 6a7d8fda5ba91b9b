-------------------------- MODULE UsbDevicesProofs --------------------------
(***************************************************************************)
(* That device.c never keeps a pointer to a usb_device that was freed, and *)
(* that usb_shutdown leaves none open, for any number of devices, read     *)
(* loops and writes in flight, whichever of them fail or leave at whatever *)
(* moment.                                                                 *)
(***************************************************************************)
EXTENDS UsbDevices, TLAPS

Rec == [listed : BOOLEAN, alive : BOOLEAN, stage : Stages, rx : 0 .. NumRxLoops, tx : 0 .. MaxTx,
        lost : 0 .. NumRxLoops, mux : BOOLEAN]

\* A device is known to device.c, and has transfers, only once it is set up.
Sound(d) ==
    /\ d.stage # "none" => d.listed
    /\ d.mux => d.stage = "ready"
    /\ d.stage # "ready" => d.rx = 0 /\ d.tx = 0

\* Besides, the device that usb_disconnect waits for is no longer known to
\* device.c.  It cannot become so again: a device without transfers ends the
\* wait at once, and only one without transfers is ever added.
SoundInv ==
    /\ TypeOK
    /\ \A a \in Addrs : Sound(dev[a])
    /\ main.at = "wait" => main.addr \in Addrs /\ ~dev[main.addr].mux

\* A usb_device that was freed, or never opened.
LEMMA NoDevSound == NoDev \in Rec /\ Sound(NoDev) /\ ~NoDev.mux
BY UsbAssumption DEF NoDev, Rec, Sound, Stages

\* usb_device_add.
LEMMA UsbDeviceAddSound ==
    ASSUME NEW a \in Addrs, dev[a] \in Rec, Sound(dev[a]), NEW d \in UsbDeviceAdd(a)
    PROVE  d \in Rec /\ Sound(d) /\ (d.mux => dev[a].mux)
<1>1. CASE dev[a].listed
  <2>1. d = [dev[a] EXCEPT !.alive = TRUE]
    BY <1>1 DEF UsbDeviceAdd
  <2> QED
    BY <2>1 DEF Rec, Sound
<1>2. CASE ~dev[a].listed
  <2> DEFINE opened == [NoDev EXCEPT !.listed = TRUE, !.alive = TRUE, !.stage = "mode"]
             unread == [NoDev EXCEPT !.listed = TRUE, !.stage = "failed"]
  <2>1. opened \in Rec /\ unread \in Rec
    BY NoDevSound DEF Rec, Stages
  <2>2. NoDev.rx = 0 /\ NoDev.tx = 0 /\ NoDev.mux = FALSE
    BY DEF NoDev
  <2>3. Sound(opened) /\ ~opened.mux /\ Sound(unread) /\ ~unread.mux
    BY <2>2, NoDevSound DEF Rec, Sound
  <2> QED
    BY <1>2, <2>1, <2>3, NoDevSound DEF UsbDeviceAdd
<1> QED
  BY <1>1, <1>2

\* The callbacks of the control transfers.  get_serial_callback hands the
\* device to device.c only from a stage in which no bulk transfer exists.
LEMMA ControlDoneSound ==
    ASSUME NEW a \in Addrs, dev[a] \in Rec, Sound(dev[a]), ControlDone(a)
    PROVE  \E d \in Rec : Sound(d) /\ dev' = [dev EXCEPT ![a] = d]
<1> DEFINE D == dev[a]
<1>1. CASE D.stage = "mode"
  <2>1. PICK d \in GetMode(a) : dev' = [dev EXCEPT ![a] = d]
    BY <1>1 DEF ControlDone
  <2>2. \/ d = [D EXCEPT !.alive = FALSE, !.stage = "failed"]
        \/ d = [D EXCEPT !.alive = TRUE, !.stage = "langid"]
        \/ d = [D EXCEPT !.stage = "switch"]
    BY <2>1 DEF GetMode, CompleteInitialization
  <2> QED
    BY <1>1, <2>1, <2>2 DEF Rec, Sound, Stages
<1>2. CASE D.stage = "switch"
  <2>1. PICK d \in SwitchMode(a) : dev' = [dev EXCEPT ![a] = d]
    BY <1>2 DEF ControlDone
  <2>2. \/ d = [D EXCEPT !.alive = FALSE, !.stage = "failed"]
        \/ d = [D EXCEPT !.alive = TRUE, !.stage = "langid"]
        \/ d = [D EXCEPT !.stage = "switched"]
    BY <2>1 DEF SwitchMode, CompleteInitialization
  <2> QED
    BY <1>2, <2>1, <2>2 DEF Rec, Sound, Stages
<1>3. CASE D.stage = "langid"
  <2>1. PICK d \in GetLangid(D) : dev' = [dev EXCEPT ![a] = d]
    BY <1>3 DEF ControlDone
  <2> QED
    BY <1>3, <2>1 DEF GetLangid, Rec, Sound, Stages
<1>4. CASE D.stage = "serial"
  <2>1. PICK d \in GetSerial(D) : dev' = [dev EXCEPT ![a] = d]
    BY <1>4 DEF ControlDone
  <2>2. CASE d = [D EXCEPT !.stage = "failed"]
    BY <1>4, <2>1, <2>2 DEF Rec, Sound, Stages
  <2>3. ASSUME NEW n \in 1 .. NumRxLoops,
               d = [D EXCEPT !.stage = "ready", !.mux = TRUE, !.tx = 1, !.rx = n]
        PROVE  d \in Rec /\ Sound(d)
    <3>1. n \in 0 .. NumRxLoops /\ 1 \in 0 .. MaxTx /\ "ready" \in Stages
      BY UsbAssumption DEF Stages
    <3> QED
      BY <1>4, <2>3, <3>1 DEF Rec, Sound
  <2> QED
    BY <2>1, <2>2, <2>3 DEF GetSerial
<1> QED
  BY <1>1, <1>2, <1>3, <1>4 DEF ControlDone

\* rx_callback, with an answer, without, with an error, or with a transfer that
\* libusb does not take again.
LEMMA RxCallbackSound ==
    ASSUME NEW a \in Addrs, dev[a] \in Rec, Sound(dev[a]), RxCallback(a)
    PROVE  \E d \in Rec : /\ Sound(d) /\ d.mux = dev[a].mux /\ d.listed
                        /\ dev' = [dev EXCEPT ![a] = d]
<1> DEFINE D == dev[a]
<1>1. PICK d : /\ d \in Answered(D) \cup {[D EXCEPT !.rx = @ - 1, !.alive = FALSE]}
                        \cup {[e EXCEPT !.lost = @ + 1] : e \in Answered(D)}
              /\ dev' = [dev EXCEPT ![a] = d]
  BY DEF RxCallback
<1>2. D.rx \in 0 .. NumRxLoops /\ D.lost \in 0 .. NumRxLoops /\ D.tx \in 0 .. MaxTx /\ D.rx > D.lost
  BY DEF RxCallback, Rec
<1>3. D.stage = "ready"
  BY <1>2, UsbAssumption DEF Sound
<1>4. ASSUME NEW e \in Answered(D)
      PROVE  e \in Rec /\ Sound(e) /\ e.mux = D.mux /\ e.lost = D.lost /\ e.stage = "ready"
  <2>1. CASE e = D
    BY <1>3, <2>1
  <2>2. CASE D.tx < MaxTx /\ e = [D EXCEPT !.tx = @ + 1]
    <3>1. D.tx + 1 \in 0 .. MaxTx
      BY <1>2, <2>2, UsbAssumption
    <3> QED
      BY <1>3, <2>2, <3>1 DEF Rec, Sound
  <2> QED
    BY <1>4, <2>1, <2>2 DEF Answered
<1>5. CASE d \in Answered(D)
  BY <1>1, <1>4, <1>5 DEF Sound
<1>6. CASE d = [D EXCEPT !.rx = @ - 1, !.alive = FALSE]
  <2>1. D.rx - 1 \in 0 .. NumRxLoops
    BY <1>2, UsbAssumption
  <2> QED
    BY <1>1, <1>3, <1>6, <2>1 DEF Rec, Sound
<1>7. ASSUME NEW e \in Answered(D), d = [e EXCEPT !.lost = @ + 1]
      PROVE  d \in Rec /\ Sound(d) /\ d.mux = D.mux /\ d.listed
  <2>1. e.lost + 1 \in 0 .. NumRxLoops
    BY <1>2, <1>4, <1>7, UsbAssumption
  <2> QED
    BY <1>4, <1>7, <2>1 DEF Rec, Sound
<1> QED
  BY <1>1, <1>5, <1>6, <1>7

\* tx_callback.
LEMMA TxCallbackSound ==
    ASSUME NEW a \in Addrs, dev \in [Addrs -> Rec], Sound(dev[a]), TxCallback(a)
    PROVE  \E d \in Rec : Sound(d) /\ d.mux = dev[a].mux /\ dev' = [dev EXCEPT ![a] = d]
<1> DEFINE D == dev[a]
<1>1. D \in Rec /\ D.tx > 0 /\ D.tx \in 0 .. MaxTx
  BY DEF TxCallback, Rec
<1>2. D.stage = "ready" /\ D.tx - 1 \in 0 .. MaxTx
  BY <1>1, UsbAssumption DEF Sound
<1>3. CASE dev' = [dev EXCEPT ![a].tx = @ - 1]
  <2> DEFINE d == [D EXCEPT !.tx = @ - 1]
  <2>1. d \in Rec /\ Sound(d) /\ d.mux = D.mux
    BY <1>1, <1>2 DEF Rec, Sound
  <2> QED
    BY <1>3, <2>1
<1>4. CASE dev' = [dev EXCEPT ![a].tx = @ - 1, ![a].alive = FALSE]
  <2> DEFINE d == [D EXCEPT !.tx = @ - 1, !.alive = FALSE]
  <2>1. d \in Rec /\ Sound(d) /\ d.mux = D.mux
    BY <1>1, <1>2 DEF Rec, Sound
  <2>2. dev' = [dev EXCEPT ![a] = d]
    BY <1>4
  <2> QED
    BY <2>1, <2>2
<1> QED
  BY <1>3, <1>4 DEF TxCallback

-----------------------------------------------------------------------------
Plugs == [Addrs -> [state : {"never", "in", "out"}, arrived : BOOLEAN, left : BOOLEAN]]
Mains == [at : {"poll", "events", "reap", "wait", "exit"}, addr : 0 .. MaxAddr, todo : SUBSET Addrs]
Phases == {"loop", "kill", "shutdown"}

\* The type invariant, by its parts.
LEMMA TypeParts ==
    TypeOK <=> /\ plug \in Plugs /\ dev \in [Addrs -> Rec] /\ main \in Mains
               /\ phase \in Phases /\ hotplug \in BOOLEAN
BY DEF TypeOK, Plugs, Rec, Mains, Phases

\* A step that changes one device, outside or inside the wait for it.
LEMMA OneDeviceChanges ==
    ASSUME SoundInv, NEW a \in Addrs, NEW d \in Rec, Sound(d), dev' = [dev EXCEPT ![a] = d],
           main.at = "wait" /\ main.addr = a => ~d.mux,
           plug' \in Plugs, UNCHANGED <<main, phase, hotplug>>
    PROVE  SoundInv'
<1>1. /\ plug \in Plugs /\ dev \in [Addrs -> Rec] /\ main \in Mains
      /\ phase \in Phases /\ hotplug \in BOOLEAN
  BY TypeParts DEF SoundInv
<1>2. dev' \in [Addrs -> Rec] /\ \A b \in Addrs : dev'[b] = IF b = a THEN d ELSE dev[b]
  BY <1>1
<1>3. (/\ plug \in Plugs /\ dev \in [Addrs -> Rec] /\ main \in Mains
       /\ phase \in Phases /\ hotplug \in BOOLEAN)'
  BY <1>1, <1>2
<1>4. TypeOK'
  BY <1>3, TypeParts, PTL
<1>5. \A b \in Addrs : Sound(dev'[b])
  BY <1>2 DEF SoundInv
<1>6. main'.at = "wait" => main'.addr \in Addrs /\ ~dev'[main'.addr].mux
  BY <1>2 DEF SoundInv
<1> QED
  BY <1>4, <1>5, <1>6 DEF SoundInv, Sound

\* The callbacks keep it, whichever device they are for and wherever the main
\* thread handles events.
LEMMA CallbackKeepsSound ==
    ASSUME SoundInv, NEW a \in Addrs, Callback(a)
    PROVE  SoundInv'
<1> DEFINE D == dev[a]
<1>1. /\ plug \in Plugs /\ dev \in [Addrs -> Rec] /\ phase \in Phases
      /\ D \in Rec /\ Sound(D)
      /\ main.at = "wait" /\ main.addr = a => ~D.mux
  BY TypeParts DEF SoundInv
<1>2. CASE HotplugArrived(a)
  <2>1. PICK d \in UsbDeviceAdd(a) : dev' = [dev EXCEPT ![a] = d]
    BY <1>2 DEF HotplugArrived
  <2>2. plug' \in Plugs
    BY <1>1, <1>2 DEF HotplugArrived, Plugs
  <2>3. d \in Rec /\ Sound(d) /\ (d.mux => D.mux)
    BY <1>1, UsbDeviceAddSound
  <2> QED
    BY <1>1, <1>2, <2>1, <2>2, <2>3, OneDeviceChanges DEF HotplugArrived
<1>3. CASE HotplugLeft(a)
  <2> DEFINE d == [D EXCEPT !.alive = FALSE, !.mux = FALSE]
  <2>1. d \in Rec /\ Sound(d) /\ ~d.mux
    BY <1>1 DEF Rec, Sound
  <2>2. dev' = [dev EXCEPT ![a] = d]
    BY <1>1, <1>3 DEF HotplugLeft
  <2>3. plug' \in Plugs
    BY <1>1, <1>3 DEF HotplugLeft, Plugs
  <2> HIDE DEF d
  <2> QED
    BY <1>1, <1>3, <2>1, <2>2, <2>3, OneDeviceChanges DEF HotplugLeft
<1>4. CASE ControlDone(a)
  <2>1. PICK d \in Rec : Sound(d) /\ dev' = [dev EXCEPT ![a] = d]
    BY <1>1, <1>4, ControlDoneSound
  <2>2. D.rx = 0 /\ D.tx = 0
    BY <1>1, <1>4 DEF ControlDone, Sound
  <2>3. ~(main.at = "wait" /\ main.addr = a)
    BY <1>4, <2>2 DEF ControlDone, InEvents
  <2> QED
    BY <1>1, <1>4, <2>1, <2>3, OneDeviceChanges DEF ControlDone
<1>5. CASE DisconnectInCallback(a)
  BY <1>1, <1>5, NoDevSound, OneDeviceChanges DEF DisconnectInCallback
<1>6. CASE RxCallback(a)
  <2>1. PICK d \in Rec : Sound(d) /\ d.mux = D.mux /\ dev' = [dev EXCEPT ![a] = d]
    BY <1>1, <1>6, RxCallbackSound
  <2> QED
    BY <1>1, <1>6, <2>1, OneDeviceChanges DEF RxCallback
<1>7. CASE TxCallback(a)
  <2>1. PICK d \in Rec : Sound(d) /\ d.mux = D.mux /\ dev' = [dev EXCEPT ![a] = d]
    BY <1>1, <1>7, TxCallbackSound
  <2> QED
    BY <1>1, <1>7, <2>1, OneDeviceChanges DEF TxCallback
<1> QED
  BY <1>2, <1>3, <1>4, <1>5, <1>6, <1>7 DEF Callback

\* A step of the main thread that changes all devices and where it is.
LEMMA MainMoves ==
    ASSUME SoundInv, main' \in Mains, dev' \in [Addrs -> Rec],
           \A a \in Addrs : Sound(dev'[a]),
           main'.at = "wait" => main'.addr \in Addrs /\ ~dev'[main'.addr].mux,
           phase' \in Phases, UNCHANGED <<plug, hotplug>>
    PROVE  SoundInv'
<1>1. (/\ plug \in Plugs /\ dev \in [Addrs -> Rec] /\ main \in Mains
       /\ phase \in Phases /\ hotplug \in BOOLEAN)'
  BY TypeParts DEF SoundInv
<1>2. TypeOK'
  BY <1>1, TypeParts, PTL
<1> QED
  BY <1>2 DEF SoundInv, Sound

\* Where the main thread may be.
LEMMA AtType ==
    ASSUME NEW at \in {"poll", "events", "reap", "wait", "exit"}, NEW a \in 0 .. MaxAddr,
           NEW todo \in SUBSET Addrs
    PROVE  /\ At(at, a, todo) \in Mains /\ At(at, a, todo).at = at /\ At(at, a, todo).addr = a
           /\ At(at, a, todo).todo = todo
BY DEF At, Mains

\* The main thread keeps it: reap_dead_devices tells device.c before it waits.
LEMMA NextKeepsSound ==
    ASSUME SoundInv, [Next]_vars
    PROVE  SoundInv'
<1>1. /\ plug \in Plugs /\ dev \in [Addrs -> Rec] /\ main \in Mains
      /\ phase \in Phases /\ hotplug \in BOOLEAN
      /\ \A a \in Addrs : dev[a] \in Rec /\ Sound(dev[a])
      /\ main.todo \in SUBSET Addrs
      /\ main.at = "wait" => main.addr \in Addrs /\ ~dev[main.addr].mux
  BY TypeParts DEF SoundInv, Mains
<1>2. 0 \in 0 .. MaxAddr /\ \A a \in Addrs : a \in 0 .. MaxAddr
  BY UsbAssumption DEF Addrs
<1>3. CASE UNCHANGED vars
  BY <1>1, <1>3, MainMoves DEF vars
<1>4. CASE UsbProcess \/ LoopEnds \/ EventsFail
  <2>1. main' \in Mains /\ main'.at # "wait" /\ phase' \in Phases
    BY <1>1, <1>2, <1>4, AtType DEF UsbProcess, LoopEnds, EventsFail, EndLoop, Reaping, Phases
  <2> QED
    BY <1>1, <1>4, <2>1, MainMoves DEF UsbProcess, LoopEnds, EventsFail
<1>5. CASE UsbDiscover
  <2>1. main' \in Mains /\ main'.at # "wait"
    BY <1>2, <1>5, AtType DEF UsbDiscover, Reaping
  <2>2. PICK found : /\ \A a \in Addrs : found[a] \in UsbDeviceAdd(a)
                     /\ dev' = [a \in Addrs |-> IF plug[a].state = "in" THEN found[a]
                                                 ELSE [dev[a] EXCEPT !.alive = FALSE]]
    BY <1>5 DEF UsbDiscover
  <2>3. ASSUME NEW a \in Addrs
        PROVE  LET d == [dev[a] EXCEPT !.alive = FALSE] IN d \in Rec /\ Sound(d)
    <3>1. dev[a] \in Rec /\ Sound(dev[a])
      BY <1>1
    <3> QED
      BY <3>1 DEF Rec, Sound
  <2>4. \A a \in Addrs : found[a] \in Rec /\ Sound(found[a])
    BY <1>1, <2>2, UsbDeviceAddSound
  <2>5. dev' \in [Addrs -> Rec] /\ \A a \in Addrs : Sound(dev'[a])
    BY <2>2, <2>3, <2>4
  <2> QED
    BY <1>1, <1>5, <2>1, <2>5, MainMoves DEF UsbDiscover
<1>6. CASE ReapDeadDevices
  <2>1. CASE WalkEnds /\ UNCHANGED dev
    <3>1. main' \in Mains /\ main'.at # "wait" /\ phase' \in Phases
      BY <1>1, <1>2, <2>1, AtType DEF WalkEnds, Reaping, Phases
    <3> QED
      BY <1>1, <1>6, <2>1, <3>1, MainMoves DEF ReapDeadDevices
  <2>2. ASSUME NEW a \in main.todo, main' = At("reap", 0, main.todo \ {a}), UNCHANGED <<dev, phase>>
        PROVE  SoundInv'
    <3>1. main' \in Mains /\ main'.at # "wait"
      BY <1>1, <1>2, <2>2, AtType
    <3> QED
      BY <1>1, <1>6, <2>2, <3>1, MainMoves DEF ReapDeadDevices
  <2>3. ASSUME NEW a \in main.todo, main' = At("wait", a, main.todo \ {a}),
               dev' = [dev EXCEPT ![a].mux = FALSE], UNCHANGED phase
        PROVE  SoundInv'
    <3> DEFINE d == [dev[a] EXCEPT !.mux = FALSE]
    <3>1. a \in Addrs /\ main' \in Mains /\ main'.addr = a
      BY <1>1, <1>2, <2>3, AtType
    <3>2. d \in Rec /\ Sound(d) /\ ~d.mux
      <4>1. dev[a] \in Rec /\ Sound(dev[a])
        BY <1>1, <3>1
      <4> QED
        BY <4>1 DEF Rec, Sound
    <3>3. dev' = [dev EXCEPT ![a] = d]
      BY <1>1, <2>3
    <3> HIDE DEF d
    <3>4. dev' \in [Addrs -> Rec] /\ (\A b \in Addrs : Sound(dev'[b])) /\ ~dev'[a].mux
      BY <1>1, <3>1, <3>2, <3>3
    <3> QED
      BY <1>1, <1>6, <2>3, <3>1, <3>4, MainMoves DEF ReapDeadDevices
  <2> QED
    BY <1>6, <2>1, <2>2, <2>3 DEF ReapDeadDevices
<1>7. CASE UsbDisconnect \/ AbandonWait
  <2> DEFINE a == main.addr
  <2>1. a \in Addrs /\ dev' = [dev EXCEPT ![a] = NoDev]
    <3>1. a \in Addrs /\ dev[a].mux = FALSE
      BY <1>1, <1>7 DEF UsbDisconnect, AbandonWait, Free, Rec
    <3>2. [NoDev EXCEPT !.mux = FALSE] = NoDev
      BY NoDevSound DEF Rec
    <3> QED
      BY <1>7, <3>1, <3>2 DEF UsbDisconnect, AbandonWait, Free
  <2>2. main' \in Mains /\ main'.at # "wait"
    BY <1>1, <1>2, <1>7, AtType DEF UsbDisconnect, AbandonWait, Free
  <2>3. dev' \in [Addrs -> Rec] /\ \A b \in Addrs : Sound(dev'[b])
    BY <1>1, <2>1, NoDevSound
  <2> QED
    BY <1>1, <1>7, <2>2, <2>3, MainMoves DEF UsbDisconnect, AbandonWait, Free
<1>8. ASSUME NEW a \in Addrs, Plug(a) \/ Unplug(a)
      PROVE  SoundInv'
  <2> DEFINE P == [state |-> "in", arrived |-> hotplug, left |-> FALSE]
             U == [plug[a] EXCEPT !.state = "out", !.left = hotplug]
             PlugRec == [state : {"never", "in", "out"}, arrived : BOOLEAN, left : BOOLEAN]
  <2>0. P \in PlugRec /\ U \in PlugRec
    BY <1>1 DEF Plugs
  <2>1. plug' \in Plugs
    <3>1. plug' = [plug EXCEPT ![a] = P] \/ plug' = [plug EXCEPT ![a] = U]
      BY <1>1, <1>8 DEF Plug, Unplug, Plugs
    <3> HIDE DEF P, U
    <3> QED
      BY <1>1, <2>0, <3>1 DEF Plugs
  <2>2. dev' = [dev EXCEPT ![a] = dev[a]]
    BY <1>1, <1>8 DEF Plug, Unplug
  <2> QED
    BY <1>1, <1>8, <2>1, <2>2, OneDeviceChanges DEF Plug, Unplug
<1>9. ASSUME NEW a \in Addrs, UsbSend(a)
      PROVE  SoundInv'
  <2> DEFINE d == [dev[a] EXCEPT !.tx = @ + 1]
  <2>1. dev[a].tx + 1 \in 0 .. MaxTx /\ dev[a].stage = "ready"
    BY <1>1, <1>9, UsbAssumption DEF UsbSend, Rec, Sound
  <2>2. d \in Rec /\ Sound(d)
    BY <1>1, <2>1 DEF Rec, Sound
  <2>3. dev' = [dev EXCEPT ![a] = d]
    BY <1>1, <1>9 DEF UsbSend
  <2>4. main.at # "wait"
    BY <1>9 DEF UsbSend
  <2> HIDE DEF d
  <2> QED
    BY <1>1, <1>9, <2>2, <2>3, <2>4, OneDeviceChanges DEF UsbSend
<1> QED
  BY <1>3, <1>4, <1>5, <1>6, <1>7, <1>8, <1>9, CallbackKeepsSound DEF Next

\* It holds at first.
LEMMA InitSound == Init => SoundInv
<1> SUFFICES ASSUME Init PROVE SoundInv
  OBVIOUS
<1>1. main \in Mains /\ main.at # "wait"
  BY UsbAssumption, AtType DEF Init
<1>2. dev \in [Addrs -> Rec] /\ \A a \in Addrs : Sound(dev[a])
  BY NoDevSound DEF Init
<1>3. plug \in Plugs /\ phase \in Phases /\ hotplug \in BOOLEAN
  BY UsbAssumption DEF Init, Plugs, Phases
<1> QED
  BY <1>1, <1>2, <1>3, TypeParts DEF SoundInv

-----------------------------------------------------------------------------
\* device.c never keeps a pointer to a usb_device that was freed, whatever
\* fails, with any number of devices, read loops and writes in flight.
THEOREM NoDanglingDevice == Spec => []MuxImpliesUsb
<1>1. SoundInv => MuxImpliesUsb
  BY DEF SoundInv, Sound, MuxImpliesUsb
<1>2. SoundInv /\ [Next]_vars => SoundInv'
  BY NextKeepsSound
<1> QED
  BY <1>1, <1>2, InitSound, PTL DEF Spec

-----------------------------------------------------------------------------
\* The walk of usb_shutdown: the devices it has passed are closed.
Walked ==
    /\ main.at = "exit" => phase = "shutdown" /\ main.todo = {}
    /\ phase = "shutdown" =>
        /\ main.at \in {"reap", "wait", "exit"}
        /\ \A a \in Addrs : a \in main.todo \/ (main.at = "wait" /\ main.addr = a) \/ ~dev[a].listed

\* During usb_shutdown only a device that is listed calls back.
LEMMA ListedCallsBack ==
    ASSUME SoundInv, phase = "shutdown", NEW a \in Addrs, Callback(a)
    PROVE  dev[a].listed /\ \E d : dev' = [dev EXCEPT ![a] = d]
<1>1. dev[a] \in Rec /\ Sound(dev[a]) /\ dev \in [Addrs -> Rec]
  BY TypeParts DEF SoundInv
<1>2. CASE ControlDone(a) \/ DisconnectInCallback(a)
  BY <1>1, <1>2 DEF ControlDone, DisconnectInCallback, Sound
<1>3. CASE RxCallback(a)
  <2>1. dev[a].rx # 0
    BY <1>1, <1>3, UsbAssumption DEF RxCallback, Rec
  <2>2. dev[a].listed
    BY <1>1, <2>1 DEF Sound
  <2>3. \E d \in Rec : dev' = [dev EXCEPT ![a] = d]
    BY <1>1, <1>3, RxCallbackSound
  <2> QED
    BY <2>2, <2>3
<1>4. CASE TxCallback(a)
  <2>1. dev[a].listed
    BY <1>1, <1>4 DEF TxCallback, Sound
  <2>2. \E d \in Rec : dev' = [dev EXCEPT ![a] = d]
    BY <1>1, <1>4, TxCallbackSound
  <2> QED
    BY <2>1, <2>2
<1> QED
  BY <1>2, <1>3, <1>4 DEF Callback, HotplugArrived, HotplugLeft

LEMMA NextKeepsWalked ==
    ASSUME SoundInv, Walked, [Next]_vars
    PROVE  Walked'
<1>1. /\ dev \in [Addrs -> Rec] /\ main \in Mains /\ main.todo \in SUBSET Addrs
      /\ main.at = "wait" => main.addr \in Addrs
  BY TypeParts DEF SoundInv, Mains
<1>2. 0 \in 0 .. MaxAddr /\ \A a \in Addrs : a \in 0 .. MaxAddr
  BY UsbAssumption DEF Addrs
<1>3. CASE UNCHANGED <<dev, main, phase>>
  BY <1>3 DEF Walked
<1>4. CASE UsbProcess \/ LoopEnds \/ EventsFail
  <2>1. /\ main'.at # "exit" /\ UNCHANGED dev
        /\ phase' = "shutdown" => main'.at = "reap" /\ main'.todo = Addrs
    BY <1>2, <1>4, AtType DEF UsbProcess, LoopEnds, EventsFail, EndLoop, Reaping, Walked
  <2> QED
    BY <2>1 DEF Walked
<1>5. CASE UsbDiscover
  BY <1>2, <1>5, AtType DEF UsbDiscover, Reaping, Walked
<1>6. CASE ReapDeadDevices
  <2>1. CASE main.todo = {} /\ WalkEnds /\ UNCHANGED dev
    <3>1. CASE phase' = "shutdown" /\ phase # "shutdown"
      BY <1>2, <2>1, <3>1, AtType DEF WalkEnds, Reaping, Walked
    <3>2. CASE phase' # "shutdown"
      BY <1>2, <2>1, <3>2, AtType DEF WalkEnds, Reaping, Walked
    <3>3. CASE phase = "shutdown"
      <4>1. main'.at = "exit" /\ main'.todo = {} /\ phase' = phase
        BY <1>2, <2>1, <3>3, AtType DEF WalkEnds
      <4>2. main.at = "reap"
        BY <1>6 DEF ReapDeadDevices
      <4> QED
        BY <2>1, <3>3, <4>1, <4>2 DEF Walked
    <3> QED
      BY <3>1, <3>2, <3>3
  <2>2. ASSUME NEW a \in main.todo, ~Dead(a), main' = At("reap", 0, main.todo \ {a}),
               UNCHANGED <<dev, phase>>
        PROVE  Walked'
    <3>1. main'.at = "reap" /\ main'.todo = main.todo \ {a} /\ main.at = "reap"
      BY <1>1, <1>2, <1>6, <2>2, AtType DEF ReapDeadDevices
    <3> QED
      BY <2>2, <3>1 DEF Walked, Dead
  <2>3. ASSUME NEW a \in main.todo, main' = At("wait", a, main.todo \ {a}),
               dev' = [dev EXCEPT ![a].mux = FALSE], UNCHANGED phase
        PROVE  Walked'
    <3>1. main'.at = "wait" /\ main'.addr = a /\ main'.todo = main.todo \ {a} /\ main.at = "reap"
      BY <1>1, <1>2, <1>6, <2>3, AtType DEF ReapDeadDevices
    <3>2. \A b \in Addrs : b # a => dev'[b] = dev[b]
      BY <1>1, <2>3
    <3> QED
      BY <2>3, <3>1, <3>2 DEF Walked
  <2> QED
    BY <1>6, <2>1, <2>2, <2>3 DEF ReapDeadDevices
<1>7. CASE UsbDisconnect \/ AbandonWait
  <2>1. /\ main.at = "wait" /\ dev' = [dev EXCEPT ![main.addr] = [NoDev EXCEPT !.mux = dev[main.addr].mux]]
        /\ main' = At("reap", 0, main.todo) /\ UNCHANGED phase
    BY <1>7 DEF UsbDisconnect, AbandonWait, Free
  <2>2. main'.at = "reap" /\ main'.todo = main.todo
    BY <1>1, <1>2, <2>1, AtType
  <2>3. ~dev'[main.addr].listed /\ \A b \in Addrs : b # main.addr => dev'[b] = dev[b]
    BY <1>1, <2>1 DEF NoDev
  <2> QED
    BY <2>1, <2>2, <2>3 DEF Walked
<1>8. ASSUME NEW a \in Addrs, Callback(a)
      PROVE  Walked'
  <2>1. UNCHANGED <<main, phase>>
    BY <1>8 DEF Callback, HotplugArrived, HotplugLeft, ControlDone, DisconnectInCallback,
                RxCallback, TxCallback
  <2>2. CASE phase # "shutdown"
    BY <2>1, <2>2 DEF Walked
  <2>3. CASE phase = "shutdown"
    <3>1. dev[a].listed /\ \A b \in Addrs : b # a => dev'[b] = dev[b]
      BY <1>1, <1>8, <2>3, ListedCallsBack
    <3> QED
      BY <2>1, <2>3, <3>1 DEF Walked
  <2> QED
    BY <2>2, <2>3
<1>9. ASSUME NEW a \in Addrs, UsbSend(a)
      PROVE  Walked'
  BY <1>9 DEF UsbSend, Walked
<1> QED
  BY <1>3, <1>4, <1>5, <1>6, <1>7, <1>8, <1>9 DEF Next, vars, Plug, Unplug

\* usb_shutdown leaves no usb_device open and none known to device.c, with any
\* number of devices, and whatever the callbacks that run in its waits do.
THEOREM NothingLeftOpen == Spec => []ShutdownClosesAll
<1>1. Init => Walked
  <2>1. 0 \in 0 .. MaxAddr
    BY UsbAssumption
  <2> QED
    BY <2>1, AtType DEF Init, Walked
<1>2. SoundInv /\ Walked /\ [Next]_vars => SoundInv' /\ Walked'
  BY NextKeepsSound, NextKeepsWalked
<1>3. SoundInv /\ Walked => ShutdownClosesAll
  BY DEF SoundInv, Sound, Walked, ShutdownClosesAll
<1> QED
  BY <1>1, <1>2, <1>3, InitSound, PTL DEF Spec

=============================================================================
