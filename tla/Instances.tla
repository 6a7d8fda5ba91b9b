------------------------------ MODULE Instances ------------------------------
(***************************************************************************)
(* Several usbmuxd processes on one host: src/src/main.c.  Each parses its *)
(* options, looks through the pidfile for an instance that is running,     *)
(* signals it or takes its place, turns into a daemon, locks a pidfile of  *)
(* its own, opens the listening socket, initialises, tells the process it  *)
(* was forked from how that went, and serves until a signal ends it.       *)
(*                                                                         *)
(* What the kernel does is modelled from its use here.  A lock belongs to  *)
(* the process that placed it and ends with it; the signals the daemon     *)
(* handles are blocked except inside ppoll; udev runs the commands of its  *)
(* rules (udev/39-usbmuxd.rules.in) one after the other.  One device can   *)
(* be plugged in; how it is brought up is in UsbDevices.                   *)
(***************************************************************************)
EXTENDS Integers, Sequences

CONSTANTS
    MaxProc,      \* bound: processes started in a run
    Args,         \* command lines users start the daemon with
    Udev,         \* whether udev starts it, by its rules
    MaxPlugs,     \* bound: times the device is plugged in
    MaxKill,      \* bound: processes killed by something else than their signal handler
    Ppoll,        \* HAVE_PPOLL: the values it may have
    CallsMayFail  \* whether a system call of the start-up may fail

Procs == 1 .. MaxProc
Letters == {"f", "u", "s", "n", "z", "x", "X", "N", "T"}
Options == [foreground : BOOLEAN, disable_hotplug : BOOLEAN, enable_exit : BOOLEAN,
            exit : {"none", "USR1", "TERM"}, lockfile : BOOLEAN, tcp : BOOLEAN]

\* parse_opts.  N stands for "-P NONE", T for "-S ADDR:PORT"; the options that
\* print something and exit, or set what is not modelled here, are left out.
ParseOpts(args) ==
    LET given == {args[i] : i \in DOMAIN args}
        ends == {i \in DOMAIN args : args[i] \in {"x", "X"}}
        last == CHOOSE i \in ends : \A j \in ends : j <= i
    IN  [foreground |-> given \cap {"f", "s"} # {},
         disable_hotplug |-> given \cap {"n", "u"} # {},
         enable_exit |-> given \cap {"z", "u", "s"} # {},
         exit |-> IF ends = {} THEN "none" ELSE IF args[last] = "x" THEN "USR1" ELSE "TERM",
         lockfile |-> "N" \notin given,
         tcp |-> "T" \in given]

ASSUME InstancesAssumption ==
    /\ MaxProc \in Nat /\ MaxPlugs \in Nat /\ MaxKill \in Nat
    /\ Args \subseteq Seq(Letters)
    /\ \A a \in Args \cup {<<>>, <<"u">>, <<"x">>} : ParseOpts(a) \in Options
    /\ {Udev, CallsMayFail} \cup Ppoll \subseteq BOOLEAN

VARIABLES
    pc,       \* where each process is
    opts,     \* its options
    seen,     \* the pidfile it opened, then the owner of the lock on it
    parent,   \* the process that waits for it to report, and how that one ended
    sigs,     \* signals sent to it and not delivered
    discover, \* should_discover
    devs,     \* the device it has opened, and whether that is on device.c's list
    pidfile,  \* who created the file at the pidfile's path: 0 no file, -1 not one of the processes
    sock,     \* who bound the UNIX socket at the socket's path, 0 for nobody
    plugged,  \* whether the device is plugged in
    plugs,    \* times it was, which tells the devices opened before apart
    udev,     \* commands udev has still to run, and the process it waits for
    ppoll,    \* whether ppoll sets the signal mask atomically
    kills,    \* processes killed so far
    raced     \* whether two start-ups overlapped, or an instance used no pidfile (history)

startVars == <<pc, opts, seen, parent, pidfile, sock, raced>>
runVars == <<sigs, discover, devs>>
worldVars == <<plugged, plugs, udev, ppoll, kills>>
vars == <<startVars, runVars, worldVars>>

\* From the look at the pidfile to the lock on the new one.
Starting == {"open", "getlk", "decide", "unlink", "daemonize", "create", "lock"}
\* From the lock to the exit.
Locked == {"socket", "bind", "init", "notify", "loop", "shutdown"}
Started == Starting \cup Locked
Pcs == {"unborn", "done"} \cup Started

Alive(p) == pc[p] \in Started

\* Mutant: the lock is placed before daemonize, whose fork does not pass it on.
HoldsLock_Forked(p) == opts[p].lockfile /\ pc[p] \in Locked /\ parent[p] = "none"

\* The fcntl lock: placed on the file the process created, gone with the process.
HoldsLock(p) == opts[p].lockfile /\ pc[p] \in Locked

\* Sockets that are bound: their descriptors live as long as the process.
Listening(p) == pc[p] \in {"init", "notify", "loop", "shutdown"}

NoDevice == [plug |-> 0, listed |-> FALSE]

\* Whether the process has opened the device that is plugged in.
Present(p) == plugged /\ devs[p].plug = plugs

Goto(p, to) == pc' = [pc EXCEPT ![p] = to]

-----------------------------------------------------------------------------
(* The end of a process.                                                    *)

\* Mutant: the waiting process keeps the other end of the pipe open, and only
\* success is written to it.
Report_Success(p, status) ==
    [parent EXCEPT ![p] = IF @ = "waiting" /\ status = "ok" THEN status ELSE @]

\* The process that called daemonize reads its status, or finds the pipe closed.
Report(p, status) == [parent EXCEPT ![p] = IF @ = "waiting" THEN status ELSE @]

\* notify_parent of the label terminate, and exit; or the kernel, after a kill.
Ended(p, status) ==
    /\ Goto(p, "done")
    /\ parent' = Report(p, status)
    /\ sigs' = [sigs EXCEPT ![p] = {}]
    /\ discover' = [discover EXCEPT ![p] = FALSE]
    /\ devs' = [devs EXCEPT ![p] = NoDevice]
    /\ UNCHANGED <<opts, seen, pidfile, sock, raced>>

\* A step of the start-up that fails: a non-zero result at terminate.
Fails(p) == CallsMayFail /\ Ended(p, "failed")

Kill(p) ==
    /\ kills < MaxKill /\ Alive(p)
    /\ Ended(p, "failed")
    /\ kills' = kills + 1
    /\ UNCHANGED <<plugged, plugs, udev, ppoll>>

KillParent(p) ==
    /\ kills < MaxKill /\ parent[p] = "waiting"
    /\ parent' = [parent EXCEPT ![p] = "killed"]
    /\ kills' = kills + 1
    /\ UNCHANGED <<pc, opts, seen, pidfile, sock, raced, runVars, plugged, plugs, udev, ppoll>>

-----------------------------------------------------------------------------
(* Start-up: main, up to the pidfile of its own.                            *)

\* Where main goes on once it has placed its lock, or has no pidfile.
Unlocked(o) == IF o.tcp THEN "bind" ELSE "socket"

\* Where main goes on after daemonize.
Daemonized(o) == IF o.lockfile THEN "create" ELSE Unlocked(o)

\* Where main goes on once no running instance was found.
NotRunning(o) ==
    IF o.exit # "none" THEN "done" ELSE IF o.foreground THEN Daemonized(o) ELSE "daemonize"

\* A new process with options o.
Begin(p, o) ==
    /\ pc[p] = "unborn" /\ \A q \in Procs : q < p => pc[q] # "unborn"
    /\ opts' = [opts EXCEPT ![p] = o]
    /\ Goto(p, IF o.lockfile THEN "open" ELSE NotRunning(o))
    /\ raced' = (raced \/ ~o.lockfile \/ \E q \in Procs : pc[q] \in Starting)
    /\ UNCHANGED <<seen, parent, pidfile, sock, runVars>>

Start(p) == (\E a \in Args : Begin(p, ParseOpts(a))) /\ UNCHANGED worldVars

\* open(lockfile, O_WRONLY|O_CREAT).
OpenPidfile(p) ==
    /\ pc[p] = "open"
    /\ \/ /\ Goto(p, "getlk")
          /\ pidfile' = IF pidfile = 0 THEN -1 ELSE pidfile
          /\ seen' = [seen EXCEPT ![p] = pidfile']
          /\ UNCHANGED <<opts, parent, sock, raced, runVars>>
       \/ Fails(p)
    /\ UNCHANGED worldVars

\* Who holds a lock on file i.
LockOwner(i) == IF i \in Procs /\ HoldsLock(i) THEN i ELSE 0

\* fcntl(F_GETLK), and close.  If it fails, lock still describes a lock, of
\* process 0: an instance of which nothing is known.
TestLock(p) ==
    /\ pc[p] = "getlk"
    /\ \/ /\ seen' = [seen EXCEPT ![p] = LockOwner(@)]
          /\ Goto(p, IF seen'[p] # 0 THEN "decide" ELSE "unlink")
          /\ UNCHANGED <<opts, parent, pidfile, sock, raced, runVars>>
       \/ Fails(p)
    /\ UNCHANGED worldVars

\* Mutant: the pidfile of an instance that was told to exit is removed.
Decide_Cleanup(p) ==
    /\ pc[p] = "decide"
    /\ LET q == seen[p]
           sig == IF opts[p].exit # "none" THEN {opts[p].exit}
                  ELSE IF opts[p].disable_hotplug THEN {"USR2"} ELSE {}
       IN  \/ /\ Alive(q)
              /\ Goto(p, "done")
              /\ sigs' = [sigs EXCEPT ![q] = @ \cup sig]
              /\ pidfile' = IF opts[p].exit # "none" THEN 0 ELSE pidfile
              /\ UNCHANGED <<opts, seen, parent, sock, raced, discover, devs>>
           \/ (~Alive(q) \/ CallsMayFail) /\ Ended(p, "failed")
    /\ UNCHANGED worldVars

\* Another instance runs: it is told to exit or to look for devices, if its
\* process still exists, or there is nothing to do.
Decide(p) ==
    /\ pc[p] = "decide"
    /\ LET q == seen[p]
           sig == IF opts[p].exit # "none" THEN {opts[p].exit}
                  ELSE IF opts[p].disable_hotplug THEN {"USR2"} ELSE {}
       IN  \/ /\ Alive(q)
              /\ Goto(p, "done")
              /\ sigs' = [sigs EXCEPT ![q] = @ \cup sig]
              /\ UNCHANGED <<opts, seen, parent, pidfile, sock, raced, discover, devs>>
           \/ (~Alive(q) \/ CallsMayFail) /\ Ended(p, "failed")
    /\ UNCHANGED worldVars

\* unlink(lockfile), whatever file that is by now.
Unlink(p) ==
    /\ pc[p] = "unlink"
    /\ pidfile' = 0
    /\ Goto(p, NotRunning(opts[p]))
    /\ UNCHANGED <<opts, seen, parent, sock, raced, runVars, worldVars>>

\* daemonize: the first process waits at the pipe; one whose parent is init,
\* not udev, is a daemon already.
Daemonize(p) ==
    /\ pc[p] = "daemonize"
    /\ \/ /\ Goto(p, Daemonized(opts[p]))
          /\ \/ parent' = [parent EXCEPT ![p] = "waiting"]
             \/ udev.running # p /\ UNCHANGED parent
          /\ UNCHANGED <<opts, seen, pidfile, sock, raced, runVars>>
       \/ Fails(p)
    /\ UNCHANGED worldVars

\* open(lockfile, O_WRONLY|O_CREAT|O_TRUNC|O_EXCL); daemonize may also fail
\* in the daemon itself.
CreatePidfile(p) ==
    /\ pc[p] = "create"
    /\ \/ /\ pidfile = 0
          /\ pidfile' = p /\ Goto(p, "lock")
          /\ UNCHANGED <<opts, seen, parent, sock, raced, runVars>>
       \/ pidfile # 0 /\ Ended(p, "failed")
       \/ Fails(p)
    /\ UNCHANGED worldVars

\* fcntl(F_SETLK), and the pid is written.
PlaceLock(p) ==
    /\ pc[p] = "lock"
    /\ \/ /\ Goto(p, Unlocked(opts[p]))
          /\ UNCHANGED <<opts, seen, parent, pidfile, sock, raced, runVars>>
       \/ Fails(p)
    /\ UNCHANGED worldVars

-----------------------------------------------------------------------------
(* Start-up: socket, configuration, privileges, USB.                        *)

\* create_socket for a path: what is there is unlinked ...
UnlinkSocket(p) ==
    /\ pc[p] = "socket"
    /\ \/ /\ Goto(p, "bind") /\ sock' = 0
          /\ UNCHANGED <<opts, seen, parent, pidfile, raced, runVars>>
       \/ Fails(p)
    /\ UNCHANGED worldVars

\* ... and bound, unless another process was faster.
BindPath(p) ==
    /\ ~opts[p].tcp
    /\ \/ /\ sock = 0
          /\ Goto(p, "init") /\ sock' = p
          /\ UNCHANGED <<opts, seen, parent, pidfile, raced, runVars>>
       \/ sock # 0 /\ Ended(p, "failed")

\* create_socket for an address: the first one that getaddrinfo returns and bind accepts.
BindAddress(p) ==
    /\ opts[p].tcp
    /\ LET busy == \E q \in Procs : opts[q].tcp /\ Listening(q)
       IN  \/ /\ ~busy
              /\ Goto(p, "init")
              /\ UNCHANGED <<opts, seen, parent, pidfile, sock, raced, runVars>>
           \/ busy /\ Ended(p, "failed")

Bind(p) ==
    /\ pc[p] = "bind"
    /\ BindPath(p) \/ BindAddress(p) \/ Fails(p)
    /\ UNCHANGED worldVars

\* usb_discover: the device that is plugged in is opened unless it is already,
\* one that is gone is dropped.
Discovered(p) ==
    IF Present(p) THEN devs[p]
    ELSE IF plugged THEN [plug |-> plugs, listed |-> FALSE] ELSE NoDevice

\* Mutant: the parent is told before the initialisation.
Initialise_Early(p) ==
    /\ pc[p] = "init"
    /\ \/ /\ Goto(p, "notify")
          /\ devs' = [devs EXCEPT ![p] = Discovered(p)]
          /\ parent' = Report(p, "ok")
          /\ UNCHANGED <<opts, seen, pidfile, sock, raced, sigs, discover>>
       \/ CallsMayFail /\ Ended(p, "ok")
    /\ UNCHANGED worldVars

\* The configuration directory, the privileges, client_init, device_init, usb_init.
Initialise(p) ==
    /\ pc[p] = "init"
    /\ \/ /\ Goto(p, "notify")
          /\ devs' = [devs EXCEPT ![p] = Discovered(p)]
          /\ UNCHANGED <<opts, seen, parent, pidfile, sock, raced, sigs, discover>>
       \/ Fails(p)
    /\ UNCHANGED worldVars

\* Mutant: signals are not blocked during the start-up, and should_exit and
\* should_discover are reset at the end of it.
NotifyParent_Resets(p) ==
    /\ pc[p] = "notify"
    /\ \/ /\ parent[p] # "killed"
          /\ Goto(p, "loop")
          /\ parent' = Report(p, "ok")
          /\ sigs' = [sigs EXCEPT ![p] = {}]
          /\ UNCHANGED <<opts, seen, pidfile, sock, raced, discover, devs>>
       \/ parent[p] = "killed" /\ Ended(p, "failed")
       \/ parent[p] = "waiting" /\ CallsMayFail /\ Ended(p, "ok")
    /\ UNCHANGED worldVars

\* notify_parent(0): a parent that is gone cannot be told; if the redirection
\* of stderr fails, the daemon ends after it has reported success.
NotifyParent(p) ==
    /\ pc[p] = "notify"
    /\ \/ /\ parent[p] # "killed"
          /\ Goto(p, "loop")
          /\ parent' = Report(p, "ok")
          /\ UNCHANGED <<opts, seen, pidfile, sock, raced, runVars>>
       \/ parent[p] = "killed" /\ Ended(p, "failed")
       \/ parent[p] = "waiting" /\ CallsMayFail /\ Ended(p, "ok")
    /\ UNCHANGED worldVars

-----------------------------------------------------------------------------
(* main_loop, its signals, and the shutdown.                                *)

\* Mutant: SIGTERM is refused like SIGUSR1 while devices are attached.
MustExit_Polite(p) ==
    ~devs[p].listed /\ ("TERM" \in sigs[p] \/ ("USR1" \in sigs[p] /\ opts[p].enable_exit))

\* handle_signal for what is pending: should_exit ...
MustExit(p) ==
    "TERM" \in sigs[p] \/ ("USR1" \in sigs[p] /\ opts[p].enable_exit /\ ~devs[p].listed)

\* ... and should_discover.
MustDiscover(p) == discover[p] \/ ("USR2" \in sigs[p] /\ opts[p].enable_exit)

\* ppoll was interrupted: the handlers have run, and main_loop reacts.
Interrupted(p) ==
    /\ pc[p] = "loop" /\ sigs[p] # {}
    /\ sigs' = [sigs EXCEPT ![p] = {}]
    /\ IF MustExit(p)
       THEN Goto(p, "shutdown") /\ UNCHANGED <<discover, devs>>
       ELSE /\ UNCHANGED pc
            /\ discover' = [discover EXCEPT ![p] = FALSE]
            /\ devs' = IF MustDiscover(p) THEN [devs EXCEPT ![p] = Discovered(p)] ELSE devs
    /\ UNCHANGED <<opts, seen, parent, pidfile, sock, raced, worldVars>>

\* The ppoll of the daemon's own: the signal came before poll() slept, which
\* then returns without being interrupted.
HandledUnnoticed(p) ==
    /\ ~ppoll
    /\ pc[p] = "loop" /\ sigs[p] # {}
    /\ sigs' = [sigs EXCEPT ![p] = {}]
    /\ discover' = [discover EXCEPT ![p] = MustDiscover(p)]
    /\ Goto(p, IF MustExit(p) THEN "shutdown" ELSE "loop")
    /\ UNCHANGED <<opts, seen, parent, pidfile, sock, raced, devs, worldVars>>

\* usb_process: an arrival that libusb reports, the next step of bringing the
\* device up, its departure; or a failure, which ends the loop.
UsbProcess(p) ==
    /\ pc[p] = "loop"
    /\ \/ /\ \/ /\ devs[p] = NoDevice /\ plugged /\ ~opts[p].disable_hotplug
                /\ devs' = [devs EXCEPT ![p] = Discovered(p)]
             \/ /\ Present(p) /\ ~devs[p].listed
                /\ devs' = [devs EXCEPT ![p].listed = TRUE]
             \/ /\ devs[p] # NoDevice /\ ~Present(p)
                /\ devs' = [devs EXCEPT ![p] = NoDevice]
          /\ UNCHANGED pc
       \/ CallsMayFail /\ Goto(p, "shutdown") /\ UNCHANGED devs
    /\ UNCHANGED <<opts, seen, parent, pidfile, sock, raced, sigs, discover, worldVars>>

\* usb_shutdown and the rest, up to exit.  Neither pidfile nor socket is removed.
Shutdown(p) == pc[p] = "shutdown" /\ Ended(p, "ok") /\ UNCHANGED worldVars

-----------------------------------------------------------------------------
(* The device, and udev: "add" starts usbmuxd -u, "remove" usbmuxd -x.      *)

UdevQueue(args) == [udev EXCEPT !.queue = IF Udev THEN Append(@, args) ELSE @]

Plug ==
    /\ ~plugged /\ plugs < MaxPlugs
    /\ plugged' = TRUE /\ plugs' = plugs + 1
    /\ udev' = UdevQueue(<<"u">>)
    /\ UNCHANGED <<startVars, runVars, ppoll, kills>>

Unplug ==
    /\ plugged /\ plugged' = FALSE
    /\ udev' = UdevQueue(<<"x">>)
    /\ UNCHANGED <<startVars, runVars, plugs, ppoll, kills>>

\* The command that udev started has returned: the process itself or, if it
\* became a daemon, the one that was waiting for it.
Returned(p) == p # 0 => pc[p] = "done" \/ parent[p] \in {"ok", "failed", "killed"}

UdevRun(p) ==
    /\ udev.queue # <<>> /\ Returned(udev.running)
    /\ Begin(p, ParseOpts(Head(udev.queue)))
    /\ udev' = [queue |-> Tail(udev.queue), running |-> p]
    /\ UNCHANGED <<plugged, plugs, ppoll, kills>>

-----------------------------------------------------------------------------
Init ==
    /\ pc = [p \in Procs |-> "unborn"]
    /\ opts = [p \in Procs |-> ParseOpts(<<>>)]
    /\ seen = [p \in Procs |-> 0]
    /\ parent = [p \in Procs |-> "none"]
    /\ sigs = [p \in Procs |-> {}]
    /\ discover = [p \in Procs |-> FALSE]
    /\ devs = [p \in Procs |-> NoDevice]
    /\ pidfile \in {0, -1}
    /\ sock = 0
    /\ plugged = FALSE /\ plugs = 0
    /\ udev = [queue |-> <<>>, running |-> 0]
    /\ ppoll \in Ppoll
    /\ kills = 0
    /\ raced = FALSE

\* What a process does by itself.
Step(p) ==
    \/ OpenPidfile(p) \/ TestLock(p) \/ Decide(p) \/ Unlink(p) \/ Daemonize(p)
    \/ CreatePidfile(p) \/ PlaceLock(p) \/ UnlinkSocket(p) \/ Bind(p) \/ Initialise(p)
    \/ NotifyParent(p) \/ Shutdown(p)

Next ==
    \/ Plug \/ Unplug
    \/ \E p \in Procs :
        \/ Start(p) \/ UdevRun(p) \/ Step(p)
        \/ Interrupted(p) \/ HandledUnnoticed(p) \/ UsbProcess(p)
        \/ Kill(p) \/ KillParent(p)

Spec == Init /\ [][Next]_vars

\* Processes run; a pending signal interrupts ppoll in the end, as descriptors
\* are not ready for ever; USB events are handled; udev runs its commands.
FairSpec ==
    /\ Spec
    /\ \A p \in Procs :
        /\ WF_vars(Step(p)) /\ WF_vars(Interrupted(p) \/ HandledUnnoticed(p))
        /\ WF_vars(UsbProcess(p) /\ pc'[p] = "loop") /\ WF_vars(UdevRun(p))

-----------------------------------------------------------------------------
TypeOK ==
    /\ pc \in [Procs -> Pcs] /\ opts \in [Procs -> Options]
    /\ seen \in [Procs -> -1 .. MaxProc]
    /\ parent \in [Procs -> {"none", "waiting", "ok", "failed", "killed"}]
    /\ sigs \in [Procs -> SUBSET {"TERM", "USR1", "USR2"}]
    /\ discover \in [Procs -> BOOLEAN]
    /\ devs \in [Procs -> [plug : 0 .. MaxPlugs, listed : BOOLEAN]]
    /\ pidfile \in -1 .. MaxProc /\ sock \in 0 .. MaxProc
    /\ plugged \in BOOLEAN /\ plugs \in 0 .. MaxPlugs /\ kills \in 0 .. MaxKill
    /\ udev \in [queue : Seq(Seq(Letters)), running : 0 .. MaxProc]
    /\ ppoll \in BOOLEAN /\ raced \in BOOLEAN

\* As long as start-ups do not overlap, and all use the pidfile, at most one
\* instance is past its lock, through crashes and restarts at any point: the
\* kernel frees the lock of a dead instance, and the file it leaves is replaced.
OneDaemon ==
    ~raced => \A p, q \in Procs : pc[p] \in Locked /\ pc[q] \in Locked => p = q

\* Under the same condition an instance that serves is the one that a later
\* instance finds through the pidfile, and that clients reach at the socket.
ServingIsFound ==
    ~raced => \A p \in Procs : pc[p] \in {"loop", "shutdown"} =>
                                 pidfile = p /\ (opts[p].tcp \/ sock = p)

\* daemonize returns success in the first process only for a daemon that was
\* initialised completely, and a daemon serves only after it has said so.
ParentKnows ==
    \A p \in Procs :
        /\ parent[p] = "ok" => pc[p] \in {"loop", "shutdown", "done"}
        /\ pc[p] \in {"loop", "shutdown"} => parent[p] \in {"none", "ok"}

\* The first process learns how the start-up ended, whatever happened to the daemon.
ParentReturns == \A p \in Procs : parent[p] = "waiting" ~> parent[p] # "waiting"

\* "always works" (usage, --force-exit): an instance that is sent SIGTERM ends,
\* even if it is still starting up or has devices.  The handlers of main_loop and
\* the shutdown are taken to return: a deadlock of Announce (NoLockCycle) or the
\* endless wait of UsbDevices (DisconnectEnds) would keep it from ending.
ForceExitWorks == \A p \in Procs : "TERM" \in sigs[p] ~> pc[p] = "done"

\* An instance that exits on request looks for devices after each SIGUSR2, or
\* ends: a signal that arrives while others are handled, or during the start-up,
\* is not lost.  It needs a ppoll that sets the signal mask atomically.
DiscoveryHonoured ==
    \A p \in Procs :
        ppoll /\ "USR2" \in sigs[p] /\ opts[p].enable_exit /\ plugged ~>
            Present(p) \/ ~plugged \/ pc[p] = "done"

\* "The daemon is automatically started by udev or systemd [...] upon hotplug
\* of an iOS device": a device that stays plugged in is attached to a daemon.
HotplugServed == plugged ~> ~plugged \/ \E p \in Procs : Present(p) /\ devs[p].listed

=============================================================================
