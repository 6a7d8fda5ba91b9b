--------------------------- MODULE InstancesProofs ---------------------------
(***************************************************************************)
(* That start-ups which do not overlap leave one daemon, which is found    *)
(* through its pidfile and its socket, and that daemonize tells the truth, *)
(* for any number of processes, command lines, kills and failures.         *)
(***************************************************************************)
EXTENDS Instances, TLAPS

\* The arrays of the state have an entry for every process.
Arrays == DOMAIN pc = Procs /\ DOMAIN opts = Procs /\ DOMAIN seen = Procs /\ DOMAIN parent = Procs

\* From the old pidfile's removal to the lock on the new one.
Replacing == {"unlink", "daemonize", "create", "lock"}

\* Why there is one daemon.  A process that is past its lock owns the file at
\* the pidfile's path, so the next process sees that lock, and it goes on to
\* replace the file only when nobody is past the lock any more.
Single ==
    /\ \A p \in Procs : pc[p] # "unborn" => opts[p].lockfile
    /\ \A p, q \in Procs : pc[p] \in Starting /\ pc[q] \in Starting => p = q
    /\ \A p \in Procs : pc[p] \in Locked \cup {"lock"} => pidfile = p
    /\ \A p \in Procs : pc[p] = "getlk" => seen[p] = pidfile
    /\ \A p, q \in Procs : pc[p] \in Replacing => pc[q] \notin Locked
    /\ \A p \in Procs : Listening(p) /\ ~opts[p].tcp => sock = p

SingleInv == Arrays /\ (~raced => Single)

\* What the waiting process knows in each state of the daemon.
Told ==
    \A p \in Procs :
        /\ parent[p] \in {"none", "waiting", "ok", "failed", "killed"}
        /\ parent[p] = "ok" => pc[p] \in {"loop", "shutdown", "done"}
        /\ parent[p] = "failed" => pc[p] = "done"
        /\ pc[p] \in {"loop", "shutdown"} => parent[p] \in {"none", "ok"}
        /\ pc[p] \in {"unborn", "open", "getlk", "decide", "unlink", "daemonize"} => parent[p] = "none"

ToldInv == Arrays /\ Told

-----------------------------------------------------------------------------
\* No process has the number that stands for no file.
LEMMA ZeroIsNoProcess == 0 \notin Procs
BY DEF Procs

\* A process that ends, at any point, leaves the invariants as they are: its
\* files stay behind, its lock is gone (label terminate of main, or a kill).
LEMMA EndedKeepsSingle ==
    ASSUME SingleInv, NEW p \in Procs, NEW status, Ended(p, status), pc[p] # "unborn"
    PROVE  SingleInv'
BY DEF SingleInv, Arrays, Single, Ended, Goto, Report, Starting, Locked, Replacing, Listening

LEMMA EndedKeepsTold ==
    ASSUME ToldInv, NEW p \in Procs, NEW status \in {"ok", "failed"}, Ended(p, status)
    PROVE  ToldInv'
BY DEF ToldInv, Arrays, Told, Ended, Goto, Report

\* A new process starts with none other between its look at the pidfile and its
\* lock, or the history variable raced says otherwise.
LEMMA BeginKeepsSingle ==
    ASSUME SingleInv, NEW p \in Procs, NEW o, Begin(p, o)
    PROVE  SingleInv'
BY DEF SingleInv, Arrays, Single, Begin, Goto, Starting, Locked, Replacing, Listening

LEMMA BeginKeepsTold ==
    ASSUME ToldInv, NEW p \in Procs, NEW o, Begin(p, o)
    PROVE  ToldInv'
BY DEF ToldInv, Arrays, Told, Begin, Goto, NotRunning, Daemonized, Unlocked

\* What a process does by itself keeps the lock unique.  The two steps that
\* matter are TestLock, which finds the owner of the lock if there is one, and
\* Unlink, which therefore never removes the file of a running instance.
LEMMA StepKeepsSingle ==
    ASSUME SingleInv, NEW p \in Procs, Step(p)
    PROVE  SingleInv'
<1> USE DEF SingleInv, Arrays
<1>1. CASE OpenPidfile(p)
  <2>1. CASE Ended(p, "failed")
    BY <1>1, <2>1, EndedKeepsSingle DEF OpenPidfile
  <2>2. CASE ~Ended(p, "failed")
    <3>1. /\ pc[p] = "open" /\ pc' = [pc EXCEPT ![p] = "getlk"]
          /\ pidfile' = IF pidfile = 0 THEN -1 ELSE pidfile
          /\ seen' = [seen EXCEPT ![p] = pidfile']
          /\ UNCHANGED <<opts, parent, sock, raced>>
      BY <1>1, <2>2 DEF OpenPidfile, Fails, Goto
    <3>2. \A q \in Procs : pidfile = q => pidfile' = q
      BY <3>1, ZeroIsNoProcess
    <3> QED
      BY <3>1, <3>2 DEF Single, Starting, Locked, Replacing, Listening
  <2> QED BY <2>1, <2>2
<1>2. CASE TestLock(p)
  <2>1. CASE Ended(p, "failed")
    BY <1>2, <2>1, EndedKeepsSingle DEF TestLock
  <2>2. CASE ~Ended(p, "failed")
    <3>1. /\ pc[p] = "getlk" /\ seen' = [seen EXCEPT ![p] = LockOwner(seen[p])]
          /\ pc' = [pc EXCEPT ![p] = IF seen'[p] # 0 THEN "decide" ELSE "unlink"]
          /\ UNCHANGED <<opts, parent, pidfile, sock, raced>>
      BY <1>2, <2>2 DEF TestLock, Fails, Goto
    <3>2. ASSUME ~raced, NEW q \in Procs, pc[q] \in Locked
          PROVE  pc'[p] = "decide"
      <4>1. seen[p] = q /\ HoldsLock(q)
        BY <3>1, <3>2 DEF Single, HoldsLock, Locked
      <4>2. LockOwner(seen[p]) # 0
        BY <4>1, ZeroIsNoProcess DEF LockOwner
      <4> QED
        BY <3>1, <4>2
    <3> QED
      BY <3>1, <3>2 DEF Single, Starting, Locked, Replacing, Listening
  <2> QED BY <2>1, <2>2
<1>3. CASE Decide(p)
  <2>1. CASE Ended(p, "failed")
    BY <1>3, <2>1, EndedKeepsSingle DEF Decide
  <2>2. CASE ~Ended(p, "failed")
    BY <1>3, <2>2 DEF Decide, Single, Goto, Starting, Locked, Replacing, Listening
  <2> QED BY <2>1, <2>2
<1>4. CASE Unlink(p)
  BY <1>4 DEF Unlink, NotRunning, Daemonized, Single, Goto, Starting, Locked, Replacing, Listening
<1>5. CASE Daemonize(p)
  <2>1. CASE Ended(p, "failed")
    BY <1>5, <2>1, EndedKeepsSingle DEF Daemonize
  <2>2. CASE ~Ended(p, "failed")
    BY <1>5, <2>2 DEF Daemonize, Fails, Daemonized, Single, Goto, Starting, Locked, Replacing,
                      Listening
  <2> QED BY <2>1, <2>2
<1>6. CASE CreatePidfile(p)
  <2>1. CASE Ended(p, "failed")
    BY <1>6, <2>1, EndedKeepsSingle DEF CreatePidfile
  <2>2. CASE ~Ended(p, "failed")
    BY <1>6, <2>2 DEF CreatePidfile, Fails, Single, Goto, Starting, Locked, Replacing, Listening
  <2> QED BY <2>1, <2>2
<1>7. CASE PlaceLock(p)
  <2>1. CASE Ended(p, "failed")
    BY <1>7, <2>1, EndedKeepsSingle DEF PlaceLock
  <2>2. CASE ~Ended(p, "failed")
    BY <1>7, <2>2 DEF PlaceLock, Fails, Unlocked, Single, Goto, Starting, Locked, Replacing, Listening
  <2> QED BY <2>1, <2>2
<1>8. CASE UnlinkSocket(p)
  <2>1. CASE Ended(p, "failed")
    BY <1>8, <2>1, EndedKeepsSingle DEF UnlinkSocket
  <2>2. CASE ~Ended(p, "failed")
    BY <1>8, <2>2 DEF UnlinkSocket, Fails, Single, Goto, Starting, Locked, Replacing, Listening
  <2> QED BY <2>1, <2>2
<1>9. CASE Bind(p)
  <2>1. CASE Ended(p, "failed")
    BY <1>9, <2>1, EndedKeepsSingle DEF Bind
  <2>2. CASE ~Ended(p, "failed")
    BY <1>9, <2>2 DEF Bind, BindPath, BindAddress, Fails, Single, Goto, Starting, Locked, Replacing,
                      Listening
  <2> QED BY <2>1, <2>2
<1>10. CASE Initialise(p)
  <2>1. CASE Ended(p, "failed")
    BY <1>10, <2>1, EndedKeepsSingle DEF Initialise
  <2>2. CASE ~Ended(p, "failed")
    BY <1>10, <2>2 DEF Initialise, Fails, Single, Goto, Starting, Locked, Replacing, Listening
  <2> QED BY <2>1, <2>2
<1>11. CASE NotifyParent(p)
  <2>1. CASE Ended(p, "failed") \/ Ended(p, "ok")
    BY <1>11, <2>1, EndedKeepsSingle DEF NotifyParent
  <2>2. CASE ~(Ended(p, "failed") \/ Ended(p, "ok"))
    BY <1>11, <2>2 DEF NotifyParent, Report, Single, Goto, Starting, Locked, Replacing, Listening
  <2> QED BY <2>1, <2>2
<1>12. CASE Shutdown(p)
  BY <1>12, EndedKeepsSingle DEF Shutdown
<1> QED
  BY <1>1, <1>2, <1>3, <1>4, <1>5, <1>6, <1>7, <1>8, <1>9, <1>10, <1>11, <1>12 DEF Step

\* What a process does by itself keeps its parent's knowledge true: only
\* NotifyParent, with everything initialised, reports success.
LEMMA StepKeepsTold ==
    ASSUME ToldInv, NEW p \in Procs, Step(p)
    PROVE  ToldInv'
<1> USE DEF ToldInv, Arrays
<1>1. CASE OpenPidfile(p)
  <2>1. CASE Ended(p, "failed")
    BY <1>1, <2>1, EndedKeepsTold DEF OpenPidfile
  <2>2. CASE ~Ended(p, "failed")
    BY <1>1, <2>2 DEF OpenPidfile, Fails, Told, Goto
  <2> QED BY <2>1, <2>2
<1>2. CASE TestLock(p)
  <2>1. CASE Ended(p, "failed")
    BY <1>2, <2>1, EndedKeepsTold DEF TestLock
  <2>2. CASE ~Ended(p, "failed")
    BY <1>2, <2>2 DEF TestLock, Fails, Told, Goto
  <2> QED BY <2>1, <2>2
<1>3. CASE Decide(p)
  <2>1. CASE Ended(p, "failed")
    BY <1>3, <2>1, EndedKeepsTold DEF Decide
  <2>2. CASE ~Ended(p, "failed")
    BY <1>3, <2>2 DEF Decide, Told, Goto
  <2> QED BY <2>1, <2>2
<1>4. CASE Unlink(p)
  BY <1>4 DEF Unlink, NotRunning, Daemonized, Unlocked, Told, Goto
<1>5. CASE Daemonize(p)
  <2>1. CASE Ended(p, "failed")
    BY <1>5, <2>1, EndedKeepsTold DEF Daemonize
  <2>2. CASE ~Ended(p, "failed")
    BY <1>5, <2>2 DEF Daemonize, Fails, Daemonized, Unlocked, Told, Goto
  <2> QED BY <2>1, <2>2
<1>6. CASE CreatePidfile(p)
  <2>1. CASE Ended(p, "failed")
    BY <1>6, <2>1, EndedKeepsTold DEF CreatePidfile
  <2>2. CASE ~Ended(p, "failed")
    BY <1>6, <2>2 DEF CreatePidfile, Fails, Told, Goto
  <2> QED BY <2>1, <2>2
<1>7. CASE PlaceLock(p)
  <2>1. CASE Ended(p, "failed")
    BY <1>7, <2>1, EndedKeepsTold DEF PlaceLock
  <2>2. CASE ~Ended(p, "failed")
    BY <1>7, <2>2 DEF PlaceLock, Fails, Unlocked, Told, Goto
  <2> QED BY <2>1, <2>2
<1>8. CASE UnlinkSocket(p)
  <2>1. CASE Ended(p, "failed")
    BY <1>8, <2>1, EndedKeepsTold DEF UnlinkSocket
  <2>2. CASE ~Ended(p, "failed")
    BY <1>8, <2>2 DEF UnlinkSocket, Fails, Told, Goto
  <2> QED BY <2>1, <2>2
<1>9. CASE Bind(p)
  <2>1. CASE Ended(p, "failed")
    BY <1>9, <2>1, EndedKeepsTold DEF Bind
  <2>2. CASE ~Ended(p, "failed")
    BY <1>9, <2>2 DEF Bind, BindPath, BindAddress, Fails, Told, Goto
  <2> QED BY <2>1, <2>2
<1>10. CASE Initialise(p)
  <2>1. CASE Ended(p, "failed")
    BY <1>10, <2>1, EndedKeepsTold DEF Initialise
  <2>2. CASE ~Ended(p, "failed")
    BY <1>10, <2>2 DEF Initialise, Fails, Told, Goto
  <2> QED BY <2>1, <2>2
<1>11. CASE NotifyParent(p)
  <2>1. CASE Ended(p, "failed") \/ Ended(p, "ok")
    BY <1>11, <2>1, EndedKeepsTold DEF NotifyParent
  <2>2. CASE ~(Ended(p, "failed") \/ Ended(p, "ok"))
    BY <1>11, <2>2 DEF NotifyParent, Report, Told, Goto
  <2> QED BY <2>1, <2>2
<1>12. CASE Shutdown(p)
  BY <1>12, EndedKeepsTold DEF Shutdown
<1> QED
  BY <1>1, <1>2, <1>3, <1>4, <1>5, <1>6, <1>7, <1>8, <1>9, <1>10, <1>11, <1>12 DEF Step

-----------------------------------------------------------------------------
\* Every step of the system keeps the pidfile's invariant.
LEMMA NextKeepsSingle ==
    ASSUME SingleInv, [Next]_vars
    PROVE  SingleInv'
<1> USE DEF SingleInv, Arrays
<1>1. CASE Plug \/ Unplug \/ UNCHANGED vars
  BY <1>1 DEF Plug, Unplug, vars, startVars, Single, Listening
<1>2. ASSUME NEW p \in Procs, Start(p) \/ UdevRun(p)
      PROVE  SingleInv'
  BY <1>2, BeginKeepsSingle DEF Start, UdevRun
<1>3. ASSUME NEW p \in Procs, Interrupted(p) \/ HandledUnnoticed(p) \/ UsbProcess(p)
      PROVE  SingleInv'
  <2>1. /\ pc[p] = "loop" /\ pc' \in {pc, [pc EXCEPT ![p] = "loop"], [pc EXCEPT ![p] = "shutdown"]}
        /\ UNCHANGED <<opts, seen, parent, pidfile, sock, raced>>
    BY <1>3 DEF Interrupted, HandledUnnoticed, UsbProcess, Goto
  <2> QED
    BY <2>1 DEF Single, Starting, Locked, Replacing, Listening
<1>4. ASSUME NEW p \in Procs, Kill(p)
      PROVE  SingleInv'
  BY <1>4, EndedKeepsSingle DEF Kill, Alive, Started, Starting, Locked
<1>5. ASSUME NEW p \in Procs, KillParent(p)
      PROVE  SingleInv'
  BY <1>5 DEF KillParent, Single, Listening
<1> QED
  BY <1>1, <1>2, <1>3, <1>4, <1>5, StepKeepsSingle DEF Next

\* Every step of the system keeps what the parents know true.
LEMMA NextKeepsTold ==
    ASSUME ToldInv, [Next]_vars
    PROVE  ToldInv'
<1> USE DEF ToldInv, Arrays
<1>1. CASE Plug \/ Unplug \/ UNCHANGED vars
  BY <1>1 DEF Plug, Unplug, vars, startVars, Told
<1>2. ASSUME NEW p \in Procs, Start(p) \/ UdevRun(p)
      PROVE  ToldInv'
  BY <1>2, BeginKeepsTold DEF Start, UdevRun
<1>3. ASSUME NEW p \in Procs, Interrupted(p) \/ HandledUnnoticed(p) \/ UsbProcess(p)
      PROVE  ToldInv'
  <2>1. /\ pc[p] = "loop" /\ pc' \in {pc, [pc EXCEPT ![p] = "loop"], [pc EXCEPT ![p] = "shutdown"]}
        /\ UNCHANGED <<opts, seen, parent>>
    BY <1>3 DEF Interrupted, HandledUnnoticed, UsbProcess, Goto
  <2> QED
    BY <2>1 DEF Told
<1>4. ASSUME NEW p \in Procs, Kill(p)
      PROVE  ToldInv'
  BY <1>4, EndedKeepsTold DEF Kill
<1>5. ASSUME NEW p \in Procs, KillParent(p)
      PROVE  ToldInv'
  BY <1>5 DEF KillParent, Told
<1> QED
  BY <1>1, <1>2, <1>3, <1>4, <1>5, StepKeepsTold DEF Next

-----------------------------------------------------------------------------
\* For any number of processes, command lines, kills and failing calls: if no
\* two start-ups overlap and all use the pidfile, there is one daemon.
THEOREM OneDaemonServes == Spec => []OneDaemon
<1>1. Init => SingleInv
  BY DEF Init, SingleInv, Arrays, Single, Starting, Locked, Replacing, Listening
<1>2. SingleInv /\ [Next]_vars => SingleInv'
  BY NextKeepsSingle
<1>3. SingleInv => OneDaemon
  BY DEF SingleInv, Single, OneDaemon
<1> QED
  BY <1>1, <1>2, <1>3, PTL DEF Spec

\* ... and it is the one that the next instance and the clients find.
THEOREM ServingInstanceIsFound == Spec => []ServingIsFound
<1>1. Init => SingleInv
  BY DEF Init, SingleInv, Arrays, Single, Starting, Locked, Replacing, Listening
<1>2. SingleInv /\ [Next]_vars => SingleInv'
  BY NextKeepsSingle
<1>3. SingleInv => ServingIsFound
  BY DEF SingleInv, Single, ServingIsFound, Locked, Listening
<1> QED
  BY <1>1, <1>2, <1>3, PTL DEF Spec

\* The process that called daemonize is told of success only by a daemon that
\* serves, and every daemon that serves has told it.
THEOREM ParentKnowsTheTruth == Spec => []ParentKnows
<1>1. Init => ToldInv
  BY DEF Init, ToldInv, Arrays, Told
<1>2. ToldInv /\ [Next]_vars => ToldInv'
  BY NextKeepsTold
<1>3. ToldInv => ParentKnows
  BY DEF ToldInv, Told, ParentKnows
<1> QED
  BY <1>1, <1>2, <1>3, PTL DEF Spec

-----------------------------------------------------------------------------
(* Types.  udev queues two commands only, so their options are known to be  *)
(* options.                                                                 *)

UdevCommands == {<<"u">>, <<"x">>}
ParentStates == {"none", "waiting", "ok", "failed", "killed"}
Signals == {"TERM", "USR1", "USR2"}
DeviceRecord == [plug : 0 .. MaxPlugs, listed : BOOLEAN]

StartTypes ==
    /\ pc \in [Procs -> Pcs] /\ opts \in [Procs -> Options]
    /\ seen \in [Procs -> -1 .. MaxProc] /\ parent \in [Procs -> ParentStates]
    /\ pidfile \in -1 .. MaxProc /\ sock \in 0 .. MaxProc /\ raced \in BOOLEAN
RunTypes ==
    /\ sigs \in [Procs -> SUBSET Signals] /\ discover \in [Procs -> BOOLEAN]
    /\ devs \in [Procs -> DeviceRecord]
WorldTypes ==
    /\ plugged \in BOOLEAN /\ plugs \in 0 .. MaxPlugs /\ kills \in 0 .. MaxKill
    /\ udev \in [queue : Seq(UdevCommands), running : 0 .. MaxProc] /\ ppoll \in BOOLEAN

Types == StartTypes /\ RunTypes /\ WorldTypes

\* Where main goes on, for each set of options.
LEMMA NextPcs ==
    ASSUME NEW o \in Options
    PROVE  {Unlocked(o), Daemonized(o), NotRunning(o)} \subseteq Pcs
BY DEF Unlocked, Daemonized, NotRunning, Pcs, Started, Starting, Locked

\* A process that ends.
LEMMA EndedTypes ==
    ASSUME Types, NEW p \in Procs, NEW status \in {"ok", "failed"}, Ended(p, status)
    PROVE  StartTypes' /\ RunTypes'
<1>1. NoDevice \in DeviceRecord
  BY InstancesAssumption DEF NoDevice, DeviceRecord
<1>2. StartTypes'
  BY DEF Types, StartTypes, Ended, Goto, Report, Pcs, ParentStates
<1>3. RunTypes'
  BY <1>1 DEF Types, RunTypes, Ended
<1> QED
  BY <1>2, <1>3

\* usb_discover.
LEMMA DiscoveredType ==
    ASSUME Types, NEW p \in Procs
    PROVE  Discovered(p) \in DeviceRecord /\ NoDevice \in DeviceRecord
<1>1. NoDevice \in DeviceRecord /\ [plug |-> plugs, listed |-> FALSE] \in DeviceRecord
  BY InstancesAssumption DEF NoDevice, DeviceRecord, Types, WorldTypes
<1>2. devs[p] \in DeviceRecord
  BY DEF Types, RunTypes
<1> QED
  BY <1>1, <1>2 DEF Discovered

\* A new process.
LEMMA BeginKeepsTypes ==
    ASSUME Types, NEW p \in Procs, NEW o \in Options, Begin(p, o)
    PROVE  StartTypes' /\ RunTypes'
<1>1. (IF o.lockfile THEN "open" ELSE NotRunning(o)) \in Pcs
  BY NextPcs DEF Pcs, Started, Starting
<1>2. pc' \in [Procs -> Pcs] /\ opts' \in [Procs -> Options]
  BY <1>1 DEF Types, StartTypes, Begin, Goto
<1>3. raced' \in BOOLEAN
  BY DEF Types, StartTypes, Begin
<1>4. UNCHANGED <<seen, parent, pidfile, sock, sigs, discover, devs>>
  BY DEF Begin, runVars
<1> QED
  BY <1>2, <1>3, <1>4 DEF Types, StartTypes, RunTypes

\* What a process does by itself.
LEMMA StepKeepsTypes ==
    ASSUME Types, NEW p \in Procs, Step(p)
    PROVE  StartTypes' /\ RunTypes'
<1>0. CASE Ended(p, "failed") \/ Ended(p, "ok")
  BY <1>0, EndedTypes
<1>s. /\ opts[p] \in Options /\ p \in -1 .. MaxProc /\ p \in 0 .. MaxProc
      /\ {Unlocked(opts[p]), Daemonized(opts[p]), NotRunning(opts[p])} \subseteq Pcs
  BY NextPcs, InstancesAssumption DEF Types, StartTypes, Procs
<1>r. (UNCHANGED runVars) => RunTypes'
  BY DEF Types, RunTypes, runVars
<1> USE DEF Types, StartTypes
<1>1. CASE OpenPidfile(p) /\ ~Ended(p, "failed")
  <2>1. pidfile' \in -1 .. MaxProc
    BY <1>1, InstancesAssumption DEF OpenPidfile, Fails
  <2> QED
    BY <1>1, <1>r, <2>1 DEF OpenPidfile, Fails, Goto, Pcs, Started, Starting
<1>2. CASE TestLock(p) /\ ~Ended(p, "failed")
  <2>1. LockOwner(seen[p]) \in -1 .. MaxProc
    BY InstancesAssumption DEF LockOwner, Procs
  <2>2. pc' \in [Procs -> Pcs] /\ seen' \in [Procs -> -1 .. MaxProc]
    BY <1>2, <2>1 DEF TestLock, Fails, Goto, Pcs, Started, Starting
  <2> QED
    BY <1>2, <1>r, <2>2 DEF TestLock, Fails
<1>3. CASE Decide(p) /\ ~Ended(p, "failed")
  <2> DEFINE sig == IF opts[p].exit # "none" THEN {opts[p].exit}
                    ELSE IF opts[p].disable_hotplug THEN {"USR2"} ELSE {}
  <2>1. sig \in SUBSET Signals
    BY <1>s DEF Options, Signals
  <2>2. /\ sigs' = [sigs EXCEPT ![seen[p]] = @ \cup sig] /\ Goto(p, "done")
        /\ UNCHANGED <<opts, seen, parent, pidfile, sock, raced, discover, devs>>
    BY <1>3 DEF Decide
  <2> HIDE DEF sig
  <2> QED
    BY <2>1, <2>2 DEF RunTypes, Goto, Pcs
<1>4. CASE Unlink(p)
  BY <1>4, <1>r, <1>s, InstancesAssumption DEF Unlink, Goto
<1>5. CASE Daemonize(p) /\ ~Ended(p, "failed")
  BY <1>5, <1>r, <1>s DEF Daemonize, Fails, Goto, ParentStates
<1>6. CASE CreatePidfile(p) /\ ~Ended(p, "failed")
  BY <1>6, <1>r, <1>s DEF CreatePidfile, Fails, Goto, Pcs, Started, Starting
<1>7. CASE PlaceLock(p) /\ ~Ended(p, "failed")
  BY <1>7, <1>r, <1>s DEF PlaceLock, Fails, Goto
<1>8. CASE UnlinkSocket(p) /\ ~Ended(p, "failed")
  BY <1>8, <1>r, InstancesAssumption DEF UnlinkSocket, Fails, Goto, Pcs, Started, Locked
<1>9. CASE Bind(p) /\ ~Ended(p, "failed")
  BY <1>9, <1>r, <1>s DEF Bind, BindPath, BindAddress, Fails, Goto, Pcs, Started, Locked
<1>10. CASE Initialise(p) /\ ~Ended(p, "failed")
  BY <1>10, DiscoveredType DEF Initialise, Fails, Goto, Pcs, Started, Locked, RunTypes
<1>11. CASE NotifyParent(p) /\ ~Ended(p, "failed") /\ ~Ended(p, "ok")
  BY <1>11, <1>r DEF NotifyParent, Report, Goto, Pcs, Started, Locked, ParentStates
<1> QED
  BY <1>0, <1>1, <1>2, <1>3, <1>4, <1>5, <1>6, <1>7, <1>8, <1>9, <1>10, <1>11 DEF Step, Shutdown

\* Every step of the system keeps the types.
LEMMA NextKeepsTypes ==
    ASSUME Types, [Next]_vars
    PROVE  Types'
<1>u. <<"u">> \in UdevCommands /\ <<"x">> \in UdevCommands
      /\ \A a \in Args \cup UdevCommands : ParseOpts(a) \in Options
  BY InstancesAssumption DEF UdevCommands
<1>1. CASE Plug \/ Unplug
  <2>1. /\ plugged' \in BOOLEAN
        /\ UNCHANGED <<startVars, runVars, ppoll, kills>>
    BY <1>1, Zenon DEF Plug, Unplug
  <2>2. plugs' \in 0 .. MaxPlugs
    <3>1. plugs \in 0 .. MaxPlugs
      BY DEF Types, WorldTypes
    <3>2. plugs' = plugs \/ (plugs < MaxPlugs /\ plugs' = plugs + 1)
      BY <1>1 DEF Plug, Unplug
    <3> QED
      BY <3>1, <3>2, InstancesAssumption
  <2>3. udev' \in [queue : Seq(UdevCommands), running : 0 .. MaxProc]
    <3>1. udev \in [queue : Seq(UdevCommands), running : 0 .. MaxProc]
      BY DEF Types, WorldTypes
    <3>2. PICK a \in UdevCommands : udev' = UdevQueue(a)
      BY <1>1, <1>u DEF Plug, Unplug
    <3>3. Append(udev.queue, a) \in Seq(UdevCommands)
      BY <3>1
    <3> QED
      BY <3>1, <3>2, <3>3 DEF UdevQueue
  <2> QED
    BY <2>1, <2>2, <2>3 DEF Types, StartTypes, RunTypes, WorldTypes, startVars, runVars
<1>2. ASSUME NEW p \in Procs, Start(p)
      PROVE  Types'
  <2>1. PICK a \in Args : Begin(p, ParseOpts(a))
    BY <1>2 DEF Start
  <2>2. StartTypes' /\ RunTypes'
    BY <1>u, <2>1, BeginKeepsTypes
  <2> QED
    BY <1>2, <2>2 DEF Start, Types, WorldTypes, worldVars
<1>3. ASSUME NEW p \in Procs, UdevRun(p)
      PROVE  Types'
  <2>1. udev.queue \in Seq(UdevCommands) /\ udev.queue # <<>>
    BY <1>3 DEF UdevRun, Types, WorldTypes
  <2>2. Head(udev.queue) \in UdevCommands /\ Tail(udev.queue) \in Seq(UdevCommands)
    BY <2>1
  <2>3. StartTypes' /\ RunTypes'
    BY <1>3, <1>u, <2>2, BeginKeepsTypes DEF UdevRun
  <2>4. p \in 0 .. MaxProc
    BY InstancesAssumption DEF Procs
  <2> QED
    BY <1>3, <2>2, <2>3, <2>4 DEF UdevRun, Types, WorldTypes
<1>4. ASSUME NEW p \in Procs, Step(p)
      PROVE  Types'
  <2>1. UNCHANGED worldVars
    BY <1>4 DEF Step, OpenPidfile, TestLock, Decide, Unlink, Daemonize, CreatePidfile, PlaceLock,
                UnlinkSocket, Bind, Initialise, NotifyParent, Shutdown, worldVars
  <2> QED
    BY <1>4, <2>1, StepKeepsTypes DEF Types, WorldTypes, worldVars
<1>5. ASSUME NEW p \in Procs, Interrupted(p) \/ HandledUnnoticed(p) \/ UsbProcess(p)
      PROVE  Types'
  <2>1. /\ pc' \in {pc, [pc EXCEPT ![p] = "loop"], [pc EXCEPT ![p] = "shutdown"]}
        /\ sigs' \in {sigs, [sigs EXCEPT ![p] = {}]}
        /\ UNCHANGED <<opts, seen, parent, pidfile, sock, raced, worldVars>>
    BY <1>5 DEF Interrupted, HandledUnnoticed, UsbProcess, Goto
  <2>2. StartTypes'
    BY <2>1 DEF Types, StartTypes, Pcs, Started, Locked
  <2>3. discover' \in [Procs -> BOOLEAN]
    <3>1. MustDiscover(p) \in BOOLEAN
      BY DEF MustDiscover, Types, RunTypes
    <3>2. PICK b \in BOOLEAN : b = MustDiscover(p)
      BY <3>1
    <3>3. discover' \in {discover, [discover EXCEPT ![p] = FALSE], [discover EXCEPT ![p] = b]}
      BY <1>5, <3>2 DEF Interrupted, HandledUnnoticed, UsbProcess
    <3> QED
      BY <3>3 DEF Types, RunTypes
  <2>4. devs' \in [Procs -> DeviceRecord]
    <3>1. devs \in [Procs -> DeviceRecord] /\ Discovered(p) \in DeviceRecord /\ NoDevice \in DeviceRecord
      BY DiscoveredType DEF Types, RunTypes
    <3>2. [devs EXCEPT ![p].listed = TRUE] \in [Procs -> DeviceRecord]
      BY <3>1 DEF DeviceRecord
    <3>3. devs' \in {devs, [devs EXCEPT ![p] = Discovered(p)], [devs EXCEPT ![p] = NoDevice],
                     [devs EXCEPT ![p].listed = TRUE]}
      BY <1>5 DEF Interrupted, HandledUnnoticed, UsbProcess
    <3> QED
      BY <3>1, <3>2, <3>3
  <2>5. RunTypes'
    BY <2>1, <2>3, <2>4 DEF Types, RunTypes
  <2> QED
    BY <2>1, <2>2, <2>5 DEF Types, WorldTypes, worldVars
<1>6. ASSUME NEW p \in Procs, Kill(p)
      PROVE  Types'
  <2>1. StartTypes' /\ RunTypes'
    BY <1>6, EndedTypes DEF Kill
  <2> QED
    BY <1>6, <2>1, InstancesAssumption DEF Kill, Types, WorldTypes
<1>7. ASSUME NEW p \in Procs, KillParent(p)
      PROVE  Types'
  <2>1. StartTypes'
    BY <1>7 DEF KillParent, Types, StartTypes, ParentStates
  <2>2. RunTypes' /\ WorldTypes'
    BY <1>7, InstancesAssumption DEF KillParent, Types, RunTypes, WorldTypes, runVars
  <2> QED
    BY <2>1, <2>2 DEF Types
<1>8. CASE UNCHANGED vars
  BY <1>8 DEF vars, startVars, runVars, worldVars, Types, StartTypes, RunTypes, WorldTypes
<1> QED
  BY <1>1, <1>2, <1>3, <1>4, <1>5, <1>6, <1>7, <1>8 DEF Next

\* The types hold: options are options, whoever started the process, and the
\* numbers of processes, kills and devices stay in their bounds.
THEOREM InstancesTypes == Spec => []TypeOK
<1>1. Init => Types
  <2> SUFFICES ASSUME Init PROVE Types
    OBVIOUS
  <2>1. ParseOpts(<<>>) \in Options /\ NoDevice \in DeviceRecord /\ ppoll \in BOOLEAN
    BY InstancesAssumption DEF NoDevice, DeviceRecord, Init
  <2>2. StartTypes
    <3>1. /\ pc \in [Procs -> Pcs] /\ opts \in [Procs -> Options]
          /\ parent \in [Procs -> ParentStates]
      BY <2>1 DEF Init, Pcs, ParentStates
    <3>2. seen \in [Procs -> -1 .. MaxProc] /\ pidfile \in -1 .. MaxProc /\ sock \in 0 .. MaxProc
      BY InstancesAssumption DEF Init
    <3>3. raced \in BOOLEAN
      BY Zenon DEF Init
    <3> QED
      BY <3>1, <3>2, <3>3 DEF StartTypes
  <2>3. RunTypes
    BY <2>1 DEF Init, RunTypes
  <2>4. WorldTypes
    <3>1. plugged \in BOOLEAN
      BY Zenon DEF Init
    <3>2. /\ plugs \in 0 .. MaxPlugs /\ kills \in 0 .. MaxKill
          /\ udev \in [queue : Seq(UdevCommands), running : 0 .. MaxProc]
      BY InstancesAssumption DEF Init
    <3> QED
      BY <2>1, <3>1, <3>2 DEF WorldTypes
  <2> QED
    BY <2>2, <2>3, <2>4 DEF Types
<1>2. Types /\ [Next]_vars => Types'
  BY NextKeepsTypes
<1>3. Types => TypeOK
  <2> SUFFICES ASSUME Types PROVE TypeOK
    OBVIOUS
  <2>1. UdevCommands \subseteq Seq(Letters)
    BY DEF UdevCommands, Letters
  <2>2. udev.queue \in Seq(Seq(Letters)) /\ udev \in [queue : Seq(UdevCommands), running : 0 .. MaxProc]
    BY <2>1 DEF Types, WorldTypes
  <2>3. udev \in [queue : Seq(Seq(Letters)), running : 0 .. MaxProc]
    BY <2>2
  <2> QED
    BY <2>3 DEF Types, StartTypes, RunTypes, WorldTypes, TypeOK, DeviceRecord, ParentStates, Signals
<1> QED
  BY <1>1, <1>2, <1>3, PTL DEF Spec

=============================================================================
