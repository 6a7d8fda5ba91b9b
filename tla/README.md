# A TLA+ model of usbmuxd

usbmuxd multiplexes TCP-like connections between local clients and iOS devices
over USB. This directory holds a formal model of the daemon: TLA+ modules
translated from `src/src/*.c`, TLC configurations that check them on small
instances, and TLAPS proofs of the properties that hold for every size.
`PROJECT.json` is the index: components, runs, the definition-to-source map,
mutants, findings, hazards and theorems.

## 1. The system

| part | source | state | what changes it |
|---|---|---|---|
| event loop | `main.c` `main_loop` | fd list, result of one `ppoll()` | one iteration: listening socket, USB, then clients, in list order; timeouts only when `ppoll()` returned 0 |
| clients | `client.c` | `struct mux_client`: state, `events`, `devents`, buffers, `connect_device` | accept, commands, output, `client_set_events`, `client_notify_connect`, `client_close` |
| devices and connections | `device.c` | `device_list`, per device its connections, `next_sport`, `pktbuf`; per connection the TCP-like state | `device_add`, `device_data_input` and below, `device_client_process`, `device_start_connect`, `device_abort_connect`, `connection_teardown`, `device_check_timeouts`, `device_remove` |
| preflight | `preflight.c` | one detached thread per device, `struct cb_data` on its stack | the lockdown conversation, `client_device_add`, the wait for trust, the notification callback |
| USB | `usb.c` | `struct usb_device`: `alive`, transfer lists | hotplug, `usb_discover`, control-transfer chain, read loops, `usb_send`, `reap_dead_devices`, `usb_disconnect`, `usb_shutdown` |
| start-up, signals | `main.c` | pidfile and its lock, socket, pipe to the first process, `should_exit`, `should_discover` | options, signals to a running instance, `daemonize`, `create_socket`, `handle_signal`, shutdown |
| configuration | `conf.c` | pair records, SystemBUID on disk | read, write, remove, one file operation after the other |
| helpers | `utils.c`, `log.c` | none of their own | |

How they interact:

* A client's *Connect* makes a connection on a device; from then on client and
  connection are two records that point at each other and step through the
  handshake separately. Either side may end it, and each end calls the other's
  cleanup (`connection_teardown`, `client_close`, `device_abort_connect`).
* All of this runs on one thread, but the results of one `ppoll()` are handled
  one after the other, and an earlier handler may free what a later result is
  about.
* Preflight threads share `client_list` and `device_list` with the event loop
  through two mutexes, and share the clients' output buffers through none.
* The files of `conf.c` are read and written by the event loop and by the
  preflight threads, with no lock and without atomic replacement.
* Several processes meet at the pidfile and the socket: users, systemd and udev
  start the daemon, and an instance that finds another one signals it and ends.
* `usb.c` hands `device.c` pointers to its devices; libusb hands `usb.c`
  callbacks at any point where events are handled, including inside the wait of
  `usb_disconnect`.

The behaviours that are hard to test are listed as *hazards* in
`PROJECT.json`, each at its source line with the properties that cover it.

## 2. The modules

| module | models | checked by |
|---|---|---|
| `BoundedPipe` | abstract: a pipe that loses, repeats and invents nothing, of bounded capacity | as the property `BytesConserved` |
| `MuxTcp` | one connection with its client and the device's endpoint, shown to implement `BoundedPipe` in each direction | `MuxTcp_*.cfg` |
| `MuxTcpLoop` | `MuxTcp` in an event loop with other descriptors | `MuxTcp_down.cfg` |
| `MuxTcpFlow` | the flow control of `MuxTcp` as an invariant, and lemmas on it | TLAPS |
| `MuxTcpProofs` | proofs about `MuxTcp` | TLAPS |
| `PacketChannel` | abstract: packets arrive whole, once, in order, unless one that is too long derails the channel | as the property `Reassembles` |
| `MuxPackets` | `device_data_input`, shown to implement `PacketChannel` | `MCMuxPackets`, `MuxPackets.cfg` |
| `MuxPacketsProofs` | proofs about it | TLAPS |
| `ClientProtocol` | abstract: the conversation with each client | as the property `ProtocolKept` |
| `MuxSession` | the event loop with all clients, devices and connections, shown to implement `ClientProtocol` | `MCMuxSession`, `MuxSession*.cfg` |
| `MuxSessionProofs` | proofs about it | TLAPS |
| `Announce` | preflight threads against the event loop | `Announce*.cfg` |
| `AnnounceProofs` | proofs about it | TLAPS |
| `UsbDevices` | life of USB devices and their transfers | `UsbDevices.cfg` |
| `UsbDevicesProofs` | proofs about it | TLAPS |
| `Instances` | several processes from start-up to exit | `MCInstances`, `Instances*.cfg` |
| `InstancesProofs` | proofs about it | TLAPS |
| `Config` | the files of the daemon and the threads that use them | `Config.cfg` |
| `ConfigProofs` | proofs about it | TLAPS |

Definitions whose name has an underscore suffix and a comment "Mutant" are
deliberately wrong variants of the definition next to them. No specification
uses them; `PROJECT.json` says which property each one breaks.

`MuxTcp` and `MuxSession` divide the daemon's main thread between them:
`MuxTcp` has one connection and all of its numbers, `MuxSession` all the
connections and none of their numbers.

### MuxTcp and BoundedPipe

`conn` is `struct mux_connection`, `client` the fields of `struct mux_client` a
connection touches. Handlers of the event loop are atomic, because it is one
thread; what interleaves is the device (`peer`, `toDev`, `fromDev`), the
client's process (`app`), time (`Tick` makes the 30 ms ACK timer expire) and the
gap between `ppoll()` and the handling of its result (`polled`).

| action | code |
|---|---|
| `StartConnect` | `device_start_connect`, and the end of the Connect branch of `handle_command` |
| `DeviceTcpInput` | `device_tcp_input`, one operator per branch, with `connection_device_input`, `send_tcp_ack` and `update_connection` |
| `ClientProcess` | `client_process`: `output_buffer_process` while connecting, `device_client_process` once connected |
| `CheckTimeouts` | `device_check_timeouts` |
| `DeviceRemove` | `device_remove` |
| `Teardown` | `connection_teardown`, flush loop included |
| `Peer*`, `App*` | external: the TCP endpoint in the device and the client's process |

Kept: wrap-around of sequence numbers (`SeqMod` for 2^32), scaling of windows
(`WinUnit` for 2^8), the separate limits `sendable` is clipped to, delayed ACKs,
partial writes to the client, and the outcome of `usb_send` in which the data
went out and only the trailing zero-length packet failed. Abstracted: payload
bytes are counted, not named.

`main_loop` looks at the ACK timers only after a `ppoll()` that found no
descriptor ready at all, those of other clients and devices included. In `MuxTcp`,
`CheckTimeouts` may be taken when this connection is quiet, and need never be.
`MuxTcpLoop` adds `others` (some other descriptor is ready), and `IdlePoll`
requires that to be false as well.

The endpoint is assumed to honour the window it is given, to advertise no more
than it can buffer and to acknowledge what it takes. It may refuse, reset or
close at any time, and close with RST or another unexpected flag.

`BoundedPipe` is what a connection promises in one direction: bytes are sent, are
on their way, arrive, are held and are taken, never more than `Capacity` between
the two ends. `MuxTcp` instantiates it twice. `Down` (from the device, capacity
`TxWin`) has on its way what the endpoint has numbered and the daemon has not
counted, and holds the in-buffer. `Up` (to the device, capacity `DevWin`) has on
its way what the daemon has numbered and the endpoint has not taken, and holds the
endpoint's buffer. Both mappings are differences of wrapping numbers, so a number
that is skipped, counted twice or overtaken shows as a step no pipe can take. Up
closes with either end. Down closes only when the daemon frees the connection:
what the endpoint sent before it closed still arrives. What is in a pipe when it
closes is the subject of `FlushedUnlessClientFails`.

### MuxPackets and PacketChannel

A buffer holds a range of the bytes of a packet, and what the length field of
its first header says. A transfer from the middle of a packet has any value
where a header would have its length, so that reading the wrong header shows.
Dropped, split, exact-multiple and empty transfers follow the branches of
`device_data_input`. A packet may have any length. One that exceeds the buffer
by more than a transfer goes on after it was dropped, and what follows of it is
taken for a new packet: `astray` records this, until a short transfer comes, which
always ends what is being collected. Payload taken for a header may name any
protocol, so what reaches a handler then is `Garbled`, or nothing. `PacketChannel`
says the same of packets: everything is delivered or discarded singly, except
between a packet that derails the channel and the end of one that resynchronises it.

### MuxSession and ClientProtocol

`pc` follows `main_loop`: `poll`, `listen`, `usb`, `clients`, and the shutdown
sequence of `main`. `rev` holds results still to be handled. Commands are kinds
(Listen, Connect, a query answered by one message, SavePairRecord, an unparsable
one, one with a bad length); a command takes two reads, header and body, unless it
has no body, as any but SavePairRecord may. Output buffers count messages.
`update_connection` yields any event mask, since the numbers it depends on are in
`MuxTcp`. `client_device_add` is called at once, as with preflight disabled. After
`device_kill_connections` devices still come and go, in its `usb_process_timeout`
(`UsbServed`).

`stray` records memory used after it was freed or before it was initialised. Two
such steps lead to the state `crash`, which has no successor:
`ReadFreedBuffer` and `ConnectTooEarly`. The second is a Connect that names a
device whose version reply has not arrived; `find_sport` then reads an
uninitialised list. No document says what should happen, so no property is
stated about it, and what the others say of connections (that only an active
device has any) they say of behaviours without such a step.

`ClientProtocol` is what the processes at the other end of the socket rely on. A
client gives commands, each answered by one message (or none, if it cannot be
parsed); or it listens, and then hears of every device that comes or goes,
together with all other listeners; or it waits for a Connect, about which nothing
is said until it is granted or refused by one message. With the last message of a
granted Connect the socket becomes the device's, and no message is queued any more.
A client leaves at any time, or with its connection. `Phase` maps the states: that
a client waits, or has been granted its Connect, is read off its connection in
`dev`, not off its own state, so the mapping depends on the two being in step.

### Announce

Each thread advances from one point where it takes, holds or releases a mutex to
the next. `clMutex` and `dlMutex` are `client_list_mutex` and
`device_list_mutex`. Output buffers are written without a common lock: an
operation on one has a begin and an end, and when two overlap, `raced` is set
and the later message may be lost. The worker's `frame` tells whether the
`struct cb_data` on its stack is alive. The lockdown conversation
(`Preflight`) is a single step with its three outcomes, because nothing in it is
shared; the effects of the notification callback on `cb_data` are `NpLost` and
`NpPairs`.

`client_device_remove` and the walk of `client_close` are atomic once they own
`client_list_mutex`: workers write to the clients' buffers only while they own it
themselves.

### UsbDevices

`phase` says whether the daemon is in `main_loop`, in the `usb_process_timeout` of
`device_kill_connections` or in `usb_shutdown`; `main` whether the main thread is
polling, handling events, walking the list, in the wait of `usb_disconnect`, or
done. Callbacks are enabled exactly while events are handled (`InEvents`), for all
devices. A device's `stage` follows the chain of control transfers. `lost` counts
read transfers that libusb no longer has because resubmitting them failed
(`ResubmitMayFail`).

Event handling may fail wherever it is called: in `usb_process` this ends the main
loop and in `usb_process_timeout` the wait (`EventsFail`), in `usb_disconnect` the
device is freed with its transfers pending (`AbandonWait`). The same happens where
`get_serial_callback` disconnects a device, since event handling does not nest; the
version packet is pending then. `devlist_failures` is abstracted: a scan without a
device list changes nothing, and any failure may be the one too many that ends the
main loop (`LoopEnds`).

libusb is external and assumed to end every transfer it has once, to report a
cancelled read as an error and not as data, to drop transfers whose handle was
closed, without a callback ("this never gets called", usb.c:161), and to refuse
nested event handling. Addresses are not reused.

### Instances

`pc[p]` follows `main` of process `p`: the look through the pidfile (`open`,
`getlk`), the decision about a running instance (`decide`), `unlink`,
`daemonize`, the pidfile of its own (`create`, `lock`), the socket (`socket`,
`bind`), initialisation, the word to the waiting process (`notify`), `loop` and
`shutdown`. Each is one system call or a stretch in which nothing is shared, so
start-ups interleave between any two. A process may be killed anywhere
(`Kill`), its waiting parent too (`KillParent`), and every call may fail, F_GETLK
and the redirection of stderr after success was reported included. What a
process leaves behind stays: `pidfile` and `sock` name the creator of the file at
the path, and a lock is gone with its process (`HoldsLock`).

Signals are blocked except in `ppoll()`, so `sigs[p]` collects them and
`Interrupted` handles all that are pending. On a host without `ppoll()` the
replacement in `main.c` unblocks before it polls, and a signal can be handled
there without interrupting the poll (`HandledUnnoticed`). `udev` runs the
commands of its two rules (`src/udev/39-usbmuxd.rules.in`, as configured without
systemd) one after the other. The command lines are in
`MCInstances`; `ParseOpts` translates `parse_opts`, in which the last of `-x` and
`-X` counts.

`raced` records that two start-ups overlapped or that an instance used no
pidfile. The code does not protect itself against either: between the test of
the old lock and the lock on the new file another process may do the same, and
`unlink` removes whatever file is there by then. The properties about a single
daemon are stated for the other behaviours.

### Config

`config_get_system_buid` is taken apart into its file operations: read, generate,
read again, remove, open, fill. So is the writing of a pair record. In between,
any other thread runs and the process may be killed (`Kill`), which leaves the
files as they are. `inode` distinguishes the file a thread has open from the file
at the path, because `internal_set_value` removes the file before it writes it. A
file that is not completely written reads as nothing (`Torn`); two threads that
fill the same file may leave the longer text's tail behind the shorter one.
`faults` records overlapping generation, a failed store and a kill while storing,
and the properties say which of these they exclude. `acked` is the record a client
was last told is saved, and stays what it is while the next one is saved. `undone`
records that it was removed since, by a client or as invalid, or that a later save
was begun and cut short: that one removes the old record first, so an error or a
kill then loses a record that had been acknowledged. `AckedIsStored` holds outside
a save and until `undone`.

A preflight thread appears as far as it uses the files: has it a record, its host
id, the session, removal of an invalid record and the retry, and the SystemBUID.
What pairing saves arrives as a SavePairRecord command, as it does in reality: a
client inside libimobiledevice sends it to this daemon.

## 3. The runs

All bounds are constants of the modules, named in the configurations.

| run | instance | shows |
|---|---|---|
| `tcp_down` | window 2, sequence space 4, USB errors, other descriptors, fair | the in-buffer never overflows even if it is only as large as the advertised window (the code has twice that); counting bytes replaces comparing `th_seq`; a blocked device gets a new window through the delayed ACK, if the other descriptors fall quiet in the end |
| `tcp_up` | device buffer 1, window 1, USB errors, fair | a blocked client may send again; every Connect is answered |
| `tcp_both` | both directions, device buffer 2, payload 2 | client and connection agree, no wakeup is lost, teardown flushes, the daemon never overruns the device although its view of the window is old, and numbers data without gap; each direction implements the bounded pipe |
| `packets` | 1 to 6 transfers per packet, a buffer of 3 | reassembly implements the packet channel, and only the rest of a dropped packet takes it out of step, until a short transfer |
| `session` | 3 clients on 2 descriptors, 2 devices, 3 ports, 2 commands of any kind, USB errors, shutdown | clients and connections match one to one; ports are distinct; queued messages are polled for; listeners know exactly the devices present; poll results never reach a client accepted later on the same descriptor; devices do not disturb each other; each client sees the client protocol |
| `announce` | 2 devices, 1 client, fair | `cb_data` is never used after its frame is gone; no present device is missed, no withdrawn one remembered; the worker of an unplugged device ends its wait |
| `usb` | 2 devices, 1 read loop, 1 write, with and without hotplug, resubmission and event handling may fail, shutdown, fair | `device.c` keeps no pointer to a freed device; at the end of `usb_shutdown` no device is open, although callbacks run in it; an unplugged device leaves the list, by either way of noticing |
| `instances` | 2 processes, 6 command lines and udev, 1 kill, failing calls, both kinds of `ppoll`, fair | one daemon serves and is found; the first process learns the truth and returns; SIGTERM ends any instance; no SIGUSR2 is lost |
| `config` | event loop and 1 preflight thread, 1 device, 2 saves, 1 kill, failing file operations, fair | one SystemBUID; an acknowledged record is read back until it is removed or a later save of it is cut short; other keys survive; preflight's retries end |
| `session_buffer`, `announce_locks`, `instances_hotplug` | | violated, see *Disagreements* |

Deadlock is checked in `packets` and `config`. Elsewhere a connection, a session,
a device or a process may legitimately be over.

Why the bounds are enough. With a window of 2, a sequence space of 4 and the
device free to split its data, data, ACK and delayed ACK overlap in all orders
and the numbers wrap several times within a run; larger windows add more of the
same segments. Windows of 3 with three segments in flight were explored while the
model was built, one direction at a time, with the same result. `ChanCap` allows
one segment being handled, one stale and one new. Two clients and two devices
suffice for properties that relate two of a kind; descriptors are
interchangeable and declared symmetric (in runs without liveness). Two Connects
on three ports take the counter to its wrap, and no run goes beyond it; that ports
stay distinct after any number of wraps is proved (`SourcePortsDistinct`). With a
buffer of three transfers, packets of up to six cover those that fit, those dropped
with their last transfer, and those that go on after it for a short, a full and more
than a full transfer. Two processes suffice for a pidfile: one has it, one wants it; an
instance that was killed leaves its files to the other, and Init has a pidfile
left over from earlier. In `config` the second writer is the event loop. Where a
bound is low (one read loop, one kill, one worker), the theorems of section 4
hold for any number.

`RetryEnds` depends on `MaxSave` being finite: preflight starts over only after it
has removed a record, so it goes on as long as clients keep saving invalid ones,
and no longer.

### Fairness

* `MuxTcp!Fairness`: the event loop goes on, time passes, the client's process
  drains its socket, and the endpoint takes, consumes and acknowledges. Weak
  fairness suffices. Nobody is required to connect, write, close or unplug. The
  answer to a SYN is part of the fair `PeerInput`: the code has no timeout for
  it, so `ConnectAnswered` is a statement about devices that answer.
* `MuxTcpLoop!LoopSpec`: the same, and the loop gets to the timers when neither
  this connection nor another descriptor has anything ready. Nothing makes the
  others fall quiet. `DeviceUnblocked` is an implication for this reason: if some
  other client or device is ready at every `ppoll()`, for example a client that hung
  up and is not read from, no delayed ACK is sent.
* `Announce!FairSpec`: strong fairness where a mutex must be obtained (POSIX does
  not promise it, but implementations do not starve a waiter for ever), threads
  run on, and the notification client reports that its device is gone. The
  conversations with the device need not end, and the event loop need do nothing
  but finish what it began under a mutex.
* `UsbDevices!FairSpec`: the main loop goes on, libusb delivers hotplug events
  and the end of cancelled transfers; without hotplug, devices are polled for, and
  not every scan lacks its device list.
* `Instances!FairSpec`: processes run on (a failing call is always an allowed
  outcome, never a required one), a pending signal is handled in the end, udev
  runs its queue. Nobody is required to start a process, to plug or to unplug.
  That the loop's handlers and the shutdown return is taken for granted here, and
  with it in `ForceExitWorks`. The lock cycle of `announce_locks` and the endless
  wait of `DisconnectEnds` (below) are behaviours in which they do not.
* `Config!FairSpec`: threads go on once they have begun, and lockdownd answers.

### Disagreements

Three runs check a statement found in the sources or documents that the code
contradicts; `findings` in `PROJECT.json` quotes it.

| run | what happens |
|---|---|
| `session_buffer` | a command pipelined behind a Connect is looked for in the buffer that `client_notify_connect` freed ("no longer need this") |
| `announce_locks` | `client_device_add` and `device_remove` (or `device_check_timeouts`) take the two mutexes in opposite orders |
| `instances_hotplug` | a device is unplugged and plugged in again: the command of udev's "add" rule finds the lock of the daemon that is already shutting down, signals it and ends, and nothing serves the device (README.md:90 "automatically started [...] upon hotplug of an iOS device") |

The modules define further statements of this kind. They have no run of their
own; TLC reports each as violated when it is added to the configuration named.

| statement | add to | what happens |
|---|---|---|
| `FlushedOnTeardown` | `MuxTcp_both.cfg` | data that arrives before the Connect result has been sent is discarded at teardown, because `client_write` refuses a client that is not yet CONNECTED (NEWS:60 "Flush input buffer on connection teardown") |
| `PortRefusedOnlyWhenFull` | `MuxSession.cfg` | when `next_sport` wraps to 0, `find_sport` returns it, and the Connect is refused as if no port were left (device.c:246 calls that "insanity") |
| `DeadClientUntouched` | `MuxSession.cfg` | `input_buffer_process` writes to a client that `handle_command` freed (client.c:980 is careful about the same case) |
| `AttachedIsVisible` | `Announce.cfg` | a device removed during preflight is announced after its Detached and never withdrawn |
| `UnblockedWhateverOthersDo` | `MuxTcp_down.cfg` | other descriptors keep every `ppoll()` from returning 0, and the delayed ACK is never sent |
| `DeadStaysDead` | `UsbDevices.cfg` | a device marked dead after an error is marked alive again by `usb_discover` before it is reaped |
| `InitFailureClosed` | `UsbDevices.cfg` | a device whose descriptor requests fail stays listed, alive and unused (usb.c:771 "so we can close it in case of failure/disconnection") |
| `DisconnectOutsideCallbacks` | `UsbDevices.cfg` | `get_serial_callback` calls `usb_disconnect` inside a callback (usb.c:246 "we can't usb_disconnect here due to a deadlock") |
| `FreedWithoutTransfers` | `UsbDevices.cfg` | when `libusb_handle_events_timeout` fails, and in the callback, `usb_disconnect` stops waiting and frees the device with transfers pending (usb.c:90 "try to make sure the callbacks get called before we free the device") |
| `DisconnectEnds` | `UsbDevices.cfg` | a read transfer that could not be resubmitted keeps `usb_disconnect` waiting for ever |

## 4. The proofs

TLAPS checks the following for every value of the constants that satisfies the
named assumptions of the modules.
The larger proof modules try Zenon, then SMT, then Zenon with more time (`USE`
after their EXTENDS): most of their leaves need no arithmetic, and tlapm takes
longer to encode a leaf for SMT the more of them a module has.

**`MuxPacketsProofs`** (from `PacketsAssumption`: the buffer is a whole number of
transfers, as 65536 is of 16384; packets have any length but 0). `StaysInSync` and
`BufferIsNeverOverrun`: `TypeOK`, `InSync` and `BufferBound` always hold. With
`OffWhole` (the device stands at a transfer's boundary) their conjunction is
inductive: `InSync` alone is not, because whether a transfer overflows the buffer
depends on `pktlen` being a multiple of a transfer's size, which is in
`BufferBound`. `TransferInStep` says what one transfer does while in step: the
packet goes on, or it is complete and the buffer empty, or it was dropped and its
rest follows. `TransferAstray` says what it does out of step: a short transfer
empties the buffer, a full one keeps it within its bound. `ImplementsChannel`: every
step is a step of `PacketChannel` or none, under the mapping that takes the packet
being sent for the one on its way.

**`AnnounceProofs`** (from `ThreadsAssumption`).
`CbDataStaysAlive`: `TypeOK` and `CbDataAlive`. `CbDataAlive` by itself is not
inductive: `CbDiscipline` adds where in its code a worker can be while its
pointer is registered or its frame alive, and `MainDevice` that the event loop's
current device is one. Each worker step is reduced to two lemmas on a single
worker, so that the steps for the other devices are argued once.
`ListenersMissNothing` and `GoneStaysGone` prove `PresentDeviceKnown` and
`GoneDeviceForgotten`. Neither is inductive, because announcing takes several
steps on either thread. The invariant `Story` says who is going to act: a
listener knows a visible device, or the worker of the device has the listener
on its list, or the event loop is listing the devices for it (`News`); nobody is
going to tell of a device that left (`Past`, `Current`); and a worker that sends
holds `client_list_mutex` (`Holds`), so that neither a listener nor a removal
comes in between.

**`MuxTcpProofs`**, states of client and connection (from `SizesAssumption`; not
from the endpoint's honesty).
`ClientAndConnectionAgree`, `NoWakeupIsLost` and `TeardownFlushes` prove
`StatesAgree`, `PollMaskFresh` and `FlushedUnlessClientFails`. The inductive
invariant is `Inv`: connection and client fit each other (`Fits`), the ending
recorded in `fin` was flushed (`Flushed`), and the types. It strengthens the
three properties in these places: the connection's own `events` are exactly its
mask and equal the client's `devents` (so that the mask is right when
`output_buffer_process` installs it later), a connection in its handshake holds
no data, and `ib_size > 0` implies that POLLOUT is asked for (so that the flush
loop of `connection_teardown`, which looks at `events`, does run). The argument
goes handler by handler. Nearly every handler ends in `Settle` or `Teardown`, so the
lemmas `SettleKeeps` and `TeardownKeeps` carry most of it.

**`MuxTcpFlow`, `MuxTcpProofs`**, flow control (from `SizesAssumption` and
`WindowAssumption`, and from the endpoint as `MuxTcp` models it). `WindowAssumption`
says what the code's numbers say: the in-buffer is at least the advertised window
(256 KB to 128 KB), and the sequence space of 2^32 exceeds both windows by more
than one. `InputFits`, `DeviceBufferFits`, `ReceivesWithoutGap` and
`SendsWithoutGap` prove `InputNeverOverflows`, `DeviceNeverOverflows`,
`ReceivesInSequence` and `SendsInSequence`. Numbers wrap, so no two of them can be
compared; the invariant `Flow` compares distances from the oldest number still of
interest in each direction.

* From the device (`Receiving`): starting at what the device has seen
  acknowledged, the acknowledgements in the pipe, what the client took, what is
  buffered, the segments in the pipe and what was sent last follow in this order,
  and the last is within a window of what the client took.
* To the device (`Sending`): no window that was announced, still in the pipe or
  already acted upon, reaches beyond the device's buffer, counted from the
  acknowledgement that came with it; and what was sent stays within them.
* After the connection was freed (`Harmless`): what is left in the pipe still
  fits. Without this the step that frees a connection would not keep
  `DeviceNeverOverflows`.
* `Handshake`: what the pipes hold before the first data. The SYN counts as one
  number; the device may be told of it before the daemon counts it.

`MuxTcpFlow` has the lemmas on pipes (`Chain`, `Ordered`, `Acks`, `Limits` under
adding and taking a segment) and on distances modulo `SeqMod`; `MuxTcpProofs` goes
through the handlers and the endpoint's steps.

**`MuxTcpProofs`**, types and pipes (from the same assumptions).
`TcpTypes` proves `TypeOK`. `Inv` has only a wider form of it, with windows that
are integers, and `Flow` does not say that they are natural numbers. `Windows`
does: no window of the connection, of the endpoint or of a segment in a pipe is
negative. What the endpoint offers is its buffer less what it holds, and `Flow` is
why that is not negative. `sendable` is what `update_connection` last computed
(`Inv`), and its guard clips that at 0.

`ConservesBytes` proves `BytesConserved`: each direction refines `BoundedPipe`. At
the start both pipes are new. For a step, `Flow` gives the mapped counts as
distances (`DownCounts`, `UpCounts`): in Down the bytes on their way and those
held are together at most `TxWin`, in Up at most `DevWin`, although neither sum is
kept anywhere in the code. The remaining lemmas say which step of the pipe a
handler is. `device_tcp_input` is Arrive in Down by the length of the segment,
because the segment's number is the one expected (`DataArrives`); it is Open in
both when it sees the SYNACK, except for Up if the endpoint has already closed
(`EstablishedOpens`). The write to the client in
`device_client_process` is Take in Down and its read is Send in Up, both in one
handler. Taking, consuming and sending by the endpoint are Arrive and Take in Up
and Send in Down. Everything that frees the connection is Close in both
(`FreeingCloses`), also after `usb_send` failed with the data already under way.
Delayed ACKs, polling and the client's own steps leave both pipes alone
(`DownRests`, `UpRests`).

**`MuxSessionProofs`** (from `SessionAssumption`; the set of descriptors need not be
finite).
`ConnectionsAreMatched` and `SourcePortsDistinct` prove `ConnectionsMatchClients`
and `PortsDistinct`. The invariant `SessionInv` reads the match in both
directions: each connection's client names its device and is in the fitting
state, no client has two connections, a busy client has one, and none is left
during shutdown. Teardown walks these pointers, so each direction is needed to
keep the other. `find_sport` is a loop that ends when it meets a free port;
`SomePortFree` shows by counting that there is one (the connections are finite
and fewer than the ports), and `FindSportFree` that the loop's result is it. That
the walk reaches a free port uses the least element of a set of naturals
(`LeastElement`), from the library's well-founded induction.
`TypesKept`, `MessagesArePolledFor`, `ListenersKnowDevices`, `ResultsAreNotReused`
and `OneDeviceAtATime` prove `TypeOK`, `QueuedIsPolled`, `ListenersInformed`,
`FreshClientHasNoEvents` and `DevicesAreIsolated`. The first three and the
fourth's premise are in `FullInv`. Every step is reduced to what it does to one
client (`Proceeds`): its queue and mask still fit, it has been told what it should
be told if that was so before, and it is the same client unless it has just been
accepted. The two action properties follow from `FullInv`: results are collected
only for live clients, and until the listening socket was served no descriptor
that is free has one (`PolledLive`); and a teardown changes only the clients that
`SessionInv` matches with the device's own connections.

`KeepsProtocol` proves `ProtocolKept`: the event loop refines `ClientProtocol`. By
`FullInv` the phase read off a client's connection is the one its own state tells
(`PhasesFit`), before and after a step. A step is then of one of two kinds
(`Talks`). Either devices or connections come or go: every listener gets one
message per device, and of the others those whose connections end are refused or
closed, once each (`Shifts`; `device_remove`, `device_version_input`,
`connection_teardown`). Or the devices stay, and each client is answered, granted
its Connect, sent some of its messages, accepted or closed (`Speaks`). Both kinds
are steps of the protocol (`ShiftsMaps`, `SpeaksMaps`).

**`UsbDevicesProofs`** (from `UsbAssumption`).
`NoDanglingDevice` proves `MuxImpliesUsb`, `NothingLeftOpen` proves
`ShutdownClosesAll`, whatever fails. `SoundInv` adds to the types that a device is
known to `device.c` or has transfers only when its control transfers are done, that
a device in any such stage is listed, and that the device `usb_disconnect` waits for
is already unknown to `device.c`. `Walked` says that the devices `usb_shutdown` has
passed are closed; it is kept because only listed devices call back then
(`ListedCallsBack`), the hotplug callback being gone.

**`InstancesProofs`** (from `InstancesAssumption`). `OneDaemonServes` and
`ServingInstanceIsFound` rest on `SingleInv`: unless `raced`, one process at a time
is between its look at the pidfile and its lock, an instance past the lock owns the
file at the pidfile's path and, without TCP, the socket, and while a process
replaces the pidfile nobody is past the lock. `ParentKnowsTheTruth` rests on
`ToldInv`, which adds what the waiting process has been told at each point.
`InstancesTypes` proves `TypeOK`, which has no run; the strengthening is that udev's
queue holds only the commands of its two rules.

**`ConfigProofs`** (from `ConfigAssumption`). `AcknowledgedRecordIsStored` proves
`AckedIsStored`, with any number of preflight threads, commands and kills: the file
at the path holds the acknowledged record, or `undone` is set, or a save is under
way; and the file that is being filled is torn, then the new record, unless it was
removed meanwhile. `SystemBuidIsStable` proves `BuidStable`. In `ConfInv`, unless
threads overlapped or a store failed, at most one thread is storing a SystemBUID,
only while none has been handed out and the file holds none; and the file holds the
one that was handed out. A kill needs no exception: a BUID is returned only after it
was written. `ConfigTypes` proves `TypeOK`, which has no run, and `OtherKeysSurvive`
proves `KeysKept`: by `Keys`, without faults the other keys are in the file until
the storing thread has read it, and then in that thread's dictionary until the file
is written again.

Only model-checked: all liveness properties (`DeviceUnblocked`,
`ClientUnblocked`, `ConnectAnswered`, `WaitEnds`, `DepartedIsForgotten`,
`ParentReturns`, `ForceExitWorks`, `DiscoveryHonoured`, `RetryEnds`), since
fairness and ENABLED are outside the prover's reach. Every invariant and every
action property of a passing run is proved, and so are the three refinements. No
module uses RECURSIVE operators, and no claim rests on induction over data.

## 5. What is not modelled

* In `main.c`: log levels, the resource limit, the change of user and the options
  that only print. They appear as one initialisation step that may fail.
* In `device.c`: what `device_tcp_input` does with a connection it has just torn
  down. If `client_notify_connect` fails, for want of memory only, `update_connection`
  is called on it (700-704), and `send_tcp_ack` after an overflow of the in-buffer
  (713-716), which `InputNeverOverflows` excludes for an endpoint that honours its
  window. Nor are the buffers of transfers: where `usb_send` fails with the data
  already submitted, `send_packet` and `tx_callback` both free the buffer, and the
  model shows only what the device receives.
* In `conf.c`: the conversion between plists and bytes (libplist), and the
  creation of the directory, which is part of an `open` that may fail. Values
  other than the SystemBUID are one flag, "other keys".
* `utils.c`, `log.c`, plist and binary encoding of messages, the two versions of
  the client protocol.
* The contents of the lockdown conversation and of pairing, except where they
  depend on the files (`Config`).
* systemd's socket and service management; the daemon it starts is an instance
  with `-s`.
* Reuse of a bus address before the old device is reaped; the count behind "too
  many errors getting device list".
* Data races other than those on output buffers (for example reading `np` and
  the flags of `cb_data` without a lock).
* Real time: the ACK delay and the polling intervals are orderings here.

## 6. Plan

1. Model: the framing of client commands with partial reads and both protocol
   versions; address reuse in `UsbDevices`.
2. Composition: the preflight threads of `Announce` as a source of the news that
   `ClientProtocol` describes, with the delay and the repetitions they bring.
