------------------------------- MODULE Config -------------------------------
(***************************************************************************)
(* The files the daemon keeps: src/src/conf.c.  SystemConfiguration.plist  *)
(* holds the SystemBUID, <udid>.plist the pair record of a device.  They   *)
(* are used by the event loop, on behalf of the clients' commands          *)
(* (src/src/client.c), and by the preflight thread of each device          *)
(* (src/src/preflight.c); nothing locks them.                              *)
(*                                                                         *)
(* A file is written by truncating or creating it, then filling it; the    *)
(* file system and libplist are modelled from that use.  The process may   *)
(* be killed at any step; what is in the files stays.                      *)
(***************************************************************************)
EXTENDS Integers, FiniteSets

CONSTANTS
    Devices,      \* the devices, by udid
    Workers,      \* the preflight threads; two may be at work for one device
    Records,      \* pair records that clients save
    Main,         \* the thread of the event loop
    Uuids,        \* what config_generate_uuid may return
    NoUuid,
    NoRecord, TornRecord, NullHost,
    MaxSave,      \* bound: SavePairRecord commands in a run
    MaxKill,      \* bound: times the process is killed
    MayFail       \* whether files may fail to be created, filled or removed

Threads == {Main} \cup Workers
Inodes == 1 .. Cardinality(Threads) + 1
Contents == [whole : BOOLEAN, buid : Uuids \cup {NoUuid}, other : BOOLEAN]
Torn == [whole |-> FALSE, buid |-> NoUuid, other |-> FALSE]

ASSUME ConfigAssumption ==
    /\ Main \notin Workers /\ Devices # {} /\ IsFiniteSet(Workers) /\ NoUuid \notin Uuids
    /\ {NoRecord, TornRecord, NullHost} \cap Records = {} /\ NoRecord # TornRecord
    /\ MaxSave \in Nat /\ MaxKill \in Nat /\ MayFail \in BOOLEAN

VARIABLES
    sys,      \* the file at SystemConfiguration.plist, 0 for none
    inode,    \* the contents of the files that have been at that path
    rec,      \* the file at <udid>.plist of each device
    th,       \* where each thread is, and its local variables
    saves,    \* SavePairRecord commands so far
    kills,    \* times the process was killed so far
    given,    \* the SystemBUIDs that were handed out (history)
    acked,    \* the record a client was last told is saved (history)
    undone,   \* whether it was removed, or a later save of it cut short, since (history)
    faults    \* what went wrong while SystemConfiguration was updated (history)

vars == <<sys, inode, rec, th, saves, kills, given, acked, undone, faults>>

-----------------------------------------------------------------------------
(* Threads.                                                                 *)

Idle ==
    [at |-> "idle", uuid |-> NoUuid, read |-> Torn, fd |-> 0,
     dev |-> CHOOSE d \in Devices : TRUE, record |-> NoRecord, host |-> NullHost]

At(t, where) == th[t].at = where
Goto(t, where) == th' = [th EXCEPT ![t].at = where]

\* The threads that have found no SystemBUID and have not stored theirs yet.
Storing(t) == th[t].at = "generate" \/ th[t].uuid # NoUuid

-----------------------------------------------------------------------------
(* SystemBUID.                                                              *)

\* plist_read_from_file of SystemConfiguration.plist: nothing if it is missing or torn.
ReadSystem == IF sys = 0 THEN Torn ELSE inode[sys]

\* config_get_system_buid returns b to the caller.
ReturnBuid(t, b) ==
    /\ given' = given \cup {b}
    /\ th' = [th EXCEPT ![t] = [@ EXCEPT !.at = IF t = Main THEN "idle" ELSE "wait",
                                          !.uuid = NoUuid, !.read = Torn, !.fd = 0]]

\* config_get_value.
GetValue(t) ==
    /\ At(t, "buid")
    /\ \/ /\ ReadSystem.buid # NoUuid
          /\ ReturnBuid(t, ReadSystem.buid)
          /\ UNCHANGED faults
       \/ /\ ReadSystem.buid = NoUuid
          /\ Goto(t, "generate")
          /\ faults' = faults \cup (IF \E s \in Threads : Storing(s) THEN {"overlap"} ELSE {})
          /\ UNCHANGED given
    /\ UNCHANGED <<sys, inode, rec, saves, kills, acked, undone>>

\* Mutant: the caller has the BUID before it is stored.
Generate_Early(t) ==
    /\ At(t, "generate")
    /\ \E u \in Uuids : /\ th' = [th EXCEPT ![t].at = "update", ![t].uuid = u]
                        /\ given' = given \cup {u}
    /\ UNCHANGED <<sys, inode, rec, saves, kills, acked, undone, faults>>

\* config_generate_uuid: seeded with the time in seconds, so that two threads
\* may generate the same one.
Generate(t) ==
    /\ At(t, "generate")
    /\ \E u \in Uuids : th' = [th EXCEPT ![t].at = "update", ![t].uuid = u]
    /\ UNCHANGED <<sys, inode, rec, saves, kills, given, acked, undone, faults>>

\* Mutant: the file is not read again, only the new key is written.
ReadForUpdate_Fresh(t) == Torn

\* The dictionary that internal_set_value adds the key to.
ReadForUpdate(t) == ReadSystem

\* internal_set_value reads the file, and removes it if there was something in it.
Update(t) ==
    /\ At(t, "update")
    /\ LET read == ReadForUpdate(t)
       IN  th' = [th EXCEPT ![t].at = IF read.whole THEN "remove" ELSE "open", ![t].read = read]
    /\ UNCHANGED <<sys, inode, rec, saves, kills, given, acked, undone, faults>>

\* The files, once t and the path no longer refer to i.
Forget(i, t) ==
    [j \in Inodes |-> IF j = i /\ \A s \in Threads \ {t} : th[s].fd # i THEN Torn ELSE inode[j]]

RemoveSystem(t) ==
    /\ At(t, "remove")
    /\ Goto(t, "open")
    /\ \/ sys' = 0 /\ inode' = Forget(sys, t)
       \/ MayFail /\ UNCHANGED <<sys, inode>>
    /\ UNCHANGED <<rec, saves, kills, given, acked, undone, faults>>

\* A file that no path and no descriptor refers to.
FreeInode == CHOOSE i \in Inodes : i # sys /\ \A t \in Threads : th[t].fd # i

\* plist_write_to_file opens the file: an existing one is truncated.
OpenSystem(t) ==
    /\ At(t, "open") /\ th[t].uuid # NoUuid
    /\ \/ LET i == IF sys # 0 THEN sys ELSE FreeInode
          IN  /\ sys' = i
              /\ inode' = [inode EXCEPT ![i] = Torn]
              /\ th' = [th EXCEPT ![t].at = "fill", ![t].fd = i]
              /\ UNCHANGED <<given, faults>>
       \/ /\ MayFail
          /\ ReturnBuid(t, th[t].uuid)
          /\ faults' = faults \cup {"failure"}
          /\ UNCHANGED <<sys, inode>>
    /\ UNCHANGED <<rec, saves, kills, acked, undone>>

\* ... and fills it.  What another thread has written there since stays behind
\* a shorter text, and is then read as nothing.
FillSystem(t) ==
    /\ At(t, "fill") /\ th[t].uuid # NoUuid
    /\ \/ /\ \E c \in {[whole |-> TRUE, buid |-> th[t].uuid, other |-> th[t].read.other]} \cup
                      (IF inode[th[t].fd].whole THEN {Torn} ELSE {}) :
               inode' = IF th[t].fd = sys THEN [inode EXCEPT ![sys] = c] ELSE Forget(th[t].fd, t)
          /\ UNCHANGED faults
       \/ /\ MayFail
          /\ faults' = faults \cup {"failure"}
          /\ UNCHANGED inode
    /\ ReturnBuid(t, th[t].uuid)
    /\ UNCHANGED <<sys, rec, saves, kills, acked, undone>>

-----------------------------------------------------------------------------
(* The commands of the clients, in the event loop.                          *)

\* send_system_buid.
ReadBuid ==
    /\ At(Main, "idle")
    /\ Goto(Main, "buid")
    /\ UNCHANGED <<sys, inode, rec, saves, kills, given, acked, undone, faults>>

\* What send_pair_record may answer: the file as it is, or ENOENT.
PairRecordReply(d) ==
    IF rec[d] = TornRecord THEN {TornRecord, NoRecord} ELSE {rec[d]}

\* config_set_device_record, of a well-formed record: the old one is removed ...
SavePairRecord(d, r) ==
    /\ At(Main, "idle") /\ saves < MaxSave
    /\ saves' = saves + 1
    /\ th' = [th EXCEPT ![Main].at = "open", ![Main].dev = d, ![Main].record = r]
    /\ rec' = [rec EXCEPT ![d] = NoRecord] \/ (MayFail /\ UNCHANGED rec)
    /\ UNCHANGED <<sys, inode, kills, given, acked, undone, faults>>

Saving(d) == th[Main].record # NoRecord /\ th[Main].dev = d
SaveDone == [th EXCEPT ![Main].at = "idle", ![Main].record = NoRecord]

\* An error ends the save; the client is told of it.
SaveFailed ==
    /\ MayFail
    /\ undone' = [undone EXCEPT ![th[Main].dev] = TRUE]
    /\ th' = SaveDone
    /\ UNCHANGED rec

\* ... a new file is created ...
OpenRecord ==
    /\ At(Main, "open") /\ th[Main].record # NoRecord
    /\ \/ /\ rec' = [rec EXCEPT ![th[Main].dev] = TornRecord]
          /\ undone' = [undone EXCEPT ![th[Main].dev] = FALSE]
          /\ Goto(Main, "fill")
       \/ SaveFailed
    /\ UNCHANGED <<sys, inode, saves, kills, given, acked, faults>>

\* Mutant: an error while the file is filled is not reported.
FillRecord_Unchecked ==
    /\ At(Main, "fill") /\ th[Main].record # NoRecord
    /\ \/ LET d == th[Main].dev
          IN  rec' = [rec EXCEPT ![d] = IF @ = TornRecord THEN th[Main].record ELSE @]
       \/ MayFail /\ UNCHANGED rec
    /\ Goto(Main, "answer")
    /\ UNCHANGED <<sys, inode, saves, kills, given, acked, undone, faults>>

\* ... and filled, if it has not been removed meanwhile.
FillRecord ==
    /\ At(Main, "fill") /\ th[Main].record # NoRecord
    /\ \/ /\ LET d == th[Main].dev
             IN  rec' = [rec EXCEPT ![d] = IF @ = TornRecord THEN th[Main].record ELSE @]
          /\ Goto(Main, "answer")
          /\ UNCHANGED undone
       \/ SaveFailed
    /\ UNCHANGED <<sys, inode, saves, kills, given, acked, faults>>

\* send_result: the client is told that its record is saved.
AnswerSave ==
    /\ At(Main, "answer")
    /\ acked' = [acked EXCEPT ![th[Main].dev] = th[Main].record]
    /\ th' = SaveDone
    /\ UNCHANGED <<sys, inode, rec, saves, kills, given, undone, faults>>

\* config_remove_device_record, if it succeeds.
Removed(d) ==
    /\ rec[d] # NoRecord
    /\ rec' = [rec EXCEPT ![d] = NoRecord]
    /\ undone' = [undone EXCEPT ![d] = TRUE]

\* DeletePairRecord.
DeletePairRecord(d) ==
    /\ At(Main, "idle") /\ Removed(d)
    /\ UNCHANGED <<sys, inode, th, saves, kills, given, acked, faults>>

-----------------------------------------------------------------------------
(* preflight_worker_handle_device_add, as far as it uses the files.         *)

\* A device is plugged in.
StartWorker(w, d) ==
    /\ At(w, "idle")
    /\ th' = [th EXCEPT ![w].at = "connect", ![w].dev = d]
    /\ UNCHANGED <<sys, inode, rec, saves, kills, given, acked, undone, faults>>

\* lockdownd_client_new and lockdownd_query_type end the thread if there is no
\* lockdownd or the device is in restore mode; then config_has_device_record.
Connect(w) ==
    /\ At(w, "connect")
    /\ Goto(w, "idle") \/ Goto(w, IF rec[th[w].dev] # NoRecord THEN "hostid" ELSE "rest")
    /\ UNCHANGED <<sys, inode, rec, saves, kills, given, acked, undone, faults>>

\* config_device_record_get_host_id: nothing if the file is gone or torn by now.
GetHostId(w) ==
    /\ At(w, "hostid")
    /\ LET r == rec[th[w].dev]
       IN  th' = [th EXCEPT ![w].at = "session", ![w].host = IF r \in Records THEN r ELSE NullHost]
    /\ UNCHANGED <<sys, inode, rec, saves, kills, given, acked, undone, faults>>

\* lockdownd_start_session: success, an SSL error, or another one (the only
\* outcome without a host id).
StartSession(w) ==
    /\ At(w, "session")
    /\ \E where \in IF th[w].host = NullHost THEN {"rest"} ELSE {"idle", "invalid", "rest"} :
         th' = [th EXCEPT ![w].at = where, ![w].host = NullHost]
    /\ UNCHANGED <<sys, inode, rec, saves, kills, given, acked, undone, faults>>

\* Mutant: the record is believed to be removed whatever remove() says.
RemoveInvalid_Retry(w) ==
    /\ At(w, "invalid")
    /\ Removed(th[w].dev) \/ (MayFail /\ UNCHANGED <<rec, undone>>)
    /\ Goto(w, "connect")
    /\ UNCHANGED <<sys, inode, saves, kills, given, acked, faults>>

\* "The stored pair record [...] is invalid": removed, and all over again.
RemoveInvalid(w) ==
    /\ At(w, "invalid")
    /\ \/ Removed(th[w].dev) /\ Goto(w, "connect")
       \/ /\ rec[th[w].dev] = NoRecord \/ MayFail
          /\ Goto(w, "rest") /\ UNCHANGED <<rec, undone>>
    /\ UNCHANGED <<sys, inode, saves, kills, given, acked, faults>>

\* With an error, or for an old device, the thread ends without the BUID;
\* otherwise it tells it to the device.  Where it pairs, a client of this
\* daemon, inside libimobiledevice, saves the record.
Rest(w) ==
    /\ At(w, "rest")
    /\ Goto(w, "idle") \/ Goto(w, "buid")
    /\ UNCHANGED <<sys, inode, rec, saves, kills, given, acked, undone, faults>>

\* Waiting for the user's trust, the device may ask for the BUID again
\* (np_callback; the worker waits for a callback before it ends).
NpCallback(w) ==
    /\ At(w, "wait")
    /\ Goto(w, "buid") \/ Goto(w, "idle")
    /\ UNCHANGED <<sys, inode, rec, saves, kills, given, acked, undone, faults>>

-----------------------------------------------------------------------------
\* The process is killed and started again.
Kill ==
    /\ kills < MaxKill
    /\ kills' = kills + 1
    /\ th' = [t \in Threads |-> Idle]
    /\ faults' = faults \cup (IF \E t \in Threads : Storing(t) THEN {"kill"} ELSE {})
    /\ inode' = [i \in Inodes |-> IF i = sys THEN inode[i] ELSE Torn]
    /\ undone' = [d \in Devices |-> undone[d] \/ Saving(d)]
    /\ UNCHANGED <<sys, rec, saves, given, acked>>

\* At first there is no SystemConfiguration, or one with other keys in it.
Init ==
    /\ sys \in {0, 1}
    /\ inode = [i \in Inodes |-> IF i = sys THEN [whole |-> TRUE, buid |-> NoUuid, other |-> TRUE]
                                 ELSE Torn]
    /\ rec = [d \in Devices |-> NoRecord]
    /\ th = [t \in Threads |-> Idle]
    /\ saves = 0 /\ kills = 0
    /\ given = {}
    /\ acked = [d \in Devices |-> NoRecord]
    /\ undone = [d \in Devices |-> FALSE]
    /\ faults = {}

GetSystemBuid(t) ==
    \/ GetValue(t) \/ Generate(t) \/ Update(t) \/ RemoveSystem(t) \/ OpenSystem(t) \/ FillSystem(t)

Preflight(w) ==
    Connect(w) \/ GetHostId(w) \/ StartSession(w) \/ RemoveInvalid(w) \/ Rest(w)

Next ==
    \/ \E t \in Threads : GetSystemBuid(t)
    \/ ReadBuid \/ OpenRecord \/ FillRecord \/ AnswerSave
    \/ \E d \in Devices : DeletePairRecord(d) \/ \E r \in Records : SavePairRecord(d, r)
    \/ \E w \in Workers : Preflight(w) \/ NpCallback(w) \/ \E d \in Devices : StartWorker(w, d)
    \/ Kill

Spec == Init /\ [][Next]_vars

\* The preflight threads run, and lockdownd answers.
FairSpec == Spec /\ \A w \in Workers : WF_vars(Preflight(w))

-----------------------------------------------------------------------------
TypeOK ==
    /\ sys \in {0} \cup Inodes /\ inode \in [Inodes -> Contents]
    /\ rec \in [Devices -> Records \cup {NoRecord, TornRecord}]
    /\ th \in [Threads -> [at : {"idle", "buid", "generate", "update", "remove", "open", "fill",
                                 "answer", "connect", "hostid", "session", "invalid", "rest", "wait"},
                           uuid : Uuids \cup {NoUuid}, read : Contents,
                           fd : {0} \cup Inodes, dev : Devices, record : Records \cup {NoRecord},
                           host : Records \cup {NullHost}]]
    /\ saves \in 0 .. MaxSave /\ kills \in 0 .. MaxKill
    /\ given \subseteq Uuids
    /\ acked \in [Devices -> Records \cup {NoRecord}] /\ undone \in [Devices -> BOOLEAN]
    /\ faults \subseteq {"overlap", "failure", "kill"}

\* All callers of config_get_system_buid, before and after any number of
\* restarts, get the same SystemBUID, unless two of them generated one at the
\* same time or one could not be stored.  A kill at any point does no harm.
BuidStable == Cardinality(given) > 1 => faults \cap {"overlap", "failure"} # {}

\* The other keys of SystemConfiguration.plist survive the first SystemBUID,
\* unless threads overlap, storing fails or the process is killed half-way:
\* internal_set_value removes the file before it writes it.
KeysKept ==
    ReadSystem.other => [](faults = {} /\ (\A t \in Threads : ~Storing(t)) => ReadSystem.other)

\* A client that was told its record is saved, and anyone else, reads that
\* record, until it is removed by a command or by a preflight thread that finds
\* it invalid, or a later save of the same device is cut short: there the code
\* loses it, because config_set_device_record removes the old file first.  A
\* kill or a failure at any other time does no harm, nor does one that comes
\* between the file and the answer make a client believe what is not stored.
AckedIsStored ==
    \A d \in Devices :
        acked[d] # NoRecord /\ ~undone[d] /\ ~Saving(d) => PairRecordReply(d) = {acked[d]}

\* Preflight does not try for ever: a record that is invalid and cannot be
\* removed does not make it start again.
RetryEnds ==
    \A w \in Workers : At(w, "connect") ~> th[w].at \in {"buid", "idle"}

=============================================================================
