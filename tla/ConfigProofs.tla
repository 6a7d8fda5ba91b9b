---------------------------- MODULE ConfigProofs ----------------------------
(***************************************************************************)
(* That a pair record a client was told is saved is in its file, that      *)
(* everyone is given the same SystemBUID, and that storing it loses no     *)
(* other key: for any number of devices, preflight threads, commands and   *)
(* restarts, whichever files fail.                                         *)
(***************************************************************************)
EXTENDS Config, FiniteSetTheorems, TLAPS

\* Most leaves need no arithmetic: they are left to Zenon, the others to SMT.
USE ZenonT(4), SMTT(30), ZenonT(40)

Places == {"idle", "buid", "generate", "update", "remove", "open", "fill", "answer", "connect",
           "hostid", "session", "invalid", "rest", "wait"}
ThRec == [at : Places, uuid : Uuids \cup {NoUuid}, read : Contents, fd : {0} \cup Inodes,
          dev : Devices, record : Records \cup {NoRecord}, host : Records \cup {NullHost}]

\* The part of the type invariant that is not a counter.
Types ==
    /\ sys \in {0} \cup Inodes /\ inode \in [Inodes -> Contents]
    /\ rec \in [Devices -> Records \cup {NoRecord, TornRecord}]
    /\ th \in [Threads -> ThRec]
    /\ given \subseteq Uuids
    /\ acked \in [Devices -> Records \cup {NoRecord}] /\ undone \in [Devices -> BOOLEAN]

\* A thread has a BUID of its own just while it stores it.
Stages ==
    \A t \in Threads :
        /\ th[t].uuid # NoUuid => th[t].at \in {"update", "remove", "open", "fill"}
        /\ th[t].at \in {"update", "remove"} => th[t].uuid # NoUuid

\* What is saved: only the event loop writes records, one at a time, and the
\* file it fills is the one it created unless that was removed.  An answered
\* record is in its file but for a removal, a save under way, or one cut short.
Saved ==
    /\ \A d \in Devices : acked[d] # NoRecord /\ ~undone[d] /\ ~Saving(d) => rec[d] = acked[d]
    /\ th[Main].at = "answer" => th[Main].record # NoRecord
    /\ th[Main].record # NoRecord =>
        /\ th[Main].at \in {"open", "fill", "answer"} /\ th[Main].uuid = NoUuid
        /\ th[Main].at = "fill" /\ ~undone[th[Main].dev] => rec[th[Main].dev] = TornRecord
        /\ th[Main].at = "answer" /\ ~undone[th[Main].dev] => rec[th[Main].dev] = th[Main].record

\* The SystemBUID, as long as no two threads generated one at the same time and
\* none failed to store it: at most one thread stores one, while the file holds
\* none and nobody was given one; and the file holds what was given.
GivenBuid ==
    faults \cap {"overlap", "failure"} = {} =>
        /\ \A s, t \in Threads : Storing(s) /\ Storing(t) => s = t
        /\ \A t \in Threads : Storing(t) => given = {} /\ ReadSystem.buid = NoUuid
        /\ \A t \in Threads : th[t].at = "fill" /\ th[t].uuid # NoUuid =>
            sys # 0 /\ th[t].fd = sys /\ ~inode[sys].whole
        /\ given = {} \/ \E u \in Uuids : given = {u} /\ ReadSystem.buid = u

ConfInv == Types /\ Stages /\ Saved /\ GivenBuid

-----------------------------------------------------------------------------
(* Files and threads.                                                       *)

\* A missing or torn file.
LEMMA TornType == Torn \in Contents /\ Torn.buid = NoUuid /\ ~Torn.whole
BY DEF Torn, Contents

\* What is read from SystemConfiguration.plist.
LEMMA ReadSystemType == ASSUME Types PROVE ReadSystem \in Contents
BY TornType DEF Types, ReadSystem

\* A thread that does nothing.
LEMMA IdleType ==
    /\ Idle \in ThRec /\ Idle.at = "idle" /\ Idle.uuid = NoUuid /\ Idle.record = NoRecord
BY ConfigAssumption, TornType DEF Idle, ThRec, Places

\* A file can always be created: there are more than the threads can hold open.
LEMMA FreeInodeType ==
    ASSUME Types, sys = 0
    PROVE  FreeInode \in Inodes
<1>0. ASSUME NEW i \in Inodes, \A t \in Threads : th[t].fd # i
      PROVE  FreeInode \in Inodes
  <2>1. i # sys
    BY DEF Inodes
  <2> QED
    BY <1>0, <2>1 DEF FreeInode
<1> SUFFICES ASSUME \A i \in Inodes : \E t \in Threads : th[t].fd = i PROVE FALSE
  BY <1>0
<1>1. IsFiniteSet(Threads)
  BY ConfigAssumption, FS_Singleton, FS_Union DEF Threads
<1>2. Cardinality(Threads) \in Nat
  BY <1>1, FS_CardinalityType
<1>3. IsFiniteSet(Inodes) /\ Cardinality(Inodes) = Cardinality(Threads) + 1
  BY <1>2, FS_Interval DEF Inodes
<1> DEFINE g == [i \in Inodes |-> CHOOSE t \in Threads : th[t].fd = i]
<1>4. \A i \in Inodes : g[i] \in Threads /\ th[g[i]].fd = i
  OBVIOUS
<1>5. g \in [Inodes -> Threads]
  BY <1>4
<1> HIDE DEF g
<1>6. \E i, j \in Inodes : i # j /\ g[i] = g[j]
  BY <1>1, <1>2, <1>3, <1>5, FS_PigeonHole
<1> QED
  BY <1>4, <1>6

-----------------------------------------------------------------------------
(* Steps that have nothing to do with the SystemBUID.                       *)

\* A thread moves that stores no BUID before or after.
LEMMA NotStoringStep ==
    ASSUME ConfInv, NEW t \in Threads, NEW r \in ThRec, th' = [th EXCEPT ![t] = r],
           th[t].uuid = NoUuid, r.uuid = NoUuid, th[t].at # "generate",
           r.at \notin {"generate", "update", "remove"}, UNCHANGED <<sys, inode, given, faults>>
    PROVE  th' \in [Threads -> ThRec] /\ Stages' /\ GivenBuid'
<1>1. th \in [Threads -> ThRec]
  BY DEF ConfInv, Types
<1>2. th' \in [Threads -> ThRec] /\ th'[t] = r /\ \A s \in Threads : s # t => th'[s] = th[s]
  BY <1>1
<1>3. Stages'
  BY <1>2 DEF ConfInv, Stages
<1>4. \A s \in Threads : Storing(s)' <=> Storing(s)
  BY <1>2 DEF Storing
<1>5. ReadSystem' = ReadSystem
  BY DEF ReadSystem
<1>6. GivenBuid'
  BY <1>2, <1>4, <1>5 DEF ConfInv, GivenBuid
<1> QED
  BY <1>2, <1>3, <1>6

\* config_remove_device_record: what is gone is marked as removed.
LEMMA RemovedKeeps ==
    ASSUME ConfInv, NEW d \in Devices, Removed(d), UNCHANGED acked, th'[Main] = th[Main]
    PROVE  /\ Saved'
           /\ rec' \in [Devices -> Records \cup {NoRecord, TornRecord}]
           /\ undone' \in [Devices -> BOOLEAN]
<1>1. /\ rec \in [Devices -> Records \cup {NoRecord, TornRecord}]
      /\ undone \in [Devices -> BOOLEAN] /\ Main \in Threads
  BY DEF ConfInv, Types, Threads
<1>2. /\ rec' \in [Devices -> Records \cup {NoRecord, TornRecord}] /\ undone'[d]
      /\ \A e \in Devices : e # d => rec'[e] = rec[e] /\ undone'[e] = undone[e]
  BY <1>1 DEF Removed
<1>3. undone' \in [Devices -> BOOLEAN]
  BY <1>1 DEF Removed
<1>4. th[Main].dev \in Devices
  BY <1>1 DEF ConfInv, Types, ThRec
<1>5. Saved'
  BY <1>2, <1>4 DEF ConfInv, Saved, Saving
<1> QED
  BY <1>2, <1>3, <1>5

\* A preflight thread moves and changes no file.
LEMMA WorkerMoves ==
    ASSUME ConfInv, NEW w \in Workers, NEW r \in ThRec, th' = [th EXCEPT ![w] = r],
           th[w].uuid = NoUuid, r.uuid = NoUuid, th[w].at # "generate",
           r.at \notin {"generate", "update", "remove"},
           UNCHANGED <<sys, inode, rec, given, acked, undone, faults>>
    PROVE  ConfInv'
<1>1. w \in Threads /\ Main \in Threads /\ w # Main
  BY ConfigAssumption DEF Threads
<1>2. th' \in [Threads -> ThRec] /\ Stages' /\ GivenBuid'
  BY <1>1, NotStoringStep
<1>3. th'[Main] = th[Main]
  BY <1>1 DEF ConfInv, Types
<1>4. Saved'
  BY <1>3 DEF ConfInv, Saved, Saving
<1>5. Types'
  BY <1>2 DEF ConfInv, Types
<1> QED
  BY <1>2, <1>4, <1>5 DEF ConfInv

\* Every step of preflight_worker_handle_device_add but those for the BUID.
LEMMA WorkerKeeps ==
    ASSUME ConfInv, NEW w \in Workers,
           \/ Connect(w) \/ GetHostId(w) \/ StartSession(w) \/ RemoveInvalid(w) \/ Rest(w)
           \/ NpCallback(w) \/ \E d \in Devices : StartWorker(w, d)
    PROVE  ConfInv'
<1>1. w \in Threads /\ Main \in Threads /\ w # Main /\ th \in [Threads -> ThRec]
  BY ConfigAssumption DEF Threads, ConfInv, Types
<1>2. th[w] \in ThRec
  BY <1>1
<1>3. th[w].at \in {"connect", "hostid", "session", "invalid", "rest", "wait", "idle"}
  BY DEF Connect, GetHostId, StartSession, RemoveInvalid, Rest, NpCallback, StartWorker, At
<1>4. th[w].uuid = NoUuid /\ th[w].at # "generate"
  BY <1>1, <1>3 DEF ConfInv, Stages
<1>5. ASSUME NEW where \in {"idle", "connect", "hostid", "session", "rest", "buid", "wait"}
      PROVE  LET r == [th[w] EXCEPT !.at = where]
             IN  /\ r \in ThRec /\ r.uuid = NoUuid /\ r.at = where
                 /\ r.at \notin {"generate", "update", "remove"}
  BY <1>2, <1>4 DEF ThRec, Places
<1>6. CASE Connect(w) \/ Rest(w) \/ NpCallback(w)
  BY <1>1, <1>4, <1>5, <1>6, WorkerMoves DEF Connect, Rest, NpCallback, Goto
<1>7. CASE GetHostId(w)
  <2> DEFINE h == IF rec[th[w].dev] \in Records THEN rec[th[w].dev] ELSE NullHost
             r == [th[w] EXCEPT !.at = "session", !.host = h]
  <2>1. th' = [th EXCEPT ![w] = r]
    BY <1>1, <1>7 DEF GetHostId
  <2>2. h \in Records \cup {NullHost}
    OBVIOUS
  <2> HIDE DEF h
  <2>3. r \in ThRec /\ r.uuid = NoUuid /\ r.at \notin {"generate", "update", "remove"}
    BY <1>2, <1>4, <2>2 DEF ThRec, Places
  <2> HIDE DEF r
  <2> QED
    BY <1>4, <1>7, <2>1, <2>3, WorkerMoves DEF GetHostId
<1>8. CASE StartSession(w)
  <2>1. PICK where \in {"rest", "idle", "invalid"} :
          th' = [th EXCEPT ![w].at = where, ![w].host = NullHost]
    BY <1>8 DEF StartSession
  <2> DEFINE r == [th[w] EXCEPT !.at = where, !.host = NullHost]
  <2>2. th' = [th EXCEPT ![w] = r]
    BY <1>1, <2>1
  <2>3. r \in ThRec /\ r.uuid = NoUuid /\ r.at \notin {"generate", "update", "remove"}
    BY <1>2, <1>4 DEF ThRec, Places
  <2> HIDE DEF r
  <2> QED
    BY <1>4, <1>8, <2>2, <2>3, WorkerMoves DEF StartSession
<1>9. ASSUME NEW d \in Devices, StartWorker(w, d)
      PROVE  ConfInv'
  <2> DEFINE r == [th[w] EXCEPT !.at = "connect", !.dev = d]
  <2>1. th' = [th EXCEPT ![w] = r]
    BY <1>1, <1>9 DEF StartWorker
  <2>2. r \in ThRec /\ r.uuid = NoUuid /\ r.at \notin {"generate", "update", "remove"}
    BY <1>2, <1>4 DEF ThRec, Places
  <2> HIDE DEF r
  <2> QED
    BY <1>4, <1>9, <2>1, <2>2, WorkerMoves DEF StartWorker
<1>10. CASE RemoveInvalid(w)
  <2>1. CASE Goto(w, "rest") /\ UNCHANGED <<rec, undone>>
    BY <1>1, <1>4, <1>5, <1>10, <2>1, WorkerMoves DEF RemoveInvalid, Goto
  <2>2. CASE Removed(th[w].dev) /\ Goto(w, "connect")
    <3>1. th[w].dev \in Devices /\ UNCHANGED acked
      BY <1>2, <1>10 DEF ThRec, RemoveInvalid
    <3>2. th' \in [Threads -> ThRec] /\ Stages' /\ GivenBuid'
      BY <1>1, <1>4, <1>5, <1>10, <2>2, NotStoringStep DEF RemoveInvalid, Goto
    <3>3. th'[Main] = th[Main]
      BY <1>1, <2>2 DEF Goto
    <3>4. /\ Saved' /\ rec' \in [Devices -> Records \cup {NoRecord, TornRecord}]
          /\ undone' \in [Devices -> BOOLEAN]
      BY <2>2, <3>1, <3>3, RemovedKeeps
    <3>5. Types'
      BY <1>10, <3>2, <3>4 DEF ConfInv, Types, RemoveInvalid
    <3> QED
      BY <3>2, <3>4, <3>5 DEF ConfInv
  <2> QED
    BY <1>10, <2>1, <2>2 DEF RemoveInvalid
<1> QED
  BY <1>6, <1>7, <1>8, <1>9, <1>10

-----------------------------------------------------------------------------
(* The commands.                                                            *)

\* config_set_device_record and the other commands, but those for the BUID.
LEMMA CommandKeeps ==
    ASSUME ConfInv,
           \/ ReadBuid \/ OpenRecord \/ FillRecord \/ AnswerSave
           \/ \E d \in Devices : DeletePairRecord(d) \/ \E x \in Records : SavePairRecord(d, x)
    PROVE  ConfInv'
<1> DEFINE RecType == [Devices -> Records \cup {NoRecord, TornRecord}]
           AckType == [Devices -> Records \cup {NoRecord}]
           m == th[Main]
<1>1. Main \in Threads /\ th \in [Threads -> ThRec] /\ m \in ThRec
  BY DEF Threads, ConfInv, Types
<1>2. rec \in RecType /\ acked \in AckType /\ undone \in [Devices -> BOOLEAN] /\ m.dev \in Devices
  BY <1>1 DEF ConfInv, Types, ThRec
<1>3. ASSUME NEW r \in ThRec, th' = [th EXCEPT ![Main] = r], m.uuid = NoUuid, r.uuid = NoUuid,
             m.at # "generate", r.at \notin {"generate", "update", "remove"},
             UNCHANGED <<sys, inode, given, faults>>, Saved',
             rec' \in RecType, acked' \in AckType, undone' \in [Devices -> BOOLEAN]
      PROVE  ConfInv'
  <2>1. th' \in [Threads -> ThRec] /\ Stages' /\ GivenBuid'
    BY <1>1, <1>3, NotStoringStep
  <2>2. Types'
    BY <1>3, <2>1 DEF ConfInv, Types
  <2> QED
    BY <1>3, <2>1, <2>2 DEF ConfInv
<1>4. CASE ReadBuid
  <2> DEFINE r == [m EXCEPT !.at = "buid"]
  <2>1. th' = [th EXCEPT ![Main] = r] /\ m.at = "idle"
    BY <1>1, <1>4 DEF ReadBuid, Goto, At
  <2>2. r \in ThRec /\ r.at = "buid" /\ r.uuid = m.uuid /\ r.record = m.record
    BY <1>1 DEF ThRec, Places
  <2>3. m.uuid = NoUuid /\ m.record = NoRecord
    BY <1>1, <2>1 DEF ConfInv, Stages, Saved
  <2> HIDE DEF r
  <2>4. th'[Main] = r
    BY <1>1, <2>1
  <2>5. Saved'
    BY <1>4, <2>2, <2>3, <2>4 DEF ReadBuid, ConfInv, Saved, Saving
  <2> QED
    BY <1>2, <1>3, <1>4, <2>1, <2>2, <2>3, <2>5 DEF ReadBuid
<1>5. ASSUME NEW d \in Devices, NEW x \in Records, SavePairRecord(d, x)
      PROVE  ConfInv'
  <2> DEFINE r == [m EXCEPT !.at = "open", !.dev = d, !.record = x]
  <2>1. th' = [th EXCEPT ![Main] = r] /\ m.at = "idle"
    BY <1>1, <1>5 DEF SavePairRecord, At
  <2>2. r \in ThRec /\ r.at = "open" /\ r.uuid = m.uuid /\ r.dev = d /\ r.record = x
    BY <1>1 DEF ThRec, Places
  <2>3. m.uuid = NoUuid /\ m.record = NoRecord
    BY <1>1, <2>1 DEF ConfInv, Stages, Saved
  <2> HIDE DEF r
  <2>4. th'[Main] = r /\ x # NoRecord
    BY <1>1, <2>1, ConfigAssumption
  <2>5. /\ rec' = [rec EXCEPT ![d] = NoRecord] \/ UNCHANGED rec
        /\ UNCHANGED <<sys, inode, given, acked, undone, faults>>
    BY <1>5 DEF SavePairRecord
  <2>6. rec' \in RecType /\ \A e \in Devices : e # d => rec'[e] = rec[e]
    BY <1>2, <2>5
  <2>7. Saved'
    BY <2>2, <2>3, <2>4, <2>5, <2>6 DEF ConfInv, Saved, Saving
  <2> QED
    BY <1>2, <1>3, <2>1, <2>2, <2>3, <2>5, <2>6, <2>7
<1>6. ASSUME m.record # NoRecord, SaveFailed, UNCHANGED <<sys, inode, given, acked, faults>>
      PROVE  ConfInv'
  <2> DEFINE r == [m EXCEPT !.at = "idle", !.record = NoRecord]
  <2>1. th' = [th EXCEPT ![Main] = r] /\ UNCHANGED rec /\ undone' = [undone EXCEPT ![m.dev] = TRUE]
    BY <1>1, <1>6 DEF SaveFailed, SaveDone
  <2>2. m.uuid = NoUuid /\ m.at \in {"open", "fill", "answer"}
    BY <1>6 DEF ConfInv, Saved
  <2>3. r \in ThRec /\ r.at = "idle" /\ r.uuid = NoUuid /\ r.record = NoRecord
    BY <1>1, <2>2 DEF ThRec, Places
  <2> HIDE DEF r
  <2>4. th'[Main] = r
    BY <1>1, <2>1
  <2>5. undone' \in [Devices -> BOOLEAN]
    BY <1>2, <2>1
  <2>6. undone'[m.dev] /\ \A e \in Devices : e # m.dev => undone'[e] = undone[e]
    BY <1>2, <2>1
  <2>7. Saved'
    BY <1>2, <1>6, <2>1, <2>3, <2>4, <2>6 DEF ConfInv, Saved, Saving
  <2> QED
    BY <1>2, <1>3, <1>6, <2>1, <2>2, <2>3, <2>5, <2>7
<1>7. CASE OpenRecord
  <2>1. /\ m.at = "open" /\ m.record # NoRecord /\ m.uuid = NoUuid
        /\ UNCHANGED <<sys, inode, given, acked, faults>>
    BY <1>7 DEF OpenRecord, At, ConfInv, Saved
  <2>2. CASE /\ rec' = [rec EXCEPT ![m.dev] = TornRecord]
             /\ undone' = [undone EXCEPT ![m.dev] = FALSE]
             /\ Goto(Main, "fill")
    <3> DEFINE r == [m EXCEPT !.at = "fill"]
    <3>1. th' = [th EXCEPT ![Main] = r]
      BY <1>1, <2>2 DEF Goto
    <3>2. r \in ThRec /\ r.at = "fill" /\ r.uuid = NoUuid /\ r.dev = m.dev /\ r.record = m.record
      BY <1>1, <2>1 DEF ThRec, Places
    <3> HIDE DEF r
    <3>3. th'[Main] = r
      BY <1>1, <3>1
    <3>4. rec' \in RecType /\ rec'[m.dev] = TornRecord
      BY <1>2, <2>2
    <3>5. undone' \in [Devices -> BOOLEAN]
      BY <1>2, <2>2
    <3>6. \A e \in Devices : e # m.dev => rec'[e] = rec[e] /\ undone'[e] = undone[e]
      BY <1>2, <2>2
    <3>7. Saved'
      BY <1>2, <2>1, <3>2, <3>3, <3>4, <3>6 DEF ConfInv, Saved, Saving
    <3> QED
      BY <1>2, <1>3, <2>1, <3>1, <3>2, <3>4, <3>5, <3>7
  <2> QED
    BY <1>6, <1>7, <2>1, <2>2 DEF OpenRecord
<1>8. CASE FillRecord
  <2>1. /\ m.at = "fill" /\ m.record # NoRecord /\ m.record \in Records /\ m.uuid = NoUuid
        /\ ~undone[m.dev] => rec[m.dev] = TornRecord
        /\ UNCHANGED <<sys, inode, given, acked, faults>>
    BY <1>1, <1>8 DEF FillRecord, At, ConfInv, Saved, ThRec
  <2>2. CASE /\ rec' = [rec EXCEPT ![m.dev] = IF @ = TornRecord THEN m.record ELSE @]
             /\ Goto(Main, "answer") /\ UNCHANGED undone
    <3> DEFINE r == [m EXCEPT !.at = "answer"]
    <3>1. th' = [th EXCEPT ![Main] = r]
      BY <1>1, <2>2 DEF Goto
    <3>2. r \in ThRec /\ r.at = "answer" /\ r.uuid = NoUuid /\ r.dev = m.dev /\ r.record = m.record
      BY <1>1, <2>1 DEF ThRec, Places
    <3> HIDE DEF r
    <3>3. th'[Main] = r
      BY <1>1, <3>1
    <3>4. rec' \in RecType
      BY <1>2, <2>1, <2>2
    <3>5. /\ \A e \in Devices : e # m.dev => rec'[e] = rec[e]
          /\ ~undone[m.dev] => rec'[m.dev] = m.record
      BY <1>2, <2>1, <2>2
    <3>6. Saved'
      BY <1>2, <2>1, <2>2, <3>2, <3>3, <3>5 DEF ConfInv, Saved, Saving
    <3> QED
      BY <1>2, <1>3, <2>1, <2>2, <3>1, <3>2, <3>4, <3>6
  <2> QED
    BY <1>6, <1>8, <2>1, <2>2 DEF FillRecord
<1>9. CASE AnswerSave
  <2> DEFINE r == [m EXCEPT !.at = "idle", !.record = NoRecord]
  <2>1. /\ m.at = "answer" /\ m.record # NoRecord /\ m.record \in Records /\ m.uuid = NoUuid
        /\ ~undone[m.dev] => rec[m.dev] = m.record
        /\ UNCHANGED <<sys, inode, rec, given, undone, faults>>
        /\ acked' = [acked EXCEPT ![m.dev] = m.record]
    BY <1>1, <1>9 DEF AnswerSave, At, ConfInv, Saved, ThRec
  <2>2. th' = [th EXCEPT ![Main] = r]
    BY <1>1, <1>9 DEF AnswerSave, SaveDone
  <2>3. r \in ThRec /\ r.at = "idle" /\ r.uuid = NoUuid /\ r.record = NoRecord
    BY <1>1, <2>1 DEF ThRec, Places
  <2> HIDE DEF r
  <2>4. th'[Main] = r
    BY <1>1, <2>2
  <2>5. acked' \in AckType /\ acked'[m.dev] = m.record
        /\ \A e \in Devices : e # m.dev => acked'[e] = acked[e]
    BY <1>2, <2>1
  <2>6. Saved'
    BY <1>2, <2>1, <2>3, <2>4, <2>5 DEF ConfInv, Saved, Saving
  <2> QED
    BY <1>2, <1>3, <2>1, <2>2, <2>3, <2>5, <2>6
<1>10. ASSUME NEW d \in Devices, DeletePairRecord(d)
      PROVE  ConfInv'
  <2>1. Removed(d) /\ UNCHANGED <<sys, inode, th, given, acked, faults>>
    BY <1>10 DEF DeletePairRecord
  <2>2. Saved' /\ rec' \in RecType /\ undone' \in [Devices -> BOOLEAN]
    BY <2>1, RemovedKeeps
  <2>3. Types' /\ Stages' /\ GivenBuid'
    BY <2>1, <2>2 DEF ConfInv, Types, Stages, GivenBuid, Storing, ReadSystem
  <2> QED
    BY <2>2, <2>3 DEF ConfInv
<1> QED
  BY <1>4, <1>5, <1>7, <1>8, <1>9, <1>10

-----------------------------------------------------------------------------
(* config_get_system_buid.                                                  *)

\* The records are not concerned: the event loop saves none meanwhile.
LEMMA BuidStep ==
    ASSUME ConfInv, NEW t \in Threads, NEW r \in ThRec, th' = [th EXCEPT ![t] = r],
           th[t].at \in {"buid", "generate", "update", "remove"} \/ th[t].uuid # NoUuid,
           r.record = th[t].record, r.at # "answer", UNCHANGED <<rec, acked, undone>>
    PROVE  /\ Saved' /\ th' \in [Threads -> ThRec] /\ th'[t] = r
           /\ \A s \in Threads : s # t => th'[s] = th[s]
<1>1. th \in [Threads -> ThRec] /\ Main \in Threads
  BY DEF ConfInv, Types, Threads
<1>2. th' \in [Threads -> ThRec] /\ th'[t] = r /\ \A s \in Threads : s # t => th'[s] = th[s]
  BY <1>1
<1>3. t = Main => th[Main].record = NoRecord
  BY DEF ConfInv, Saved
<1>4. Saved'
  <2>1. CASE t = Main
    BY <1>2, <1>3, <2>1 DEF ConfInv, Saved, Saving
  <2>2. CASE t # Main
    BY <1>1, <1>2, <2>2 DEF ConfInv, Saved, Saving
  <2> QED
    BY <2>1, <2>2
<1> QED
  BY <1>2, <1>4

\* What config_get_system_buid leaves of the thread that called it.
LEMMA ReturnBuidType ==
    ASSUME Types, NEW t \in Threads, NEW b, ReturnBuid(t, b)
    PROVE  \E r \in ThRec :
             /\ th' = [th EXCEPT ![t] = r] /\ r.uuid = NoUuid /\ r.record = th[t].record
             /\ r.at \in {"idle", "wait"}
<1> DEFINE where == IF t = Main THEN "idle" ELSE "wait"
           r == [th[t] EXCEPT !.at = where, !.uuid = NoUuid, !.read = Torn, !.fd = 0]
<1>1. th[t] \in ThRec /\ th \in [Threads -> ThRec]
  BY DEF Types
<1>2. th' = [th EXCEPT ![t] = r]
  BY <1>1 DEF ReturnBuid
<1>3. where \in {"idle", "wait"}
  OBVIOUS
<1> HIDE DEF where
<1>4. r \in ThRec /\ r.uuid = NoUuid /\ r.record = th[t].record /\ r.at = where
  BY <1>1, <1>3, TornType DEF ThRec, Places
<1> HIDE DEF r
<1> QED
  BY <1>2, <1>3, <1>4

\* config_get_value: who finds a BUID finds the one that was given before.
LEMMA GetValueKeeps ==
    ASSUME ConfInv, NEW t \in Threads, GetValue(t)
    PROVE  ConfInv'
<1>1. /\ th \in [Threads -> ThRec] /\ th[t] \in ThRec /\ th[t].at = "buid" /\ th[t].uuid = NoUuid
      /\ UNCHANGED <<sys, inode, rec, acked, undone>> /\ ReadSystem \in Contents
  BY ReadSystemType DEF ConfInv, Types, GetValue, At, Stages
<1>2. ReadSystem' = ReadSystem
  BY <1>1 DEF ReadSystem
<1>3. CASE ReadSystem.buid # NoUuid
  <2>1. /\ ReturnBuid(t, ReadSystem.buid) /\ UNCHANGED faults
        /\ given' = given \cup {ReadSystem.buid}
    BY <1>3 DEF GetValue, ReturnBuid
  <2>2. PICK r \in ThRec :
          /\ th' = [th EXCEPT ![t] = r] /\ r.uuid = NoUuid /\ r.record = th[t].record
          /\ r.at \in {"idle", "wait"}
    BY <2>1, ReturnBuidType DEF ConfInv
  <2>3. /\ Saved' /\ th' \in [Threads -> ThRec] /\ th'[t] = r
        /\ \A s \in Threads : s # t => th'[s] = th[s]
    BY <1>1, <2>2, BuidStep
  <2>4. ReadSystem.buid \in Uuids
    BY <1>1, <1>3 DEF Contents
  <2>5. Types'
    BY <1>1, <2>1, <2>3, <2>4 DEF ConfInv, Types
  <2>6. Stages'
    BY <2>2, <2>3 DEF ConfInv, Stages
  <2>7. \A s \in Threads : Storing(s)' <=> Storing(s)
    BY <1>1, <2>2, <2>3 DEF Storing
  <2>8. GivenBuid'
    <3> SUFFICES ASSUME faults \cap {"overlap", "failure"} = {} PROVE GivenBuid'
      BY <2>1 DEF GivenBuid
    <3>1. \A s \in Threads : ~Storing(s) /\ ~Storing(s)'
      BY <1>3, <2>7 DEF ConfInv, GivenBuid
    <3>2. given' = {ReadSystem.buid}
      BY <2>1 DEF ConfInv, GivenBuid
    <3> QED
      BY <1>2, <2>4, <3>1, <3>2 DEF GivenBuid, Storing
  <2> QED
    BY <2>3, <2>5, <2>6, <2>8 DEF ConfInv
<1>4. CASE ReadSystem.buid = NoUuid
  <2> DEFINE r == [th[t] EXCEPT !.at = "generate"]
  <2>1. /\ th' = [th EXCEPT ![t] = r] /\ UNCHANGED given
        /\ faults' = faults \cup (IF \E s \in Threads : Storing(s) THEN {"overlap"} ELSE {})
    BY <1>1, <1>4 DEF GetValue, Goto, ReturnBuid
  <2>2. r \in ThRec /\ r.uuid = NoUuid /\ r.record = th[t].record /\ r.at = "generate"
    BY <1>1 DEF ThRec, Places
  <2> HIDE DEF r
  <2>3. /\ Saved' /\ th' \in [Threads -> ThRec] /\ th'[t] = r
        /\ \A s \in Threads : s # t => th'[s] = th[s]
    BY <1>1, <2>1, <2>2, BuidStep
  <2>4. Types'
    BY <1>1, <2>1, <2>3 DEF ConfInv, Types
  <2>5. Stages'
    BY <2>2, <2>3 DEF ConfInv, Stages
  <2>6. GivenBuid'
    <3> SUFFICES ASSUME faults' \cap {"overlap", "failure"} = {} PROVE GivenBuid'
      BY DEF GivenBuid
    <3>1. faults \cap {"overlap", "failure"} = {} /\ \A s \in Threads : ~Storing(s)
      BY <2>1
    <3>2. given' = {}
      <4>1. NoUuid \notin Uuids
        BY ConfigAssumption
      <4> QED
        BY <1>4, <2>1, <3>1, <4>1 DEF ConfInv, GivenBuid
    <3>3. \A s \in Threads : Storing(s)' => s = t
      BY <2>3, <3>1 DEF Storing
    <3>4. \A s \in Threads : th'[s].uuid = NoUuid
      BY <2>2, <2>3, <3>1 DEF Storing
    <3> QED
      BY <1>2, <1>4, <3>2, <3>3, <3>4 DEF GivenBuid
  <2> QED
    BY <2>3, <2>4, <2>5, <2>6 DEF ConfInv
<1> QED
  BY <1>3, <1>4

\* A thread goes on storing its BUID, and the file still holds none.
LEMMA StoringStep ==
    ASSUME ConfInv, NEW t \in Threads, NEW r \in ThRec, th' = [th EXCEPT ![t] = r], Storing(t),
           r.record = th[t].record, r.uuid # NoUuid, r.at \in {"update", "remove", "open", "fill"},
           UNCHANGED <<rec, acked, undone, given, faults>>,
           sys' \in {0} \cup Inodes, inode' \in [Inodes -> Contents],
           ReadSystem.buid = NoUuid => ReadSystem'.buid = NoUuid,
           r.at = "fill" => sys' # 0 /\ r.fd = sys' /\ ~inode'[sys'].whole
    PROVE  ConfInv'
<1>1. /\ Saved' /\ th' \in [Threads -> ThRec] /\ th'[t] = r
      /\ \A s \in Threads : s # t => th'[s] = th[s]
  BY BuidStep DEF Storing
<1>2. Types'
  BY <1>1 DEF ConfInv, Types
<1>3. Stages'
  BY <1>1 DEF ConfInv, Stages
<1>4. GivenBuid'
  <2> SUFFICES ASSUME faults \cap {"overlap", "failure"} = {} PROVE GivenBuid'
    BY DEF GivenBuid
  <2>1. \A s \in Threads : s # t => ~Storing(s) /\ ~Storing(s)'
    BY <1>1 DEF ConfInv, GivenBuid, Storing
  <2>2. given' = {} /\ ReadSystem'.buid = NoUuid
    BY DEF ConfInv, GivenBuid
  <2>3. \A s \in Threads : th'[s].uuid # NoUuid => s = t
    BY <2>1 DEF Storing
  <2> QED
    BY <1>1, <2>1, <2>2, <2>3 DEF GivenBuid
<1> QED
  BY <1>1, <1>2, <1>3, <1>4 DEF ConfInv

\* config_generate_uuid, and the first half of internal_set_value.
LEMMA UpdateKeeps ==
    ASSUME ConfInv, NEW t \in Threads, Generate(t) \/ Update(t) \/ RemoveSystem(t)
    PROVE  ConfInv'
<1>1. /\ th \in [Threads -> ThRec] /\ th[t] \in ThRec /\ Storing(t)
      /\ sys \in {0} \cup Inodes /\ inode \in [Inodes -> Contents]
      /\ UNCHANGED <<rec, acked, undone, given, faults>>
  BY DEF ConfInv, Types, Generate, Update, RemoveSystem, At, Storing, Stages
<1>2. UNCHANGED <<sys, inode>> => ReadSystem' = ReadSystem
  BY DEF ReadSystem
<1>3. CASE Generate(t)
  <2>1. PICK u \in Uuids : th' = [th EXCEPT ![t].at = "update", ![t].uuid = u]
    BY <1>3 DEF Generate
  <2> DEFINE r == [th[t] EXCEPT !.at = "update", !.uuid = u]
  <2>2. th' = [th EXCEPT ![t] = r] /\ UNCHANGED <<sys, inode>>
    BY <1>1, <1>3, <2>1 DEF Generate
  <2>3. r \in ThRec /\ r.record = th[t].record /\ r.uuid # NoUuid /\ r.at = "update"
    BY <1>1, ConfigAssumption DEF ThRec, Places
  <2> HIDE DEF r
  <2> QED
    BY <1>1, <1>2, <2>2, <2>3, StoringStep
<1>4. CASE Update(t)
  <2> DEFINE where == IF ReadSystem.whole THEN "remove" ELSE "open"
             r == [th[t] EXCEPT !.at = where, !.read = ReadSystem]
  <2>1. th' = [th EXCEPT ![t] = r] /\ UNCHANGED <<sys, inode>>
    BY <1>1, <1>4 DEF Update, ReadForUpdate
  <2>2. ReadSystem \in Contents /\ where \in {"remove", "open"} /\ th[t].uuid # NoUuid
    BY <1>4, ReadSystemType DEF ConfInv, Stages, Update, At
  <2> HIDE DEF where
  <2>3. r \in ThRec /\ r.record = th[t].record /\ r.uuid # NoUuid /\ r.at = where
    BY <1>1, <2>2 DEF ThRec, Places
  <2> HIDE DEF r
  <2> QED
    BY <1>1, <1>2, <2>1, <2>2, <2>3, StoringStep
<1>5. CASE RemoveSystem(t)
  <2> DEFINE r == [th[t] EXCEPT !.at = "open"]
  <2>1. th' = [th EXCEPT ![t] = r] /\ th[t].uuid # NoUuid
    BY <1>1, <1>5 DEF RemoveSystem, Goto, At, ConfInv, Stages
  <2>2. r \in ThRec /\ r.record = th[t].record /\ r.uuid # NoUuid /\ r.at = "open"
    BY <1>1, <2>1 DEF ThRec, Places
  <2> HIDE DEF r
  <2>3. CASE UNCHANGED <<sys, inode>>
    BY <1>1, <1>2, <2>1, <2>2, <2>3, StoringStep
  <2>4. CASE sys' = 0 /\ inode' = Forget(sys, t)
    <3>1. inode' \in [Inodes -> Contents]
      BY <1>1, <2>4, TornType DEF Forget
    <3>2. ReadSystem'.buid = NoUuid
      BY <2>4, TornType DEF ReadSystem
    <3> QED
      BY <1>1, <2>1, <2>2, <2>4, <3>1, <3>2, StoringStep
  <2> QED
    BY <1>5, <2>3, <2>4 DEF RemoveSystem
<1> QED
  BY <1>3, <1>4, <1>5

\* config_get_system_buid returns although the BUID could not be stored.
LEMMA FailureStep ==
    ASSUME ConfInv, NEW t \in Threads, th[t].uuid # NoUuid, ReturnBuid(t, th[t].uuid),
           "failure" \in faults', UNCHANGED <<sys, inode, rec, acked, undone>>
    PROVE  ConfInv'
<1>1. PICK r \in ThRec :
        /\ th' = [th EXCEPT ![t] = r] /\ r.uuid = NoUuid /\ r.record = th[t].record
        /\ r.at \in {"idle", "wait"}
  BY ReturnBuidType DEF ConfInv
<1>2. /\ Saved' /\ th' \in [Threads -> ThRec] /\ th'[t] = r
      /\ \A s \in Threads : s # t => th'[s] = th[s]
  BY <1>1, BuidStep
<1>3. given' \subseteq Uuids
  BY DEF ReturnBuid, ConfInv, Types, ThRec
<1>4. Types' /\ Stages' /\ GivenBuid'
  BY <1>1, <1>2, <1>3 DEF ConfInv, Types, Stages, GivenBuid
<1> QED
  BY <1>2, <1>4 DEF ConfInv

\* plist_write_to_file opens the file.
LEMMA OpenSystemKeeps ==
    ASSUME ConfInv, NEW t \in Threads, OpenSystem(t)
    PROVE  ConfInv'
<1>1. /\ th \in [Threads -> ThRec] /\ th[t] \in ThRec /\ th[t].uuid # NoUuid /\ Storing(t)
      /\ sys \in {0} \cup Inodes /\ inode \in [Inodes -> Contents]
      /\ UNCHANGED <<rec, acked, undone>>
  BY DEF ConfInv, Types, OpenSystem, Storing
<1>2. CASE ReturnBuid(t, th[t].uuid) /\ faults' = faults \cup {"failure"} /\ UNCHANGED <<sys, inode>>
  BY <1>1, <1>2, FailureStep
<1>3. ASSUME NEW i, i = IF sys # 0 THEN sys ELSE FreeInode, sys' = i,
             inode' = [inode EXCEPT ![i] = Torn],
             th' = [th EXCEPT ![t].at = "fill", ![t].fd = i], UNCHANGED <<given, faults>>
      PROVE  ConfInv'
  <2> DEFINE r == [th[t] EXCEPT !.at = "fill", !.fd = i]
  <2>1. i \in Inodes /\ i # 0
    <3>1. i \in Inodes
      BY <1>1, <1>3, FreeInodeType DEF ConfInv
    <3> QED
      BY <3>1 DEF Inodes
  <2>2. th' = [th EXCEPT ![t] = r]
    BY <1>1, <1>3
  <2>3. r \in ThRec /\ r.record = th[t].record /\ r.uuid # NoUuid /\ r.at = "fill" /\ r.fd = i
    BY <1>1, <2>1 DEF ThRec, Places
  <2> HIDE DEF r
  <2>4. inode' \in [Inodes -> Contents] /\ inode'[i] = Torn
    BY <1>1, <1>3, <2>1, TornType
  <2>5. ReadSystem'.buid = NoUuid
    BY <1>3, <2>1, <2>4, TornType DEF ReadSystem
  <2>6. sys' # 0 /\ r.fd = sys' /\ ~inode'[sys'].whole /\ sys' \in {0} \cup Inodes
    BY <1>3, <2>1, <2>3, <2>4, TornType
  <2> QED
    BY <1>1, <1>3, <2>2, <2>3, <2>4, <2>5, <2>6, StoringStep
<1> QED
  BY <1>2, <1>3 DEF OpenSystem

\* ... and fills it: the file holds what the caller is given.
LEMMA FillSystemKeeps ==
    ASSUME ConfInv, NEW t \in Threads, FillSystem(t)
    PROVE  ConfInv'
<1>1. /\ th \in [Threads -> ThRec] /\ th[t] \in ThRec /\ th[t].uuid # NoUuid /\ Storing(t)
      /\ sys \in {0} \cup Inodes /\ inode \in [Inodes -> Contents] /\ th[t].at = "fill"
      /\ UNCHANGED <<sys, rec, acked, undone>> /\ ReturnBuid(t, th[t].uuid)
      /\ given' = given \cup {th[t].uuid}
  BY DEF ConfInv, Types, FillSystem, Storing, At, ReturnBuid
<1>2. CASE faults' = faults \cup {"failure"} /\ UNCHANGED inode
  BY <1>1, <1>2, FailureStep
<1>3. ASSUME NEW c, UNCHANGED faults,
             c \in {[whole |-> TRUE, buid |-> th[t].uuid, other |-> th[t].read.other]} \cup
                   (IF inode[th[t].fd].whole THEN {Torn} ELSE {}),
             inode' = IF th[t].fd = sys THEN [inode EXCEPT ![sys] = c] ELSE Forget(th[t].fd, t)
      PROVE  ConfInv'
  <2> DEFINE w == [whole |-> TRUE, buid |-> th[t].uuid, other |-> th[t].read.other]
  <2>1. w \in Contents /\ w.buid = th[t].uuid /\ th[t].uuid \in Uuids
    BY <1>1 DEF Contents, ThRec
  <2>2. c \in Contents /\ (~inode[th[t].fd].whole => c = w)
    BY <1>3, <2>1, TornType
  <2> HIDE DEF w
  <2>3. inode' \in [Inodes -> Contents]
    BY <1>1, <1>3, <2>2, TornType DEF Forget
  <2>4. PICK r \in ThRec :
          /\ th' = [th EXCEPT ![t] = r] /\ r.uuid = NoUuid /\ r.record = th[t].record
          /\ r.at \in {"idle", "wait"}
    BY <1>1, ReturnBuidType DEF ConfInv
  <2>5. /\ Saved' /\ th' \in [Threads -> ThRec] /\ th'[t] = r
        /\ \A s \in Threads : s # t => th'[s] = th[s]
    BY <1>1, <2>4, BuidStep
  <2>6. Types'
    BY <1>1, <2>1, <2>3, <2>5 DEF ConfInv, Types
  <2>7. Stages'
    BY <2>4, <2>5 DEF ConfInv, Stages
  <2>8. GivenBuid'
    <3> SUFFICES ASSUME faults \cap {"overlap", "failure"} = {} PROVE GivenBuid'
      BY <1>3 DEF GivenBuid
    <3>1. sys # 0 /\ th[t].fd = sys /\ ~inode[sys].whole /\ given = {}
      BY <1>1 DEF ConfInv, GivenBuid
    <3>2. inode'[sys] = w
      BY <1>1, <1>3, <2>2, <3>1
    <3>3. ReadSystem'.buid = th[t].uuid /\ given' = {th[t].uuid}
      BY <1>1, <2>1, <3>1, <3>2 DEF ReadSystem
    <3>4. \A s \in Threads : ~Storing(s)'
      BY <1>1, <2>4, <2>5 DEF ConfInv, GivenBuid, Storing
    <3> QED
      BY <2>1, <3>3, <3>4 DEF GivenBuid, Storing
  <2> QED
    BY <2>5, <2>6, <2>7, <2>8 DEF ConfInv
<1> QED
  BY <1>2, <1>3 DEF FillSystem

-----------------------------------------------------------------------------
\* A kill leaves the files as they are, and nothing half done in memory.
LEMMA KillKeeps ==
    ASSUME ConfInv, Kill
    PROVE  ConfInv'
<1>1. /\ th' = [t \in Threads |-> Idle] /\ UNCHANGED <<sys, rec, given, acked>>
      /\ undone' = [d \in Devices |-> undone[d] \/ Saving(d)]
      /\ inode' = [i \in Inodes |-> IF i = sys THEN inode[i] ELSE Torn]
      /\ faults \subseteq faults' /\ Main \in Threads
  BY DEF Kill, Threads
<1>2. Types'
  BY <1>1, TornType, IdleType DEF ConfInv, Types
<1>3. Stages' /\ Saved'
  BY <1>1, IdleType DEF ConfInv, Stages, Saved, Saving
<1>4. ReadSystem' = ReadSystem
  BY <1>1 DEF ConfInv, Types, ReadSystem
<1>5. \A t \in Threads : ~Storing(t)' /\ th'[t].uuid = NoUuid
  BY <1>1, IdleType DEF Storing
<1>6. GivenBuid'
  BY <1>1, <1>4, <1>5 DEF ConfInv, GivenBuid
<1> QED
  BY <1>2, <1>3, <1>6 DEF ConfInv

\* Every step.
LEMMA NextKeepsConfig ==
    ASSUME ConfInv, [Next]_vars
    PROVE  ConfInv'
<1>1. CASE UNCHANGED vars
  BY <1>1 DEF vars, ConfInv, Types, Stages, Saved, Saving, GivenBuid, Storing, ReadSystem
<1> QED
  BY <1>1, GetValueKeeps, UpdateKeeps, OpenSystemKeeps, FillSystemKeeps, CommandKeeps, WorkerKeeps,
     KillKeeps DEF Next, GetSystemBuid, Preflight

\* Nothing is saved, given or at work at first.
LEMMA InitConfig == Init => ConfInv
<1> SUFFICES ASSUME Init PROVE ConfInv
  OBVIOUS
<1>1. 1 \in Inodes
  <2>1. IsFiniteSet(Threads)
    BY ConfigAssumption, FS_Singleton, FS_Union DEF Threads
  <2>2. Cardinality(Threads) \in Nat
    BY <2>1, FS_CardinalityType
  <2> QED
    BY <2>2 DEF Inodes
<1> DEFINE c == [whole |-> TRUE, buid |-> NoUuid, other |-> TRUE]
<1>2. c \in Contents /\ c.buid = NoUuid
  BY DEF Contents
<1>3. Types
  BY <1>1, <1>2, TornType, IdleType DEF Init, Types
<1>4. Main \in Threads /\ \A t \in Threads : th[t] = Idle
  BY DEF Init, Threads
<1>5. Stages /\ Saved
  BY <1>4, IdleType DEF Init, Stages, Saved
<1>6. GivenBuid
  BY <1>4, IdleType DEF Init, GivenBuid, Storing
<1> QED
  BY <1>3, <1>5, <1>6 DEF ConfInv

-----------------------------------------------------------------------------
\* A client that was told its record is saved, and anyone else, reads that
\* record, whatever fails and whenever the process dies, until it is removed or
\* a later save of the same device is cut short, which is where the code loses it.
THEOREM AcknowledgedRecordIsStored == Spec => []AckedIsStored
<1>1. ConfInv => AckedIsStored
  BY ConfigAssumption DEF ConfInv, Types, Saved, AckedIsStored, PairRecordReply
<1>2. ConfInv /\ [Next]_vars => ConfInv'
  BY NextKeepsConfig
<1> QED
  BY <1>1, <1>2, InitConfig, PTL DEF Spec

\* Everyone is given the same SystemBUID, across restarts, unless two threads
\* generated one at the same time or one could not be stored.
THEOREM SystemBuidIsStable == Spec => []BuidStable
<1>1. ASSUME ConfInv PROVE BuidStable
  <2>1. \A u : Cardinality({u}) = 1
    BY FS_Singleton
  <2>2. Cardinality({}) = 0
    BY FS_EmptySet
  <2>3. faults \cap {"overlap", "failure"} = {} => given = {} \/ \E u \in Uuids : given = {u}
    BY <1>1 DEF ConfInv, GivenBuid
  <2> QED
    BY <2>1, <2>2, <2>3 DEF BuidStable
<1>2. ConfInv /\ [Next]_vars => ConfInv'
  BY NextKeepsConfig
<1> QED
  BY <1>1, <1>2, InitConfig, PTL DEF Spec

-----------------------------------------------------------------------------
(* The counters, and the other keys of SystemConfiguration.plist.           *)

Counters ==
    /\ saves \in 0 .. MaxSave /\ kills \in 0 .. MaxKill
    /\ faults \subseteq {"overlap", "failure", "kill"}

\* Commands and kills are bounded, and the faults are of three kinds.
LEMMA NextKeepsCounters ==
    ASSUME Counters, [Next]_vars
    PROVE  Counters'
<1>1. ASSUME NEW t \in Threads, GetSystemBuid(t) PROVE Counters'
  BY <1>1 DEF Counters, GetSystemBuid, GetValue, Generate, Update, RemoveSystem, OpenSystem, FillSystem
<1>2. ASSUME NEW w \in Workers,
             Preflight(w) \/ NpCallback(w) \/ \E d \in Devices : StartWorker(w, d)
      PROVE  Counters'
  BY <1>2 DEF Counters, Preflight, Connect, GetHostId, StartSession, RemoveInvalid, Rest, NpCallback,
              StartWorker
<1>3. ASSUME NEW d \in Devices, DeletePairRecord(d) \/ \E r \in Records : SavePairRecord(d, r)
      PROVE  Counters'
  BY <1>3, ConfigAssumption DEF Counters, DeletePairRecord, SavePairRecord
<1>4. CASE ReadBuid \/ OpenRecord \/ FillRecord \/ AnswerSave \/ UNCHANGED vars
  BY <1>4 DEF Counters, ReadBuid, OpenRecord, FillRecord, AnswerSave, vars
<1>5. CASE Kill
  BY <1>5, ConfigAssumption DEF Counters, Kill
<1> QED
  BY <1>1, <1>2, <1>3, <1>4, <1>5 DEF Next

\* Where the other keys are while nothing goes wrong: in the file, until the
\* thread that stores a BUID has read it, and from then on in that thread's
\* dictionary, until it has written the file again.
Keys ==
    faults = {} =>
        /\ (\A t \in Threads : ~Storing(t)) => ReadSystem.other
        /\ \A t \in Threads : th[t].at \in {"generate", "update"} => ReadSystem.other
        /\ \A t \in Threads : th[t].at \in {"remove", "open", "fill"} /\ th[t].uuid # NoUuid
                              => th[t].read.other

\* A step that has nothing to do with the SystemBUID.
LEMMA QuietKeys ==
    ASSUME Keys, UNCHANGED <<sys, inode, faults>>,
           \A t \in Threads :
              \/ th'[t] = th[t]
              \/ ~Storing(t) /\ th'[t].uuid = NoUuid /\ th'[t].at \notin {"generate", "update"}
    PROVE  Keys'
<1>1. ReadSystem' = ReadSystem
  BY DEF ReadSystem
<1>2. \A t \in Threads : Storing(t)' <=> Storing(t)
  BY DEF Storing
<1> QED
  BY <1>1, <1>2 DEF Keys

\* A thread that is at none of the stages of storing a BUID has none.
LEMMA NotStoring ==
    ASSUME ConfInv, NEW t \in Threads,
           th[t].at \notin {"generate", "update", "remove", "open", "fill"}
    PROVE  ~Storing(t) /\ th[t].uuid = NoUuid
BY DEF ConfInv, Stages, Storing

\* The preflight threads keep the keys.
LEMMA WorkerKeys ==
    ASSUME ConfInv, Keys, NEW w \in Workers,
           Preflight(w) \/ NpCallback(w) \/ \E d \in Devices : StartWorker(w, d)
    PROVE  Keys'
<1>1. w \in Threads /\ th \in [Threads -> ThRec]
  BY DEF ConfInv, Types, Threads
<1>2. UNCHANGED <<sys, inode, faults>>
  BY DEF Preflight, Connect, GetHostId, StartSession, RemoveInvalid, Rest, NpCallback, StartWorker
<1>3. th[w].at \in {"idle", "connect", "hostid", "session", "invalid", "rest", "wait"}
  BY DEF Preflight, Connect, GetHostId, StartSession, RemoveInvalid, Rest, NpCallback, StartWorker, At
<1>4. ~Storing(w) /\ th[w].uuid = NoUuid
  BY <1>1, <1>3, NotStoring
<1>5. /\ \A s \in Threads : s # w => th'[s] = th[s]
      /\ th'[w].uuid = th[w].uuid
      /\ th'[w].at \in {"idle", "connect", "hostid", "session", "invalid", "rest", "buid"}
  <2>1. CASE Connect(w) \/ RemoveInvalid(w) \/ Rest(w) \/ NpCallback(w)
    <3>1. PICK where \in {"idle", "connect", "hostid", "rest", "buid"} :
            th' = [th EXCEPT ![w].at = where]
      BY <2>1 DEF Connect, RemoveInvalid, Rest, NpCallback, Goto
    <3> QED
      BY <1>1, <3>1 DEF ThRec
  <2>2. CASE GetHostId(w)
    BY <1>1, <2>2 DEF GetHostId, ThRec
  <2>3. CASE StartSession(w)
    <3>1. PICK where \in {"idle", "invalid", "rest"} :
            th' = [th EXCEPT ![w].at = where, ![w].host = NullHost]
      BY <2>3 DEF StartSession
    <3> QED
      BY <1>1, <3>1 DEF ThRec
  <2>4. CASE \E d \in Devices : StartWorker(w, d)
    BY <1>1, <2>4 DEF StartWorker, ThRec
  <2> QED
    BY <2>1, <2>2, <2>3, <2>4 DEF Preflight
<1> QED
  BY <1>2, <1>4, <1>5, QuietKeys

\* The commands of the clients keep them.
LEMMA CommandKeys ==
    ASSUME ConfInv, Keys,
           \/ ReadBuid \/ OpenRecord \/ FillRecord \/ AnswerSave
           \/ \E d \in Devices : DeletePairRecord(d) \/ \E r \in Records : SavePairRecord(d, r)
    PROVE  Keys'
<1>1. Main \in Threads /\ th \in [Threads -> ThRec]
  BY DEF ConfInv, Types, Threads
<1>2. UNCHANGED <<sys, inode, faults>>
  BY DEF ReadBuid, OpenRecord, FillRecord, AnswerSave, DeletePairRecord, SavePairRecord
<1>3. CASE \E d \in Devices : DeletePairRecord(d)
  BY <1>2, <1>3, QuietKeys DEF DeletePairRecord
<1>4. CASE ReadBuid \/ \E d \in Devices, r \in Records : SavePairRecord(d, r)
  <2>1. ~Storing(Main) /\ th[Main].uuid = NoUuid
    BY <1>1, <1>4, NotStoring DEF ReadBuid, SavePairRecord, At
  <2>2. /\ \A s \in Threads : s # Main => th'[s] = th[s]
        /\ th'[Main].uuid = th[Main].uuid /\ th'[Main].at \in {"buid", "open"}
    <3>1. CASE ReadBuid
      BY <1>1, <3>1 DEF ReadBuid, Goto, ThRec
    <3>2. ASSUME NEW d \in Devices, NEW r \in Records, SavePairRecord(d, r)
          PROVE  /\ \A s \in Threads : s # Main => th'[s] = th[s]
                 /\ th'[Main].uuid = th[Main].uuid /\ th'[Main].at \in {"buid", "open"}
      <4>1. th' = [th EXCEPT ![Main].at = "open", ![Main].dev = d, ![Main].record = r]
        BY <3>2 DEF SavePairRecord
      <4> QED
        BY <1>1, <4>1 DEF ThRec
    <3> QED
      BY <1>4, <3>1, <3>2
  <2> QED
    BY <1>2, <2>1, <2>2, QuietKeys
<1>5. CASE OpenRecord \/ FillRecord \/ AnswerSave
  <2>1. ~Storing(Main) /\ th[Main].uuid = NoUuid
    BY <1>1, <1>5 DEF OpenRecord, FillRecord, AnswerSave, At, ConfInv, Saved, Storing
  <2>2. /\ \A s \in Threads : s # Main => th'[s] = th[s]
        /\ th'[Main].uuid = th[Main].uuid /\ th'[Main].at \in {"fill", "answer", "idle"}
    BY <1>1, <1>5 DEF OpenRecord, FillRecord, AnswerSave, SaveFailed, Goto, SaveDone, ThRec
  <2> QED
    BY <1>2, <2>1, <2>2, QuietKeys
<1> QED
  BY <1>3, <1>4, <1>5

\* config_get_system_buid keeps them: the thread that stores a BUID is the only
\* one, reads the file before it removes it, and fills the file it created.
LEMMA BuidKeys ==
    ASSUME ConfInv, Keys, NEW t \in Threads, GetSystemBuid(t)
    PROVE  Keys'
<1> SUFFICES ASSUME faults' = {} PROVE Keys'
  BY DEF Keys
<1>1. th \in [Threads -> ThRec] /\ inode \in [Inodes -> Contents] /\ sys \in {0} \cup Inodes
  BY DEF ConfInv, Types
<1>2. faults = {}
  BY DEF GetSystemBuid, GetValue, Generate, Update, RemoveSystem, OpenSystem, FillSystem
<1>3. \A s \in Threads : Storing(s) /\ Storing(t) => s = t
  BY <1>2 DEF ConfInv, GivenBuid
<1>4. \A s \in Threads : s # t => th'[s] = th[s]
  BY <1>1 DEF GetSystemBuid, GetValue, Generate, Update, RemoveSystem, OpenSystem, FillSystem,
              ReturnBuid, Goto
<1>5. \A s \in Threads : th[s].at \in {"generate", "update"} => Storing(s)
  BY DEF ConfInv, Stages, Storing
<1>6. CASE GetValue(t)
  <2>1. UNCHANGED <<sys, inode>>
    BY <1>6 DEF GetValue
  <2>2. ~Storing(t)
    BY <1>6, NotStoring DEF GetValue, At
  <2>3. CASE ReturnBuid(t, ReadSystem.buid)
    <3>1. th'[t].uuid = NoUuid /\ th'[t].at \in {"idle", "wait"}
      BY <1>1, <2>3 DEF ReturnBuid, ThRec
    <3> QED
      BY <1>2, <1>4, <2>1, <2>2, <3>1, QuietKeys
  <2>4. CASE Goto(t, "generate") /\ ~ReturnBuid(t, ReadSystem.buid)
    <3>1. faults' = faults \cup (IF \E s \in Threads : Storing(s) THEN {"overlap"} ELSE {})
      BY <1>6, <2>4 DEF GetValue
    <3>2. \A s \in Threads : ~Storing(s)
      BY <3>1
    <3>3. ReadSystem.other /\ ReadSystem' = ReadSystem
      BY <1>2, <2>1, <3>2 DEF Keys, ReadSystem
    <3>4. th'[t].at = "generate"
      BY <1>1, <2>4 DEF Goto, ThRec
    <3>5. \A s \in Threads : s # t => ~(th'[s].uuid # NoUuid)
      BY <1>4, <3>2 DEF Storing
    <3> QED
      BY <3>3, <3>4, <3>5 DEF Keys
  <2> QED
    BY <1>6, <2>3, <2>4 DEF GetValue
<1>7. CASE Generate(t) \/ Update(t)
  <2>1. UNCHANGED <<sys, inode>> /\ ReadSystem' = ReadSystem /\ Storing(t)
    BY <1>5, <1>7 DEF Generate, Update, At, ReadSystem
  <2>2. ReadSystem.other /\ \A s \in Threads : s # t => ~Storing(s)
    BY <1>2, <1>3, <1>7, <2>1 DEF Keys, Generate, Update, At
  <2>3. \/ th'[t].at = "update"
        \/ th'[t].at \in {"remove", "open"} /\ th'[t].read = ReadSystem
    BY <1>1, <1>7 DEF Generate, Update, ReadForUpdate, ThRec
  <2> QED
    BY <1>4, <2>1, <2>2, <2>3 DEF Keys, Storing
<1>8. CASE RemoveSystem(t) \/ (OpenSystem(t) /\ th'[t].at = "fill")
  <2>1. th[t].uuid # NoUuid /\ th[t].at \in {"remove", "open"}
    BY <1>8 DEF RemoveSystem, OpenSystem, At, ConfInv, Stages
  <2>2. th'[t].uuid = th[t].uuid /\ th'[t].read = th[t].read /\ th'[t].at \in {"open", "fill"}
    <3>1. CASE RemoveSystem(t)
      BY <1>1, <3>1 DEF RemoveSystem, Goto, ThRec
    <3>2. CASE OpenSystem(t) /\ th'[t].at = "fill"
      <4>1. ~ReturnBuid(t, th[t].uuid)
        <5>1. ReturnBuid(t, th[t].uuid) => th'[t].at \in {"idle", "wait"}
          BY <1>1 DEF ReturnBuid, ThRec
        <5> QED
          BY <3>2, <5>1
      <4>2. \E i : th' = [th EXCEPT ![t].at = "fill", ![t].fd = i]
        BY <3>2, <4>1 DEF OpenSystem
      <4> QED
        BY <1>1, <4>2 DEF ThRec
    <3> QED
      BY <1>8, <3>1, <3>2
  <2>3. th[t].read.other
    BY <1>2, <2>1 DEF Keys
  <2>4. \A s \in Threads : s # t => ~Storing(s)
    BY <1>3, <2>1 DEF Storing
  <2>5. Storing(t)' /\ \A s \in Threads : s # t => ~Storing(s)'
    BY <1>4, <2>1, <2>2, <2>4 DEF Storing
  <2> QED
    BY <1>4, <1>5, <2>2, <2>3, <2>4, <2>5 DEF Keys, Storing
<1>9. CASE OpenSystem(t) /\ th'[t].at # "fill"
  <2>1. ~\E i : th' = [th EXCEPT ![t].at = "fill", ![t].fd = i]
    BY <1>1, <1>9 DEF ThRec
  <2>2. faults' = faults \cup {"failure"}
    BY <1>9, <2>1 DEF OpenSystem
  <2> QED
    BY <2>2
<1>10. CASE FillSystem(t)
  <2>1. th[t].at = "fill" /\ th[t].uuid # NoUuid /\ th[t].read.other
    BY <1>2, <1>10 DEF FillSystem, At, Keys
  <2>2. sys \in Inodes /\ th[t].fd = sys /\ ~inode[sys].whole
    BY <1>1, <1>2, <2>1 DEF ConfInv, GivenBuid
  <2>3. faults' # faults \cup {"failure"}
    OBVIOUS
  <2> DEFINE c == [whole |-> TRUE, buid |-> th[t].uuid, other |-> th[t].read.other]
  <2>4. inode' = [inode EXCEPT ![sys] = c] /\ sys' = sys
    BY <1>10, <2>2, <2>3 DEF FillSystem
  <2>5. c.other
    BY <2>1
  <2> HIDE DEF c
  <2>6. ReadSystem'.other
    BY <1>1, <2>2, <2>4, <2>5 DEF ReadSystem, Inodes
  <2>7. th'[t].uuid = NoUuid /\ th'[t].at \in {"idle", "wait"}
    BY <1>1, <1>10 DEF FillSystem, ReturnBuid, ThRec
  <2>8. \A s \in Threads : s # t => ~Storing(s)
    BY <1>3, <2>1 DEF Storing
  <2> QED
    BY <1>4, <2>6, <2>7, <2>8 DEF Keys, Storing
<1> QED
  BY <1>6, <1>7, <1>8, <1>9, <1>10 DEF GetSystemBuid

\* A kill does so too, if no thread was storing a BUID.
LEMMA KillKeys ==
    ASSUME ConfInv, Keys, Kill
    PROVE  Keys'
<1>1. th' = [t \in Threads |-> Idle] /\ sys' = sys
      /\ inode' = [i \in Inodes |-> IF i = sys THEN inode[i] ELSE Torn]
  BY DEF Kill
<1>2. ReadSystem' = ReadSystem
  BY <1>1 DEF ConfInv, Types, ReadSystem
<1>3. faults' = {} => faults = {} /\ \A t \in Threads : ~Storing(t)
  BY DEF Kill
<1> QED
  BY <1>1, <1>2, <1>3, IdleType DEF Keys

\* Every step keeps the other keys, unless something goes wrong.
LEMMA NextKeepsKeys ==
    ASSUME ConfInv, Keys, [Next]_vars
    PROVE  Keys'
<1>1. CASE UNCHANGED vars
  BY <1>1, QuietKeys DEF vars
<1> QED
  BY <1>1, WorkerKeys, CommandKeys, BuidKeys, KillKeys DEF Next

\* The types hold, with the bounds on commands and kills.
THEOREM ConfigTypes == Spec => []TypeOK
<1>1. ConfInv /\ Counters => TypeOK
  BY DEF ConfInv, Types, Counters, TypeOK, ThRec, Places
<1>2. Init => Counters
  BY ConfigAssumption DEF Init, Counters
<1>3. Counters /\ [Next]_vars => Counters'
  BY NextKeepsCounters
<1>4. ConfInv /\ [Next]_vars => ConfInv'
  BY NextKeepsConfig
<1> QED
  BY <1>1, <1>2, <1>3, <1>4, InitConfig, PTL DEF Spec

\* What SystemConfiguration.plist held besides the SystemBUID is there whenever
\* no thread stores one, unless threads overlapped, storing failed or the
\* process was killed half-way.
THEOREM OtherKeysSurvive == Spec => KeysKept
<1> DEFINE Kept == faults = {} /\ (\A t \in Threads : ~Storing(t)) => ReadSystem.other
<1>1. Init /\ ReadSystem.other => Keys
  <2> SUFFICES ASSUME Init, ReadSystem.other PROVE Keys
    OBVIOUS
  <2>1. \A t \in Threads : th[t].at = "idle"
    BY IdleType DEF Init
  <2> QED
    BY <2>1 DEF Keys
<1>2. Keys => Kept
  BY DEF Keys
<1>3. ConfInv /\ Keys /\ [Next]_vars => Keys'
  BY NextKeepsKeys
<1>4. ConfInv /\ [Next]_vars => ConfInv'
  BY NextKeepsConfig
<1> HIDE DEF Kept
<1>5. Spec => (ReadSystem.other => []Kept)
  BY <1>1, <1>2, <1>3, <1>4, InitConfig, PTL DEF Spec
<1> QED
  BY <1>5 DEF KeysKept, Kept

=============================================================================
