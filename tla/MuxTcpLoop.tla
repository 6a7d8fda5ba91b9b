----------------------------- MODULE MuxTcpLoop -----------------------------
(***************************************************************************)
(* A connection in an event loop that serves other descriptors too: other  *)
(* clients, other devices, the listening socket.  main_loop (src/src/      *)
(* main.c) handles whatever is ready, but looks at the ACK timers only     *)
(* after a ppoll() that found nothing ready at all.                        *)
(***************************************************************************)
EXTENDS MuxTcp

VARIABLE
    others   \* whether another descriptor is ready

loopVars == <<vars, others>>

\* Other clients and devices come to life and fall quiet as they like.
OthersChange == others' = ~others /\ UNCHANGED vars

\* The branch of main_loop for a ppoll() that returned 0.
IdlePoll == ~others /\ CheckTimeouts /\ UNCHANGED others

LoopInit == Init /\ others \in BOOLEAN

LoopNext ==
    \/ Prompt /\ UNCHANGED others
    \/ IdlePoll
    \/ OthersChange

\* As in MuxTcp; and a loop with nothing else to do gets to the timers.
LoopSpec == LoopInit /\ [][LoopNext]_loopVars /\ Fairness /\ WF_loopVars(IdlePoll)

-----------------------------------------------------------------------------
PeerBlocked == peer.state = "EST" /\ Outstanding >= peer.wnd
Unblocked == ~PeerBlocked \/ conn.state = "FREED"

\* A device that stopped sending because the window is used up hears of a new
\* window: the delayed ACK reopens it once the client has taken data, unless
\* the daemon has given the connection up (the RST may have failed to leave).
\* This needs the other descriptors to fall quiet in the end: as long as every
\* ppoll() finds one of them ready, the code sends no delayed ACK.
DeviceUnblocked == <>[](~others) => (PeerBlocked ~> Unblocked)

\* The same without that condition, which the code does not keep.
UnblockedWhateverOthersDo == PeerBlocked ~> Unblocked

=============================================================================
