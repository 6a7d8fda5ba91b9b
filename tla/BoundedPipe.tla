---------------------------- MODULE BoundedPipe ----------------------------
(***************************************************************************)
(* What a multiplexed connection of src/src/device.c promises in either    *)
(* direction: a pipe of bounded capacity.  Bytes are added by the sender   *)
(* alone and never beyond the capacity; each of them stays on its way      *)
(* until it arrives, and is held until it is taken.  Segments, windows,    *)
(* acknowledgements and the wrap-around of numbers do not show.            *)
(***************************************************************************)
EXTENDS Naturals

CONSTANT Capacity   \* bytes sent and not yet taken, at most

VARIABLES
    phase,          \* "new", then "open", then "closed"
    onWay,          \* bytes sent and not yet received
    held            \* bytes received and not yet taken

pipeVars == <<phase, onWay, held>>

PipeInit == phase = "new" /\ onWay = 0 /\ held = 0

Open ==
    /\ phase = "new" /\ phase' = "open"
    /\ onWay' = 0 /\ held' = 0

Send ==
    /\ phase = "open"
    /\ \E n \in 1 .. Capacity : onWay + held + n <= Capacity /\ onWay' = onWay + n
    /\ UNCHANGED <<phase, held>>

Arrive ==
    /\ phase = "open"
    /\ \E n \in 1 .. onWay : onWay' = onWay - n /\ held' = held + n
    /\ UNCHANGED phase

Take ==
    /\ phase = "open"
    /\ \E n \in 1 .. held : held' = held - n
    /\ UNCHANGED <<phase, onWay>>

\* Either end may close the pipe at any time; what is in it goes with it.
Close ==
    /\ phase # "closed" /\ phase' = "closed"
    /\ onWay' = 0 /\ held' = 0

PipeNext == Open \/ Send \/ Arrive \/ Take \/ Close

PipeSpec == PipeInit /\ [][PipeNext]_pipeVars

=============================================================================
