---------------------------- MODULE PacketChannel ----------------------------
(***************************************************************************)
(* What packet reassembly promises to the protocol handlers of             *)
(* src/src/device.c: the packets of a device arrive whole, once, in the    *)
(* order they were sent.  A packet the daemon cannot hold, or cannot       *)
(* parse, is left out and takes no other packet with it.  Only one that    *)
(* derails the channel does: from there on anything may be handed on or    *)
(* lost, until a packet that resynchronises the channel has passed.        *)
(***************************************************************************)
EXTENDS Sequences

CONSTANTS
    Packet,      \* the packets a device may send
    Acceptable,  \* those that fit the buffer and their protocol's header
    Derailing,   \* those whose end may be taken for another packet
    EndsShort,   \* those whose end is recognised in any case
    None,        \* not a packet
    Garbled      \* what is handed on and is not a packet of the device

VARIABLES
    sending,     \* the packet on its way, or None
    got,         \* the packets handed to the protocol handlers, in order
    astray       \* whether the channel is derailed

chanVars == <<sending, got, astray>>

ChanInit == sending = None /\ got = <<>> /\ astray = FALSE

Send ==
    /\ sending = None
    /\ sending' \in Packet
    /\ UNCHANGED <<got, astray>>

Deliver ==
    /\ ~astray /\ sending \in Acceptable
    /\ got' = Append(got, sending)
    /\ sending' = None
    /\ UNCHANGED astray

Discard ==
    /\ ~astray /\ sending \in Packet \ Acceptable
    /\ sending' = None
    /\ UNCHANGED <<got, astray>>

Derail ==
    /\ sending \in Derailing
    /\ astray' = TRUE
    /\ UNCHANGED <<sending, got>>

Misread ==
    /\ astray /\ sending \in Packet
    /\ got' \in {got} \cup {Append(got, g) : g \in Packet \cup {Garbled}}
    /\ \/ UNCHANGED <<sending, astray>>
       \/ sending' = None /\ astray' = (sending \notin EndsShort)

ChanNext == Send \/ Deliver \/ Discard \/ Derail \/ Misread

ChanSpec == ChanInit /\ [][ChanNext]_chanVars

=============================================================================
