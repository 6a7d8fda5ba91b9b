---------------------------- MODULE MCMuxPackets ----------------------------
(* Transfers of 2 bytes, a buffer of 6: packets of one to six transfers,   *)
(* exact multiples included, some too long and some that go on after the    *)
(* transfer with which they are dropped (9 and more).                       *)
EXTENDS MuxPackets

MCPacket == [len : 1 .. 12, runt : {FALSE}] \cup [len : {1, 4}, runt : {TRUE}]
MCClaims == {0, 1, 2, 3, 4, 6, 7}

=============================================================================
