----------------------------- MODULE MuxPackets -----------------------------
(***************************************************************************)
(* Reassembly of the packets of one device: device_data_input              *)
(* (src/src/device.c), fed by the bulk-in transfers of rx_callback         *)
(* (src/src/usb.c).                                                        *)
(*                                                                         *)
(* A transfer carries at most UsbMru bytes, so a longer packet arrives as  *)
(* full transfers and a rest, and one whose length is a multiple of UsbMru *)
(* ends without a short transfer; the device may add an empty one.  Bytes  *)
(* are not modelled, only which bytes of which packet a buffer holds and   *)
(* what the length field of its first header says.                         *)
(***************************************************************************)
EXTENDS Integers, Sequences

CONSTANTS
    UsbMru,      \* USB_MRU, size of a receive transfer (16384)
    DevMru,      \* DEV_MRU, size of dev->pktbuf (65536)
    Packet,      \* the packets the device may send: records [len, runt]
    Claims,      \* values payload bytes may have where a header has its length
    None,        \* no packet
    Garbled,     \* what a handler gets that is not a packet of the device
    MaxGot       \* bound: packets handed on

\* runt: the packet is too short for its protocol's header, or of no known
\* protocol.
ASSUME PacketsAssumption ==
    /\ UsbMru \in Nat \ {0}
    /\ DevMru \in Nat \ {0}
    /\ \E k \in 1 .. DevMru : DevMru = k * UsbMru
    /\ Packet \subseteq [len : Nat \ {0}, runt : BOOLEAN]
    /\ Claims \subseteq Nat
    /\ None \notin Packet /\ Garbled \notin Packet
    /\ MaxGot \in Nat

VARIABLES
    cur,      \* the packet the device is sending, or None
    off,      \* how many of its bytes it has sent
    pktbuf,   \* dev->pktbuf up to pktlen
    pktlen,   \* dev->pktlen
    got,      \* the packets that reached a protocol handler
    astray    \* whether the rest of a dropped packet came in, and no short transfer since (history)

vars == <<cur, off, pktbuf, pktlen, got, astray>>

Acceptable == {p \in Packet : p.len <= DevMru /\ ~p.runt}

\* Packets that are not over when they are dropped, and those whose last
\* transfer is a short one.
Derailing == {p \in Packet : p.len > DevMru + UsbMru}
EndsShort == {p \in Packet : \A k \in 0 .. p.len : p.len # k * UsbMru}

\* The bytes from .. from + len - 1 of pkt, whose first header claims that
\* the packet has claim bytes; whole unless bytes of other places got in.
Bytes == [pkt : Packet, from : Nat, len : Nat, claim : Nat, whole : BOOLEAN]

\* memcpy(dev->pktbuf + dev->pktlen, buffer, length).
Join(b, c) ==
    [b EXCEPT !.len = @ + c.len,
              !.whole = @ /\ c.whole /\ c.pkt = b.pkt /\ c.from = b.from + b.len]

\* The bytes of one packet, from its header to its end.
Genuine(b) == b.whole /\ b.from = 0 /\ b.len = b.pkt.len

\* The end of device_data_input, from the check of the header's length on.
\* Payload that is taken for a header may name any protocol, or none.
Dispatch(b) ==
    \/ /\ b.claim # b.len \/ b.pkt.runt \/ ~Genuine(b)
       /\ UNCHANGED got
    \/ /\ b.claim = b.len /\ Genuine(b) /\ ~b.pkt.runt
       /\ got' = Append(got, b.pkt)
    \/ /\ b.claim = b.len /\ ~Genuine(b)
       /\ got' = Append(got, Garbled)

\* Mutant: only a short transfer ends a split packet.
Complete_ShortOnly(c) == c.len < UsbMru

\* Mutant: the length field is taken from the transfer that just arrived.
Complete_OwnHeader(c) == c.len < UsbMru \/ c.claim = c.len + pktlen

\* The packet in pktbuf is complete with the transfer c.
Complete(c) == c.len < UsbMru \/ pktbuf.claim = c.len + pktlen

\* device_data_input(usbdev, buffer, length) with the transfer c.
IgnoreTransfer(c) ==
    /\ c.len = 0 \/ c.len > UsbMru \/ c.len > DevMru
    /\ UNCHANGED <<pktbuf, pktlen, got>>

\* Mutant: the part of the packet collected so far is kept.
DropSplit_Keep(c) ==
    /\ pktlen > 0 /\ c.len + pktlen > DevMru
    /\ UNCHANGED <<pktbuf, pktlen, got>>

DropSplit(c) ==
    /\ pktlen > 0 /\ c.len + pktlen > DevMru
    /\ pktlen' = 0
    /\ UNCHANGED <<pktbuf, got>>

GatherSplit(c) ==
    /\ pktlen > 0 /\ c.len + pktlen <= DevMru
    /\ pktbuf' = Join(pktbuf, c)
    /\ \/ /\ Complete(c)
          /\ pktlen' = 0
          /\ Dispatch(Join(pktbuf, c))
       \/ /\ ~Complete(c)
          /\ pktlen' = pktlen + c.len
          /\ UNCHANGED got

\* Mutant: the length the header promises is taken for the length received.
StartSplit_Claimed(c) ==
    /\ pktlen = 0 /\ c.len = UsbMru /\ c.len < c.claim
    /\ pktbuf' = c
    /\ pktlen' = c.claim
    /\ UNCHANGED got

StartSplit(c) ==
    /\ pktlen = 0 /\ c.len = UsbMru /\ c.len < c.claim
    /\ pktbuf' = c
    /\ pktlen' = c.len
    /\ UNCHANGED got

WholePacket(c) ==
    /\ pktlen = 0 /\ ~(c.len = UsbMru /\ c.len < c.claim)
    /\ Dispatch(c)
    /\ UNCHANGED <<pktbuf, pktlen>>

DeviceDataInput(c) ==
    \/ IgnoreTransfer(c)
    \/ /\ c.len \in 1 .. UsbMru /\ c.len <= DevMru
       /\ DropSplit(c) \/ GatherSplit(c) \/ StartSplit(c) \/ WholePacket(c)

-----------------------------------------------------------------------------
(* The device and the bulk-in pipe, which delivers in order.                *)

Begin ==
    /\ cur = None /\ Len(got) < MaxGot
    /\ cur' \in Packet
    /\ off' = 0
    /\ UNCHANGED <<pktbuf, pktlen, got, astray>>

Transfer ==
    /\ cur \in Packet
    /\ LET n == IF cur.len - off < UsbMru THEN cur.len - off ELSE UsbMru
       IN  /\ \E claim \in Claims :
                DeviceDataInput([pkt |-> cur, from |-> off, len |-> n, whole |-> TRUE,
                                 claim |-> IF off = 0 THEN cur.len ELSE claim])
           /\ \/ /\ off + n < cur.len
                 /\ off' = off + n /\ cur' = cur
              \/ /\ off + n = cur.len
                 /\ off' = 0 /\ cur' = None
           /\ astray' = (n = UsbMru /\ (astray \/ off + n \in DevMru + 1 .. cur.len - 1))

\* The empty transfer that may follow a full one at the end of a packet.
EmptyTransfer ==
    /\ cur = None
    /\ \E p \in Packet, claim \in Claims :
         DeviceDataInput([pkt |-> p, from |-> 0, len |-> 0, whole |-> TRUE, claim |-> claim])
    /\ UNCHANGED <<cur, off, astray>>

Init ==
    /\ cur = None /\ off = 0
    /\ pktbuf \in {[pkt |-> p, from |-> 0, len |-> 0, claim |-> 0, whole |-> TRUE] : p \in Packet}
    /\ pktlen = 0
    /\ got = <<>>
    /\ astray = FALSE

Next == Begin \/ Transfer \/ EmptyTransfer

Spec == Init /\ [][Next]_vars

-----------------------------------------------------------------------------
\* Types: what reaches a handler is a packet of the device, or garbled.
TypeOK ==
    /\ cur \in Packet \cup {None}
    /\ off \in Nat
    /\ pktbuf \in Bytes
    /\ pktlen \in Nat
    /\ got \in Seq(Packet \cup {Garbled})
    /\ astray \in BOOLEAN

\* Between two packets device_data_input holds nothing back, also after a
\* packet it had to drop or whose length is a multiple of USB_MRU: what it
\* takes for the first transfer of a packet is one.  Only the rest of a packet
\* that was dropped before its end makes it lose step, and the first short
\* transfer, of whatever packet, brings it back.
InSync ==
    ~astray =>
        /\ cur = None => pktlen = 0
        /\ cur # None => pktlen = off
        /\ pktlen > 0 => /\ pktbuf.pkt = cur /\ pktbuf.from = 0 /\ pktbuf.len = pktlen
                         /\ pktbuf.claim = cur.len /\ pktbuf.whole

\* dev->pktlen never exceeds the size of dev->pktbuf, and is always a whole
\* number of full transfers, in step with the device or not.
BufferBound ==
    /\ pktlen <= DevMru
    /\ \E k \in 0 .. DevMru : pktlen = k * UsbMru
    /\ cur # None => off < cur.len

\* device_data_input turns transfers back into the packets the device sent:
\* whole, once and in order, losing only those too long or too short.  A packet
\* that exceeds the buffer by more than a transfer may garble what follows, up
\* to the end of the first packet that ends in a short transfer.
Channel == INSTANCE PacketChannel WITH sending <- cur
Reassembles == Channel!ChanSpec

=============================================================================
