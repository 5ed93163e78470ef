----------------------------- MODULE LinkQueue -----------------------------
(***************************************************************************)
(* What the devices of the fabric rely on in a CsmaNetDevice on a          *)
(* full-duplex channel: a drop-tail queue in front of a transmitter, and a *)
(* line that delivers packets in the order they were transmitted.          *)
(*                                                                         *)
(* The line holds the packet being transmitted and those that propagate.   *)
(* Time is left out, and with it how long the interframe gap lasts: a      *)
(* device whose queue is empty may be READY or still in GAP (or BUSY).     *)
(***************************************************************************)
EXTENDS Integers, Sequences

CONSTANTS
  MaxPackets,    (* capacity of a device's queue                            *)
  EcnThresh,     (* ecnThresh of the devices, 0 when marking is disabled    *)
  LineLength     (* bound: packets on the line at once                      *)

ASSUME LinkAssumption ==
  MaxPackets \in Nat \ {0} /\ EcnThresh \in Nat /\ LineLength \in Nat \ {0}

(* used: the device has transmitted a packet.                              *)
IdleLink == [line |-> <<>>, queue |-> <<>>, used |-> FALSE]

(* BUG: "m_nPackets > m_maxPackets" lets one packet too many in. *)
FullPlusOne(q) == Len(q.queue) > MaxPackets

(* Queue::Enqueue refuses a packet, which is dropped. *)
Full(q) == Len(q.queue) >= MaxPackets

(* Ipv4Header::SetEcn(ECN_CE): the two low bits of the ToS byte. *)
SetEcnCE(tos) == (tos \div 4) * 4 + 3

(* The mark SendFrom puts on a large packet when the queue has reached the *)
(* threshold; a threshold of 0 disables marking.                           *)
Marked(q, pkt) ==
  IF pkt.large /\ EcnThresh > 0 /\ Len(q.queue) >= EcnThresh
  THEN [pkt EXCEPT !.tos = SetEcnCE(@)] ELSE pkt

LineFree(q) == Len(q.line) < LineLength

(* A device is READY from the start, and after a packet has left it if the *)
(* gap is over; its queue is then empty, or the TransmitReadyEvent that    *)
(* made it READY would have taken a packet.                                *)
MayBeReady(q) == q.queue = <<>> /\ LineFree(q)
MustBeReady(q) == MayBeReady(q) /\ q.line = <<>> /\ ~q.used

(* SendFrom on a link that is not full: mark and enqueue; a READY device   *)
(* dequeues and transmits at once.                                         *)
SendFrom(q, pkt) ==
  (IF MustBeReady(q) THEN {} ELSE {[q EXCEPT !.queue = Append(@, Marked(q, pkt))]})
  \cup
  (IF MayBeReady(q) THEN {[q EXCEPT !.line = Append(@, Marked(q, pkt))]} ELSE {})

(* BUG: the last packet of the queue waits for another one.                *)
CanTransmitPair(q) == Len(q.queue) > 1 /\ LineFree(q)

(* TransmitReadyEvent with a packet in the queue: the gap is over.         *)
CanTransmit(q) == q.queue # <<>> /\ LineFree(q)
TransmitReady(q) ==
  [q EXCEPT !.line = Append(@, Head(q.queue)), !.queue = Tail(@)]

(* The oldest packet on the line is received at the other end. *)
Received(q) == [q EXCEPT !.line = Tail(@), !.used = TRUE]
=============================================================================
