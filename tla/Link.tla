-------------------------------- MODULE Link --------------------------------
(***************************************************************************)
(* What one direction of a link promises, as a specification of its own:   *)
(* the operators of LinkQueue, which the switches of the fabric use, driven *)
(* by a sender.  CsmaLink is the device that implements it.                *)
(***************************************************************************)
EXTENDS LinkQueue

CONSTANTS
  TosValues,     (* ToS bytes of the packets handed to the device           *)
  MaxSent        (* bound: packets handed to the device                     *)

VARIABLES
  link,          (* line, queue and used of the device                      *)
  sent,          (* number of packets handed to the device                  *)
  delivered,     (* packets received at the other end, in order             *)
  dropped        (* numbers of the packets the queue refused                *)

linkVars == <<link, sent, delivered, dropped>>

Init ==
  /\ link = IdleLink
  /\ sent = 0
  /\ delivered = <<>>
  /\ dropped = {}

Send ==
  /\ sent < MaxSent
  /\ \E large \in BOOLEAN, tos \in TosValues :
       LET pkt == [id |-> sent + 1, large |-> large, tos |-> tos] IN
       IF Full(link)
       THEN dropped' = dropped \cup {pkt.id} /\ UNCHANGED link
       ELSE link' \in SendFrom(link, pkt) /\ UNCHANGED dropped
  /\ sent' = sent + 1
  /\ UNCHANGED delivered

Transmit ==
  /\ CanTransmit(link)
  /\ link' = TransmitReady(link)
  /\ UNCHANGED <<sent, delivered, dropped>>

Receive ==
  /\ link.line # <<>>
  /\ link' = Received(link)
  /\ delivered' = Append(delivered, Head(link.line))
  /\ UNCHANGED <<sent, dropped>>

Next == Send \/ Transmit \/ Receive

Spec == Init /\ [][Next]_linkVars /\ WF_linkVars(Transmit \/ Receive)
=============================================================================
