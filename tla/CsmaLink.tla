------------------------------ MODULE CsmaLink ------------------------------
(***************************************************************************)
(* One direction of a full-duplex CSMA link: a CsmaNetDevice with its      *)
(* drop-tail queue, its half of the CsmaChannel, and the packets that      *)
(* propagate to the device at the other end.  The two directions share     *)
(* nothing (GetState and its companions index by device in full duplex).   *)
(*                                                                         *)
(* The events the simulator holds are TransmitCompleteEvent of a BUSY      *)
(* device, TransmitReadyEvent of a device in GAP, and one Receive for      *)
(* every packet that propagates, all delayed by the same m_delay.          *)
(***************************************************************************)
EXTENDS Integers, Sequences

CONSTANTS
  MaxPackets,    (* capacity of the queue                                   *)
  EcnThresh,     (* ecnThresh of the device                                 *)
  LineLength,    (* bound: packets on the line at once                      *)
  TosValues,     (* ToS bytes of the packets handed to the device           *)
  MaxSent        (* bound: packets handed to the device                     *)

ASSUME CsmaAssumption ==
  /\ MaxPackets \in Nat \ {0} /\ EcnThresh \in Nat /\ LineLength \in Nat \ {0}
  /\ TosValues \subseteq 0 .. 255 /\ MaxSent \in Nat

VARIABLES
  m_txMachineState,  (* "READY", "BUSY" or "GAP"                            *)
  m_currentPkt,      (* the packet of the transmitter, <<>> when 0          *)
  m_queue,           (* the packets that wait                               *)
  m_state,           (* WireState of this direction of the channel          *)
  propagating,       (* packets whose Receive event is scheduled, in order  *)
  sent,              (* number of packets handed to SendFrom                *)
  delivered,         (* history: packets received, in order                 *)
  dropped            (* history: numbers of the packets the queue refused   *)

history == <<sent, delivered, dropped>>
vars == <<m_txMachineState, m_currentPkt, m_queue, m_state, propagating,
          sent, delivered, dropped>>

Packet == [id : Nat, large : BOOLEAN, tos : 0 .. 255]

TypeOK ==
  /\ m_txMachineState \in {"READY", "BUSY", "GAP"}
  /\ m_currentPkt \in Seq(Packet) /\ Len(m_currentPkt) <= 1
  /\ m_queue \in Seq(Packet) /\ Len(m_queue) <= MaxPackets
  /\ m_state \in {"IDLE", "TRANSMITTING"}
  /\ propagating \in Seq(Packet) /\ Len(propagating) <= LineLength
  /\ sent \in Nat
  /\ delivered \in Seq(Packet)
  /\ dropped \subseteq Nat

Init ==
  /\ m_txMachineState = "READY"
  /\ m_currentPkt = <<>>
  /\ m_queue = <<>>
  /\ m_state = "IDLE"
  /\ propagating = <<>>
  /\ sent = 0
  /\ delivered = <<>>
  /\ dropped = {}

-----------------------------------------------------------------------------

(* The mark of a packet of more than 500 bytes, whose queue has reached the *)
(* threshold: Ipv4Header::SetEcn(ECN_CE).                                   *)
MarkEcn(pkt) ==
  IF pkt.large /\ Len(m_queue) >= EcnThresh /\ EcnThresh > 0
  THEN [pkt EXCEPT !.tos = (@ \div 4) * 4 + 3] ELSE pkt

(* TransmitStart of a READY device, with the packet at the head of q: on an *)
(* idle channel the device is BUSY; on a busy one a full-duplex device does *)
(* nothing, and no event will start it again.                               *)
TransmitStart(q) ==
  /\ m_currentPkt' = <<Head(q)>>
  /\ m_queue' = Tail(q)
  /\ IF m_state = "IDLE"
     THEN m_txMachineState' = "BUSY" /\ m_state' = "TRANSMITTING"
     ELSE m_txMachineState' = "READY" /\ UNCHANGED m_state

(* BUG: the queue takes one packet more than it holds. *)
SendFromPlusOne(pkt) ==
  IF Len(m_queue) > MaxPackets
  THEN /\ dropped' = dropped \cup {pkt.id}
       /\ UNCHANGED <<m_txMachineState, m_currentPkt, m_queue, m_state>>
  ELSE /\ IF m_txMachineState = "READY"
          THEN TransmitStart(Append(m_queue, MarkEcn(pkt)))
          ELSE /\ m_queue' = Append(m_queue, MarkEcn(pkt))
               /\ UNCHANGED <<m_txMachineState, m_currentPkt, m_state>>
       /\ UNCHANGED dropped

(* SendFrom: mark, enqueue or drop, and start a READY device. *)
SendFrom(pkt) ==
  IF Len(m_queue) >= MaxPackets
  THEN /\ dropped' = dropped \cup {pkt.id}
       /\ UNCHANGED <<m_txMachineState, m_currentPkt, m_queue, m_state>>
  ELSE /\ IF m_txMachineState = "READY"
          THEN TransmitStart(Append(m_queue, MarkEcn(pkt)))
          ELSE /\ m_queue' = Append(m_queue, MarkEcn(pkt))
               /\ UNCHANGED <<m_txMachineState, m_currentPkt, m_state>>
       /\ UNCHANGED dropped

(* bound: the line holds LineLength packets at most. *)
LineFree == Len(propagating) + Len(m_currentPkt) < LineLength

Send ==
  /\ sent < MaxSent
  /\ m_txMachineState = "READY" => LineFree
  /\ \E large \in BOOLEAN, tos \in TosValues :
       SendFrom([id |-> sent + 1, large |-> large, tos |-> tos])
  /\ sent' = sent + 1
  /\ UNCHANGED <<propagating, delivered>>

(* TransmitCompleteEvent with CsmaChannel::TransmitEnd, which schedules the *)
(* reception and in full duplex is IDLE again at once.                      *)
TransmitComplete ==
  /\ m_txMachineState = "BUSY"
  /\ m_txMachineState' = "GAP"
  /\ propagating' = propagating \o m_currentPkt
  /\ m_currentPkt' = <<>>
  /\ m_state' = "IDLE"
  /\ UNCHANGED <<m_queue, history>>

(* TransmitReadyEvent: READY, and the next packet when there is one. *)
TransmitReady ==
  /\ m_txMachineState = "GAP"
  /\ IF m_queue = <<>>
     THEN m_txMachineState' = "READY" /\ UNCHANGED <<m_currentPkt, m_queue, m_state>>
     ELSE LineFree /\ TransmitStart(m_queue)
  /\ UNCHANGED <<propagating, history>>

(* BUG: the packet that left last is received first. *)
ReceiveLast ==
  /\ propagating # <<>>
  /\ delivered' = Append(delivered, propagating[Len(propagating)])
  /\ propagating' = SubSeq(propagating, 1, Len(propagating) - 1)
  /\ UNCHANGED <<m_txMachineState, m_currentPkt, m_queue, m_state, sent, dropped>>

(* CsmaNetDevice::Receive at the other end. *)
Receive ==
  /\ propagating # <<>>
  /\ delivered' = Append(delivered, Head(propagating))
  /\ propagating' = Tail(propagating)
  /\ UNCHANGED <<m_txMachineState, m_currentPkt, m_queue, m_state, sent, dropped>>

Next ==
  \/ Send
  \/ TransmitComplete
  \/ TransmitReady
  \/ Receive

(* The simulator runs the events it holds. *)
Spec ==
  /\ Init /\ [][Next]_vars
  /\ WF_vars(TransmitComplete) /\ WF_vars(TransmitReady) /\ WF_vars(Receive)

-----------------------------------------------------------------------------
(* Properties *)

(* The assertions of TransmitStart, TransmitCompleteEvent and                *)
(* TransmitReadyEvent (csma-net-device.cc:482, 604-612, 636-643) hold when   *)
(* their events run: the transmitter, its packet and the channel agree.      *)
AssertionsHold ==
  CASE m_txMachineState = "BUSY" -> m_state = "TRANSMITTING" /\ m_currentPkt # <<>>
    [] m_txMachineState = "GAP" -> m_currentPkt = <<>>
    [] m_txMachineState = "READY" -> TRUE

(* A READY device has nothing to send: no packet is left waiting for the    *)
(* next call of SendFrom, in the transmitter or in the queue.               *)
ReadyMeansEmpty ==
  m_txMachineState = "READY" => m_currentPkt = <<>> /\ m_queue = <<>>

(* The device and its channel implement the link the switches rely on.      *)
L == INSTANCE Link WITH
       link <- [line |-> propagating \o m_currentPkt, queue |-> m_queue,
                used |-> delivered # <<>>]
ImplementsLink == L!Spec
=============================================================================
