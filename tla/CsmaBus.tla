------------------------------ MODULE CsmaBus ------------------------------
(***************************************************************************)
(* A CsmaChannel with the CsmaNetDevices attached to it, in half duplex    *)
(* (carrier sense, backoff, one frame at a time) and in full duplex, while *)
(* devices are detached, reattached, and their two sides switched off.     *)
(*                                                                         *)
(* A device is its number in m_deviceList and a frame is the number of the *)
(* call of SendFrom that took it.  All frames are broadcast.  Time is left *)
(* out but for this: the events TransmitEnd schedules are all delayed by   *)
(* m_delay, so they run in the order in which they were scheduled.         *)
(***************************************************************************)
EXTENDS Integers, Sequences

CONSTANTS
  MaxDevices,    (* bound: devices attached to the channel                  *)
  MaxPackets,    (* capacity of a device's queue                            *)
  MaxRetries,    (* m_maxRetries of the backoff of every device             *)
  MaxSent,       (* bound: frames the devices accept                        *)
  Faulty,        (* bound: the devices whose attachment and sides change    *)
  MaxFaults      (* bound: how often they do                                *)

(* With no retries at all TransmitAbort would empty the queue in one event; *)
(* the code's default is 1000.                                              *)
ASSUME BusAssumption ==
  /\ MaxDevices \in Nat /\ MaxPackets \in Nat \ {0} /\ MaxRetries \in Nat \ {0}
  /\ MaxSent \in Nat /\ MaxFaults \in Nat /\ Faulty \subseteq 0 .. MaxDevices - 1

VARIABLES
  m_fullDuplex,      (* of the channel: set when built, given up by Attach  *)
  attached,          (* m_deviceList.size ()                                *)
  active,            (* CsmaDeviceRec::active                               *)
  wire,              (* m_state, m_currentSrc and m_currentPkt, by index    *)
  scheduled,         (* the frames that propagate, in order, each with the  *)
                     (* devices whose Receive is still to come, and whether *)
                     (* a PropagationCompleteEvent follows these (idle)     *)
  m_txMachineState,  (* "READY", "BUSY", "GAP" or "BACKOFF"                 *)
  m_currentPkt,      (* the frame of the transmitter, NoFrame when 0        *)
  m_queue,           (* the frames that wait                                *)
  m_backoff,         (* m_numBackoffRetries                                 *)
  waiting,           (* a TransmitStart is scheduled after a backoff        *)
  m_sendEnable, m_receiveEnable,
  halted,            (* an NS_ASSERT failed: the program has stopped        *)
  disturbed,         (* history: a device was attached in half duplex while *)
                     (* a frame was on the channel                          *)
  source,            (* history: the device that took each frame            *)
  transmitted,       (* history: the frames TransmitEnd gave to the channel *)
  lost,              (* history: the frames their senders dropped           *)
  missed,            (* history: the frames each device was cut off from    *)
  received,          (* history: the frames each device received, in order  *)
  faults             (* number of changes of active and the enable flags    *)

channelVars == <<m_fullDuplex, attached, disturbed, active, wire, scheduled>>
deviceVars == <<m_txMachineState, m_currentPkt, m_queue, m_backoff, waiting>>
flags == <<m_sendEnable, m_receiveEnable, faults>>
receiverVars == <<missed, received>>
vars == <<channelVars, deviceVars, flags, receiverVars, source, transmitted, lost, halted>>

Devices == 0 .. MaxDevices - 1
DeviceList == 0 .. attached - 1
NoFrame == 0
Frames == 1 .. MaxSent
Line == [state : {"UNSET", "IDLE", "TRANSMITTING", "PROPAGATING"},
         src : Devices \cup {-1}, frame : Frames \cup {NoFrame}]
Propagating == [frame : Frames, src : Devices, to : SUBSET Devices, idle : BOOLEAN]

TypeOK ==
  /\ m_fullDuplex \in BOOLEAN
  /\ attached \in 0 .. MaxDevices
  /\ wire \in [0 .. 1 -> Line]
  /\ scheduled \in Seq(Propagating)
  /\ m_txMachineState \in [Devices -> {"READY", "BUSY", "GAP", "BACKOFF"}]
  /\ m_currentPkt \in [Devices -> Frames \cup {NoFrame}]
  /\ m_queue \in [Devices -> Seq(Frames)]
  /\ \A d \in Devices : Len(m_queue[d]) <= MaxPackets
  /\ m_backoff \in [Devices -> 0 .. MaxRetries]
  /\ waiting \in [Devices -> BOOLEAN]
  /\ active \in [Devices -> BOOLEAN]
  /\ m_sendEnable \in [Devices -> BOOLEAN]
  /\ m_receiveEnable \in [Devices -> BOOLEAN]
  /\ source \in Seq(Devices) /\ Len(source) <= MaxSent
  /\ transmitted \in Seq(Frames)
  /\ lost \subseteq Frames
  /\ missed \in [Devices -> SUBSET Frames]
  /\ received \in [Devices -> Seq(Frames)]
  /\ faults \in 0 .. MaxFaults
  /\ halted \in BOOLEAN /\ disturbed \in BOOLEAN

Init ==
  /\ m_fullDuplex \in BOOLEAN
  /\ attached = 0
  /\ active = [d \in Devices |-> TRUE]
  /\ wire = [i \in 0 .. 1 |-> [state |-> "UNSET", src |-> -1, frame |-> NoFrame]]
  /\ scheduled = <<>>
  /\ m_txMachineState = [d \in Devices |-> "READY"]
  /\ m_currentPkt = [d \in Devices |-> NoFrame]
  /\ m_queue = [d \in Devices |-> <<>>]
  /\ m_backoff = [d \in Devices |-> 0]
  /\ waiting = [d \in Devices |-> FALSE]
  /\ m_sendEnable = [d \in Devices |-> TRUE]
  /\ m_receiveEnable = [d \in Devices |-> TRUE]
  /\ source = <<>> /\ transmitted = <<>> /\ lost = {}
  /\ missed = [d \in Devices |-> {}]
  /\ received = [d \in Devices |-> <<>>]
  /\ faults = 0 /\ halted = FALSE /\ disturbed = FALSE

-----------------------------------------------------------------------------
(* The channel *)

(* An event that fails none of its assertions, and one that fails one. *)
Runs == ~halted /\ halted' = FALSE
Asserts ==
  /\ ~halted /\ halted' = TRUE
  /\ UNCHANGED <<channelVars, deviceVars, flags, receiverVars, source, transmitted, lost>>

(* m_state, m_currentSrc and m_currentPkt have two elements: one for each   *)
(* of two devices in full duplex, one for all devices in half duplex.       *)
Index(d) == IF m_fullDuplex THEN d ELSE 0
WireState(d) == wire[Index(d)].state

(* The frames that TransmitEnd has put on their way. *)
Carried == {transmitted[i] : i \in DOMAIN transmitted}

(* The arrays are those of half duplex, and a frame uses one of them. *)
InUse == \E i \in 0 .. 1 : wire[i].state \in {"TRANSMITTING", "PROPAGATING"}

(* BUG: a third device is attached before the channel falls back. *)
AttachLate ==
  /\ Runs /\ attached < MaxDevices
  /\ attached' = attached + 1
  /\ m_fullDuplex' = (m_fullDuplex /\ attached <= 2)
  /\ wire' = [wire EXCEPT ![IF m_fullDuplex' THEN attached ELSE 0] =
                [state |-> "IDLE", src |-> attached, frame |-> @.frame]]
  /\ disturbed' = (disturbed \/ (~m_fullDuplex' /\ InUse))
  /\ missed' = [missed EXCEPT ![attached] = Carried]
  /\ UNCHANGED <<active, scheduled, deviceVars, flags, received, source, transmitted, lost>>

(* CsmaChannel::Attach, at any time: a third device turns a full-duplex     *)
(* channel into a half-duplex one, and in half duplex the state of the whole *)
(* channel becomes IDLE, whatever is on it.  The new device hears nothing   *)
(* that was sent before.                                                    *)
Attach ==
  /\ Runs /\ attached < MaxDevices
  /\ attached' = attached + 1
  /\ m_fullDuplex' = (m_fullDuplex /\ attached < 2)
  /\ wire' = [wire EXCEPT ![IF m_fullDuplex' THEN attached ELSE 0] =
                [state |-> "IDLE", src |-> attached, frame |-> @.frame]]
  /\ disturbed' = (disturbed \/ (~m_fullDuplex' /\ InUse))
  /\ missed' = [missed EXCEPT ![attached] = Carried]
  /\ UNCHANGED <<active, scheduled, deviceVars, flags, received, source, transmitted, lost>>

Fault(d) == Runs /\ d \in Faulty /\ faults < MaxFaults /\ faults' = faults + 1

(* Detach and Reattach; a device that transmits is detached all the same.   *)
DetachOrReattach(d) ==
  /\ Fault(d)
  /\ active' = [active EXCEPT ![d] = ~@]
  /\ UNCHANGED <<m_fullDuplex, attached, disturbed, wire, scheduled, deviceVars, m_sendEnable,
                 m_receiveEnable, receiverVars, source, transmitted, lost>>

SetSendEnable(d) ==
  /\ Fault(d)
  /\ m_sendEnable' = [m_sendEnable EXCEPT ![d] = ~@]
  /\ UNCHANGED <<channelVars, deviceVars, m_receiveEnable, receiverVars, source,
                 transmitted, lost>>

SetReceiveEnable(d) ==
  /\ Fault(d)
  /\ m_receiveEnable' = [m_receiveEnable EXCEPT ![d] = ~@]
  /\ UNCHANGED <<channelVars, deviceVars, m_sendEnable, receiverVars, source,
                 transmitted, lost>>

-----------------------------------------------------------------------------
(* The transmitter *)

(* The transmitter of d is left in state s with frame f, the queue q, after *)
(* r retries, with a TransmitStart scheduled or not.                        *)
Leave(d, s, f, q, r, again) ==
  /\ m_txMachineState' = [m_txMachineState EXCEPT ![d] = s]
  /\ m_currentPkt' = [m_currentPkt EXCEPT ![d] = f]
  /\ m_queue' = [m_queue EXCEPT ![d] = q]
  /\ m_backoff' = [m_backoff EXCEPT ![d] = r]
  /\ waiting' = [waiting EXCEPT ![d] = again]

(* The send side is off: the frame is dropped, and the state stays.         *)
SendDisabled(d, s, f, q) ==
  /\ ~m_sendEnable[d]
  /\ Leave(d, s, NoFrame, q, m_backoff[d], FALSE)
  /\ lost' = lost \cup {f}
  /\ UNCHANGED wire

(* A busy channel in full duplex, which "is not supposed to happen": nothing. *)
BusyInFullDuplex(d, s, f, q) ==
  /\ m_sendEnable[d] /\ WireState(d) # "IDLE" /\ m_fullDuplex
  /\ Leave(d, s, f, q, m_backoff[d], FALSE)
  /\ UNCHANGED <<lost, wire>>

(* BUG: the backoff does not reschedule TransmitStart. *)
BackOffOnly(d, s, f, q) ==
  /\ m_sendEnable[d] /\ WireState(d) # "IDLE" /\ ~m_fullDuplex
  /\ m_backoff[d] < MaxRetries
  /\ Leave(d, "BACKOFF", f, q, m_backoff[d] + 1, FALSE)
  /\ UNCHANGED <<lost, wire>>

(* A busy channel: back off and try again.                                  *)
BackOff(d, s, f, q) ==
  /\ m_sendEnable[d] /\ WireState(d) # "IDLE" /\ ~m_fullDuplex
  /\ m_backoff[d] < MaxRetries
  /\ Leave(d, "BACKOFF", f, q, m_backoff[d] + 1, TRUE)
  /\ UNCHANGED <<lost, wire>>

(* BUG: the next frame is started, and stays in the queue. *)
TransmitAbortPeek(d, s, f, q) ==
  /\ m_sendEnable[d] /\ WireState(d) # "IDLE" /\ ~m_fullDuplex
  /\ m_backoff[d] >= MaxRetries
  /\ IF q = <<>> THEN Leave(d, "READY", NoFrame, q, 0, FALSE)
                 ELSE Leave(d, "BACKOFF", Head(q), q, 1, TRUE)
  /\ lost' = lost \cup {f}
  /\ UNCHANGED wire

(* BUG: the frames behind the aborted one are left in the queue. *)
TransmitAbortOnly(d, s, f, q) ==
  /\ m_sendEnable[d] /\ WireState(d) # "IDLE" /\ ~m_fullDuplex
  /\ m_backoff[d] >= MaxRetries
  /\ Leave(d, "READY", NoFrame, q, 0, FALSE)
  /\ lost' = lost \cup {f}
  /\ UNCHANGED wire

(* TransmitAbort after the last retry; TransmitStart of the next frame finds *)
(* the same busy channel and backs off.                                     *)
TransmitAbort(d, s, f, q) ==
  /\ m_sendEnable[d] /\ WireState(d) # "IDLE" /\ ~m_fullDuplex
  /\ m_backoff[d] >= MaxRetries
  /\ IF q = <<>> THEN Leave(d, "READY", NoFrame, q, 0, FALSE)
                 ELSE Leave(d, "BACKOFF", Head(q), Tail(q), 1, TRUE)
  /\ lost' = lost \cup {f}
  /\ UNCHANGED wire

(* CsmaChannel::TransmitStart refuses a device that is detached.            *)
ChannelRefuses(d, s, f, q) ==
  /\ m_sendEnable[d] /\ WireState(d) = "IDLE" /\ ~active[d]
  /\ Leave(d, "READY", NoFrame, q, m_backoff[d], FALSE)
  /\ lost' = lost \cup {f}
  /\ UNCHANGED wire

(* The channel takes the frame. *)
Transmit(d, s, f, q) ==
  /\ m_sendEnable[d] /\ WireState(d) = "IDLE" /\ active[d]
  /\ Leave(d, "BUSY", f, q, 0, FALSE)
  /\ wire' = [wire EXCEPT ![Index(d)] =
                [state |-> "TRANSMITTING", src |-> d, frame |-> f]]
  /\ UNCHANGED lost

(* TransmitStart of frame f, with the queue q, called in state s.           *)
TransmitStart(d, s, f, q) ==
  \/ SendDisabled(d, s, f, q)
  \/ BusyInFullDuplex(d, s, f, q)
  \/ BackOff(d, s, f, q)
  \/ TransmitAbort(d, s, f, q)
  \/ ChannelRefuses(d, s, f, q)
  \/ Transmit(d, s, f, q)

(* BUG: the queue takes one frame more than it holds. *)
QueueFullPlusOne(d) == Len(m_queue[d]) > MaxPackets

(* Queue::Enqueue drops the frame. *)
QueueFull(d) == Len(m_queue[d]) >= MaxPackets

(* SendFrom on an enabled device: enqueue, or drop when the queue is full,  *)
(* and start a READY device with the frame at the head of the queue.        *)
SendFrom(d) ==
  LET f == Len(source) + 1
      q == Append(m_queue[d], f)
  IN
  /\ Runs /\ d \in DeviceList /\ Len(source) < MaxSent
  /\ m_sendEnable[d]
  /\ source' = Append(source, d)
  /\ \/ /\ QueueFull(d)
        /\ lost' = lost \cup {f}
        /\ UNCHANGED <<wire, deviceVars>>
     \/ /\ ~QueueFull(d) /\ m_txMachineState[d] = "READY"
        /\ TransmitStart(d, "READY", Head(q), Tail(q))
     \/ /\ ~QueueFull(d) /\ m_txMachineState[d] # "READY"
        /\ m_queue' = [m_queue EXCEPT ![d] = q]
        /\ UNCHANGED <<m_txMachineState, m_currentPkt, m_backoff, waiting, lost, wire>>
  /\ UNCHANGED <<m_fullDuplex, attached, disturbed, active, scheduled, flags, receiverVars,
                 transmitted>>

(* The TransmitStart that a backoff scheduled. *)
BackoffOver(d) ==
  /\ Runs /\ waiting[d]
  /\ TransmitStart(d, m_txMachineState[d], m_currentPkt[d], m_queue[d])
  /\ UNCHANGED <<m_fullDuplex, attached, disturbed, active, scheduled, flags, receiverVars,
                 source, transmitted>>

(* BUG: a detached device receives too. *)
ReceiversAll(src) == {e \in DeviceList : m_fullDuplex => e # src}

(* The devices TransmitEnd schedules a Receive for; in half duplex the      *)
(* sender is one of them.                                                   *)
Receivers(src) == {e \in DeviceList : active[e] /\ (m_fullDuplex => e # src)}

(* BUG: in half duplex the channel is IDLE before the frame has propagated. *)
StateAfterTransmitIdle == "IDLE"

(* In full duplex the channel can be used again at once.                    *)
StateAfterTransmit == IF m_fullDuplex THEN "IDLE" ELSE "PROPAGATING"

(* CsmaChannel::TransmitEnd: the frame of the channel, from the source of   *)
(* the channel, is on its way to the devices that are active now, and in    *)
(* half duplex a PropagationCompleteEvent follows the last Receive.         *)
TransmitEnd(d) ==
  LET on == wire[Index(d)]
      to == Receivers(on.src)
  IN
  /\ wire' = [wire EXCEPT ![Index(d)].state = StateAfterTransmit]
  /\ scheduled' = IF m_fullDuplex /\ to = {} THEN scheduled
                  ELSE Append(scheduled, [frame |-> on.frame, src |-> on.src, to |-> to,
                                          idle |-> ~m_fullDuplex])
  /\ missed' = [e \in Devices |->
       IF e \in DeviceList /\ ~active[e] THEN missed[e] \cup {on.frame} ELSE missed[e]]
  /\ transmitted' = Append(transmitted, on.frame)

(* TransmitCompleteEvent, when the channel still transmits (the assertions  *)
(* of csma-net-device.cc:605 and csma-channel.cc:237), and when it does not. *)
TransmitComplete(d) ==
  /\ Runs /\ m_txMachineState[d] = "BUSY" /\ WireState(d) = "TRANSMITTING"
  /\ m_txMachineState' = [m_txMachineState EXCEPT ![d] = "GAP"]
  /\ m_currentPkt' = [m_currentPkt EXCEPT ![d] = NoFrame]
  /\ TransmitEnd(d)
  /\ UNCHANGED <<m_fullDuplex, attached, disturbed, active, m_queue, m_backoff, waiting, flags,
                 received, source, lost>>

CompleteAsserts(d) ==
  Asserts /\ m_txMachineState[d] = "BUSY" /\ WireState(d) # "TRANSMITTING"

TransmitReady(d) ==
  /\ Runs /\ m_txMachineState[d] = "GAP"
  /\ IF m_queue[d] = <<>>
     THEN /\ m_txMachineState' = [m_txMachineState EXCEPT ![d] = "READY"]
          /\ UNCHANGED <<m_currentPkt, m_queue, m_backoff, waiting, lost, wire>>
     ELSE TransmitStart(d, "READY", Head(m_queue[d]), Tail(m_queue[d]))
  /\ UNCHANGED <<m_fullDuplex, attached, disturbed, active, scheduled, flags, receiverVars,
                 source, transmitted>>

-----------------------------------------------------------------------------
(* The events of the channel *)

(* The next Receive is for the first device of the list. *)
IsFirst(d, S) == d \in S /\ \A e \in S : d <= e

(* CsmaNetDevice::Receive: a device ignores its own frames, and all frames  *)
(* while its receive side is off.                                           *)
Hear(d, p) ==
  \/ d = p.src /\ UNCHANGED receiverVars
  \/ /\ d # p.src /\ ~m_receiveEnable[d]
     /\ missed' = [missed EXCEPT ![d] = @ \cup {p.frame}]
     /\ UNCHANGED received
  \/ /\ d # p.src /\ m_receiveEnable[d]
     /\ received' = [received EXCEPT ![d] = Append(@, p.frame)]
     /\ UNCHANGED missed

(* All events of a frame are delayed by the same m_delay: frames arrive in  *)
(* the order in which they were transmitted.                                *)
Receive(d) ==
  /\ Runs /\ scheduled # <<>> /\ IsFirst(d, Head(scheduled).to)
  /\ Hear(d, Head(scheduled))
  /\ scheduled' = IF ~Head(scheduled).idle /\ Head(scheduled).to = {d} THEN Tail(scheduled)
                  ELSE [scheduled EXCEPT ![1].to = @ \ {d}]
  /\ UNCHANGED <<m_fullDuplex, attached, disturbed, active, wire, deviceVars, flags, source,
                 transmitted, lost>>

(* PropagationCompleteEvent runs after the receptions of its frame. *)
CompleteIsNext == scheduled # <<>> /\ Head(scheduled).idle /\ Head(scheduled).to = {}

(* It asserts that the frame still propagates (csma-channel.cc:302).        *)
PropagationComplete ==
  /\ Runs /\ CompleteIsNext /\ wire[0].state = "PROPAGATING"
  /\ wire' = [wire EXCEPT ![0].state = "IDLE"]
  /\ scheduled' = Tail(scheduled)
  /\ UNCHANGED <<m_fullDuplex, attached, disturbed, active, deviceVars, flags,
                 receiverVars, source, transmitted, lost>>

PropagationAsserts == Asserts /\ CompleteIsNext /\ wire[0].state # "PROPAGATING"

DeviceEvent(d) ==
  BackoffOver(d) \/ TransmitComplete(d) \/ CompleteAsserts(d) \/ TransmitReady(d)
ChannelEvent ==
  (\E d \in Devices : Receive(d)) \/ PropagationComplete \/ PropagationAsserts

Next ==
  \/ Attach
  \/ \E d \in DeviceList : DetachOrReattach(d)
  \/ \E d \in DeviceList : SetSendEnable(d)
  \/ \E d \in DeviceList : SetReceiveEnable(d)
  \/ \E d \in DeviceList : SendFrom(d)
  \/ \E d \in DeviceList : BackoffOver(d)
  \/ \E d \in DeviceList : TransmitComplete(d)
  \/ \E d \in DeviceList : CompleteAsserts(d)
  \/ \E d \in DeviceList : TransmitReady(d)
  \/ \E d \in DeviceList : Receive(d)
  \/ PropagationComplete
  \/ PropagationAsserts

(* The simulator runs the events it holds; nothing makes a device send, and *)
(* nothing reattaches it.                                                   *)
Spec ==
  /\ Init /\ [][Next]_vars
  /\ \A d \in Devices : WF_vars(d \in DeviceList /\ DeviceEvent(d))
  /\ WF_vars(ChannelEvent)

-----------------------------------------------------------------------------
(* Properties *)

(* The assertions of csma-net-device.cc (460, 482, 557-564, 612, 636-643)   *)
(* hold when their events run, and the two elements of the channel's arrays *)
(* are never read outside their bounds or before Attach has set them.  The  *)
(* assertions on the state of the channel (csma-net-device.cc:605 and       *)
(* csma-channel.cc:237, 302) hold too unless a device was attached in half  *)
(* duplex while a frame was on the channel, a fallback under traffic        *)
(* included: only then can one stop the program.                            *)
AssertionsHold ==
  /\ m_fullDuplex => attached <= 2
  /\ \A d \in DeviceList :
       /\ WireState(d) # "UNSET"
       /\ m_txMachineState[d] = "BUSY" => m_currentPkt[d] # NoFrame
       /\ m_txMachineState[d] \in {"READY", "GAP"} => m_currentPkt[d] = NoFrame
       /\ waiting[d] => m_txMachineState[d] = "BACKOFF" /\ m_currentPkt[d] # NoFrame
  /\ halted => disturbed
  /\ ~disturbed =>
       /\ \A d \in DeviceList : m_txMachineState[d] = "BUSY" =>
            wire[Index(d)] = [state |-> "TRANSMITTING", src |-> d, frame |-> m_currentPkt[d]]
       /\ \A k \in DOMAIN scheduled : scheduled[k].idle =>
            ~m_fullDuplex /\ wire[0].state = "PROPAGATING"

(* Carrier sense: in half duplex a device transmits alone, and not before   *)
(* every device has heard the frame that was sent in half duplex before it, *)
(* as long as no device was attached while a frame was on the channel.      *)
OneFrameAtATime ==
  ~m_fullDuplex /\ ~disturbed =>
    \A d, e \in DeviceList :
      m_txMachineState[d] = "BUSY" =>
        /\ m_txMachineState[e] = "BUSY" => d = e
        /\ \A k \in DOMAIN scheduled : ~scheduled[k].idle

Before(s, f, g) == \E i, j \in DOMAIN s : i < j /\ s[i] = f /\ s[j] = g
PendingFor(d) ==
  {scheduled[k].frame : k \in {l \in DOMAIN scheduled : d \in scheduled[l].to /\ scheduled[l].src # d}}

(* Every device receives the frames of the others once, and in the order in *)
(* which the channel carried them, but for those it was cut off from; what  *)
(* still propagates, in that order too, comes after what it has received.   *)
(* This holds through a fallback to half duplex, unless a frame is on the   *)
(* channel at that time.                                                    *)
EveryoneHearsTheSame == ~disturbed =>
  /\ \A k, l \in DOMAIN scheduled : k < l => Before(transmitted, scheduled[k].frame, scheduled[l].frame)
  /\ \A d \in DeviceList :
       /\ \A i, j \in DOMAIN received[d] : i < j => Before(transmitted, received[d][i], received[d][j])
       /\ \A i \in DOMAIN received[d], f \in PendingFor(d) : Before(transmitted, received[d][i], f)
       /\ {received[d][i] : i \in DOMAIN received[d]} \cup PendingFor(d)
            = {f \in Carried : source[f] # d /\ f \notin missed[d]}

Held(d) ==
  ({m_currentPkt[d]} \ {NoFrame}) \cup {m_queue[d][i] : i \in DOMAIN m_queue[d]}

(* A frame a device took is transmitted, or dropped, or still in its hands, *)
(* exactly once, and its frames are transmitted in the order it took them,  *)
(* unless a device was attached while a frame was on the channel.           *)
EveryFrameAccounted == ~disturbed =>
  /\ \A i, j \in DOMAIN transmitted :
       i < j /\ source[transmitted[i]] = source[transmitted[j]] => transmitted[i] < transmitted[j]
  /\ \A d \in DeviceList :
       /\ \A f \in Carried, g \in Held(d) : source[f] = d => f < g
       /\ \A i \in DOMAIN m_queue[d] :
            /\ m_currentPkt[d] < m_queue[d][i]
            /\ \A j \in DOMAIN m_queue[d] : i < j => m_queue[d][i] < m_queue[d][j]
       /\ Held(d) \cup {f \in Carried : source[f] = d}
            = {f \in DOMAIN source : source[f] = d /\ f \notin lost}

(* A device is stuck when it holds a frame, or believes to be transmitting, *)
(* and has no event that will take it any further.                          *)
HasEvent(d) == waiting[d] \/ m_txMachineState[d] \in {"BUSY", "GAP"}
Stuck(d) == ~HasEvent(d) /\ (m_queue[d] # <<>> \/ m_txMachineState[d] # "READY")

(* Only a device that is switched off or detached gets stuck: congestion    *)
(* alone never does it, also when TransmitAbort gives a frame up.           *)
StuckOnlyWhenCutOff ==
  [][\A d \in DeviceList : Stuck(d)' /\ ~Stuck(d) => ~m_sendEnable[d] \/ ~active[d]]_vars

(* A frame is transmitted or dropped in the end, whatever the traffic of    *)
(* the others; only one whose device is stuck after a fault may stay, or    *)
(* any frame once a device was attached while a frame was on the channel.   *)
EventuallyLeaves ==
  \A f \in Frames :
    Len(source) >= f ~>
      \/ disturbed \/ f \in lost \/ \E i \in DOMAIN transmitted : transmitted[i] = f
      \/ f \in DOMAIN source /\ Stuck(source[f]) /\ faults > 0

(* "If the device is idle, we need to start a transmission. Otherwise, the  *)
(* transmission will be started when the current packet finished            *)
(* transmission" (csma-net-device.cc:1024-1026): after SendFrom on a device *)
(* that is attached and enabled, something will take the frames it holds.   *)
SendFromStartsOrWaits ==
  [][\A d \in DeviceList :
       /\ source' = Append(source, d) /\ active[d] /\ m_sendEnable[d]
       => HasEvent(d)' \/ m_queue'[d] = <<>>]_vars
=============================================================================
