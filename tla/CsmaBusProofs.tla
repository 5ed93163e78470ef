--------------------------- MODULE CsmaBusProofs ---------------------------
(***************************************************************************)
(* Theorems about a CSMA channel, for any number of devices, queues and    *)
(* retries, in both modes, whatever is detached or switched off, and       *)
(* whenever devices are attached: types, assertions, carrier sense, what   *)
(* can leave a device stuck, where every frame is, and what devices hear.  *)
(***************************************************************************)
EXTENDS CsmaBus, TLAPS

(* What the assertions of a device need of it; one that is not attached yet *)
(* has done nothing.                                                        *)
DeviceOK(d) ==
  /\ m_txMachineState[d] = "BUSY" => m_currentPkt[d] # NoFrame
  /\ m_txMachineState[d] \in {"READY", "GAP"} => m_currentPkt[d] = NoFrame
  /\ waiting[d] => m_txMachineState[d] = "BACKOFF" /\ m_currentPkt[d] # NoFrame
  /\ d \notin DeviceList => m_txMachineState[d] = "READY" /\ ~waiting[d]

(* What holds of the channel whenever devices are attached.                 *)
WireOK ==
  /\ m_fullDuplex => attached <= 2 /\ ~disturbed
  /\ \A d \in DeviceList : WireState(d) # "UNSET"
  /\ \A i \in 0 .. 1 : wire[i].state = "TRANSMITTING" =>
       wire[i].src \in Devices /\ wire[i].frame # NoFrame
  /\ halted => disturbed

(* The line of the channel when device d transmits. *)
SentBy(d) == [state |-> "TRANSMITTING", src |-> d, frame |-> m_currentPkt[d]]

(* What holds of it unless one is attached while a frame is on the channel: *)
(* a subchannel in full duplex is busy only with its own device, and one    *)
(* frame at most propagates in half duplex.                                 *)
Undisturbed ==
  /\ \A d \in DeviceList : m_txMachineState[d] = "BUSY" => wire[Index(d)] = SentBy(d)
  /\ m_fullDuplex =>
       \A d \in DeviceList : WireState(d) # "IDLE" => m_txMachineState[d] = "BUSY"
  /\ \A k \in DOMAIN scheduled : scheduled[k].idle =>
       ~m_fullDuplex /\ wire[0].state = "PROPAGATING"
  /\ \A k, l \in DOMAIN scheduled : scheduled[k].idle /\ scheduled[l].idle => k = l

(* The inductive invariant of the assertions. *)
BusInv ==
  /\ \A d \in Devices : DeviceOK(d)
  /\ WireOK
  /\ disturbed \/ Undisturbed

(* The part of TypeOK that a transmitter changes. *)
DeviceType ==
  /\ m_txMachineState \in [Devices -> {"READY", "BUSY", "GAP", "BACKOFF"}]
  /\ m_currentPkt \in [Devices -> Frames \cup {NoFrame}]
  /\ m_queue \in [Devices -> Seq(Frames)]
  /\ \A d \in Devices : Len(m_queue[d]) <= MaxPackets
  /\ m_backoff \in [Devices -> 0 .. MaxRetries]
  /\ waiting \in [Devices -> BOOLEAN]

(* The rest of it. *)
OtherType ==
  /\ m_fullDuplex \in BOOLEAN
  /\ attached \in 0 .. MaxDevices
  /\ scheduled \in Seq(Propagating)
  /\ active \in [Devices -> BOOLEAN]
  /\ m_sendEnable \in [Devices -> BOOLEAN]
  /\ m_receiveEnable \in [Devices -> BOOLEAN]
  /\ source \in Seq(Devices) /\ Len(source) <= MaxSent
  /\ transmitted \in Seq(Frames)
  /\ missed \in [Devices -> SUBSET Frames]
  /\ received \in [Devices -> Seq(Frames)]
  /\ faults \in 0 .. MaxFaults
  /\ halted \in BOOLEAN /\ disturbed \in BOOLEAN

(* TypeOK in these parts. *)
LEMMA TypeParts ==
  TypeOK <=> DeviceType /\ OtherType /\ wire \in [0 .. 1 -> Line] /\ lost \subseteq Frames
BY DEF TypeOK, DeviceType, OtherType

(* What Append gives. *)
LEMMA AppendType ==
  ASSUME NEW S, NEW q \in Seq(S), NEW x \in S
  PROVE  /\ Append(q, x) \in Seq(S) /\ Len(Append(q, x)) = Len(q) + 1
         /\ Append(q, x) # <<>>
<1>1. Append(q, x) \in Seq(S) /\ Len(Append(q, x)) = Len(q) + 1
  OBVIOUS
<1>2. Len(q) \in Nat /\ Len(<<>>) = 0
  OBVIOUS
<1> QED BY <1>1, <1>2

(* What Head and Tail give. *)
LEMMA TailType ==
  ASSUME NEW S, NEW q \in Seq(S), q # <<>>
  PROVE  Head(q) \in S /\ Tail(q) \in Seq(S) /\ Len(Tail(q)) = Len(q) - 1
OBVIOUS

(* The devices of the list are devices. *)
LEMMA ListOfDevices == ASSUME OtherType PROVE DeviceList \subseteq Devices
BY BusAssumption DEF OtherType, DeviceList, Devices

(* Setting the transmitter of a device keeps the types. *)
LEMMA LeaveType ==
  ASSUME DeviceType, NEW d \in Devices, NEW s \in {"READY", "BUSY", "GAP", "BACKOFF"},
         NEW f \in Frames \cup {NoFrame}, NEW q \in Seq(Frames), Len(q) <= MaxPackets,
         NEW r \in 0 .. MaxRetries, NEW again \in BOOLEAN, Leave(d, s, f, q, r, again)
  PROVE  DeviceType'
<1>1. m_txMachineState' \in [Devices -> {"READY", "BUSY", "GAP", "BACKOFF"}]
  BY DEF Leave, DeviceType
<1>2. m_currentPkt' \in [Devices -> Frames \cup {NoFrame}]
  BY DEF Leave, DeviceType
<1>3. /\ m_queue' \in [Devices -> Seq(Frames)]
      /\ \A e \in Devices : Len(m_queue'[e]) <= MaxPackets
  BY DEF Leave, DeviceType
<1>4. m_backoff' \in [Devices -> 0 .. MaxRetries]
  BY DEF Leave, DeviceType
<1>5. waiting' \in [Devices -> BOOLEAN]
  BY DEF Leave, DeviceType
<1> QED BY <1>1, <1>2, <1>3, <1>4, <1>5 DEF DeviceType

(* What it sets. *)
LEMMA LeaveFields ==
  ASSUME DeviceType, NEW d \in Devices, NEW s, NEW f, NEW q, NEW r, NEW again,
         Leave(d, s, f, q, r, again)
  PROVE  /\ m_txMachineState'[d] = s /\ m_currentPkt'[d] = f /\ m_queue'[d] = q
         /\ waiting'[d] = again
         /\ \A e \in Devices : e # d =>
              /\ m_txMachineState'[e] = m_txMachineState[e]
              /\ m_currentPkt'[e] = m_currentPkt[e]
              /\ m_queue'[e] = m_queue[e]
              /\ waiting'[e] = waiting[e]
BY DEF Leave, DeviceType

(* The arrays of the channel are indexed within their bounds. *)
LEMMA IndexInBounds ==
  ASSUME OtherType, BusInv, NEW d \in DeviceList
  PROVE  Index(d) \in 0 .. 1
BY DEF OtherType, BusInv, WireOK, DeviceList, Index

(* TransmitStart keeps the types. *)
LEMMA TransmitStartType ==
  ASSUME TypeOK, BusInv, NEW d \in DeviceList, NEW s \in {"READY", "BACKOFF"},
         NEW f \in Frames, NEW q \in Seq(Frames), Len(q) <= MaxPackets,
         TransmitStart(d, s, f, q)
  PROVE  DeviceType' /\ wire' \in [0 .. 1 -> Line] /\ lost' \subseteq Frames
<1>1. /\ DeviceType /\ OtherType /\ d \in Devices /\ m_backoff[d] \in 0 .. MaxRetries
      /\ lost \subseteq Frames /\ wire \in [0 .. 1 -> Line]
  BY TypeParts, ListOfDevices DEF DeviceType
<1>2. NoFrame \in Frames \cup {NoFrame} /\ f \in Frames \cup {NoFrame}
  OBVIOUS
<1>3. MaxRetries \in Nat \ {0} /\ 0 \in 0 .. MaxRetries /\ 1 \in 0 .. MaxRetries
  BY BusAssumption
<1>4. CASE SendDisabled(d, s, f, q)
  <2>1. DeviceType'
    BY <1>1, <1>2, <1>4, LeaveType DEF SendDisabled
  <2> QED BY <1>1, <1>4, <2>1 DEF SendDisabled
<1>5. CASE BusyInFullDuplex(d, s, f, q)
  <2>1. DeviceType'
    BY <1>1, <1>2, <1>5, LeaveType DEF BusyInFullDuplex
  <2> QED BY <1>1, <1>5, <2>1 DEF BusyInFullDuplex
<1>6. CASE BackOff(d, s, f, q)
  <2>1. m_backoff[d] + 1 \in 0 .. MaxRetries
    BY <1>1, <1>3, <1>6 DEF BackOff
  <2>2. DeviceType'
    BY <1>1, <1>2, <1>6, <2>1, LeaveType DEF BackOff
  <2> QED BY <1>1, <1>6, <2>2 DEF BackOff
<1>7. CASE TransmitAbort(d, s, f, q)
  <2>1. ASSUME q = <<>> PROVE DeviceType'
    <3>1. Leave(d, "READY", NoFrame, q, 0, FALSE)
      BY <1>7, <2>1 DEF TransmitAbort
    <3> QED BY <1>1, <1>2, <1>3, <3>1, LeaveType
  <2>2. ASSUME q # <<>> PROVE DeviceType'
    <3>1. Leave(d, "BACKOFF", Head(q), Tail(q), 1, TRUE)
      BY <1>7, <2>2 DEF TransmitAbort
    <3>2. Head(q) \in Frames /\ Tail(q) \in Seq(Frames) /\ Len(Tail(q)) = Len(q) - 1
      BY <2>2, TailType
    <3>3. Len(Tail(q)) <= MaxPackets
      BY <3>2, BusAssumption
    <3> QED BY <1>1, <1>3, <3>1, <3>2, <3>3, LeaveType
  <2>3. DeviceType'
    BY <2>1, <2>2
  <2> QED BY <1>1, <1>7, <2>3 DEF TransmitAbort
<1>8. CASE ChannelRefuses(d, s, f, q)
  <2>1. DeviceType'
    BY <1>1, <1>2, <1>8, LeaveType DEF ChannelRefuses
  <2> QED BY <1>1, <1>8, <2>1 DEF ChannelRefuses
<1>9. CASE Transmit(d, s, f, q)
  <2>1. DeviceType'
    BY <1>1, <1>2, <1>3, <1>9, LeaveType DEF Transmit
  <2>2. [state |-> "TRANSMITTING", src |-> d, frame |-> f] \in Line
    BY <1>1 DEF Line
  <2>3. wire' \in [0 .. 1 -> Line]
    BY <1>1, <1>9, <2>2, IndexInBounds DEF Transmit
  <2> QED BY <1>1, <1>9, <2>1, <2>3 DEF Transmit
<1> QED BY <1>4, <1>5, <1>6, <1>7, <1>8, <1>9 DEF TransmitStart

(* A frame in the transmitter while the channel is busy: full duplex is not *)
(* concerned, since there only the device itself makes its channel busy.    *)
LEMMA BusyMeansHalfDuplex ==
  ASSUME BusInv, NEW d \in DeviceList, m_txMachineState[d] # "BUSY"
  PROVE  m_fullDuplex => WireState(d) = "IDLE"
BY DEF BusInv, WireOK, Undisturbed

(* A device that transmits has the channel. *)
LEMMA BusyLine ==
  ASSUME Undisturbed, NEW d \in DeviceList, m_txMachineState[d] = "BUSY"
  PROVE  /\ wire[Index(d)] = SentBy(d) /\ WireState(d) = "TRANSMITTING"
         /\ wire[Index(d)].src = d /\ wire[Index(d)].frame = m_currentPkt[d]
<1>1. wire[Index(d)] = SentBy(d)
  BY DEF Undisturbed
<1> QED BY <1>1 DEF SentBy, WireState

(* What the channel's state says in half duplex. *)
LEMMA HalfDuplexFacts ==
  ASSUME ~m_fullDuplex
  PROVE  /\ \A e \in DeviceList : Index(e) = 0 /\ WireState(e) = wire[0].state
         /\ Undisturbed /\ wire[0].state # "PROPAGATING" =>
              \A k \in DOMAIN scheduled : ~scheduled[k].idle
         /\ Undisturbed /\ wire[0].state # "TRANSMITTING" =>
              \A e \in DeviceList : m_txMachineState[e] # "BUSY"
<1>1. \A e \in DeviceList : Index(e) = 0 /\ WireState(e) = wire[0].state
  BY DEF Index, WireState
<1>2. ASSUME Undisturbed, wire[0].state # "TRANSMITTING", NEW e \in DeviceList
      PROVE  m_txMachineState[e] # "BUSY"
  BY <1>1, <1>2, BusyLine
<1> QED BY <1>1, <1>2 DEF Undisturbed

(* The invariant when TransmitStart changes no channel. *)
LEMMA QuietStartInv ==
  ASSUME TypeOK, BusInv, NEW d \in DeviceList, m_txMachineState[d] # "BUSY",
         NEW s \in {"READY", "BACKOFF"}, NEW f \in Frames \cup {NoFrame}, NEW q,
         NEW r, NEW again \in BOOLEAN, Leave(d, s, f, q, r, again),
         s = "READY" => f = NoFrame, again => s = "BACKOFF" /\ f # NoFrame,
         UNCHANGED <<m_fullDuplex, attached, disturbed, scheduled, wire>>, ~halted'
  PROVE  BusInv'
<1>1. DeviceType /\ DeviceList \subseteq Devices /\ d \in Devices
  BY TypeParts, ListOfDevices
<1>2. /\ m_txMachineState'[d] = s /\ m_currentPkt'[d] = f /\ waiting'[d] = again
      /\ \A e \in Devices : e # d =>
           /\ m_txMachineState'[e] = m_txMachineState[e]
           /\ m_currentPkt'[e] = m_currentPkt[e]
           /\ waiting'[e] = waiting[e]
  BY <1>1, LeaveFields
<1>3. /\ DeviceList' = DeviceList /\ m_fullDuplex' = m_fullDuplex /\ attached' = attached
      /\ \A e \in DeviceList : WireState(e)' = WireState(e) /\ Index(e)' = Index(e)
      /\ wire' = wire /\ scheduled' = scheduled /\ disturbed' = disturbed
  BY DEF DeviceList, WireState, Index
<1>4. ASSUME NEW e \in Devices PROVE DeviceOK(e)'
  <2>1. CASE e = d
    BY <1>2, <1>3, <2>1 DEF DeviceOK
  <2>2. CASE e # d
    BY <1>2, <1>3, <2>2 DEF BusInv, DeviceOK
  <2> QED BY <2>1, <2>2
<1>5. WireOK'
  BY <1>3 DEF BusInv, WireOK
<1>6. ASSUME Undisturbed PROVE Undisturbed'
  <2>1. ASSUME NEW e \in DeviceList, m_txMachineState'[e] = "BUSY"
        PROVE  wire'[Index(e)'] = SentBy(e)'
    <3>1. e # d /\ e \in Devices
      BY <1>1, <1>2, <2>1
    <3>2. m_txMachineState[e] = "BUSY" /\ SentBy(e)' = SentBy(e)
      BY <1>2, <2>1, <3>1 DEF SentBy
    <3> QED BY <1>3, <1>6, <3>2, BusyLine
  <2>2. ASSUME m_fullDuplex, NEW e \in DeviceList, WireState(e) # "IDLE"
        PROVE  m_txMachineState'[e] = "BUSY"
    <3>1. m_txMachineState[e] = "BUSY"
      BY <1>6, <2>2 DEF Undisturbed
    <3> QED BY <1>1, <1>2, <3>1
  <2> QED BY <1>3, <1>6, <2>1, <2>2 DEF Undisturbed
<1> QED BY <1>3, <1>4, <1>5, <1>6 DEF BusInv

(* The invariant when TransmitStart takes the channel. *)
LEMMA TransmitInv ==
  ASSUME TypeOK, BusInv, NEW d \in DeviceList, m_txMachineState[d] # "BUSY",
         NEW s, NEW f \in Frames, NEW q, Transmit(d, s, f, q),
         UNCHANGED <<m_fullDuplex, attached, disturbed, scheduled>>, ~halted'
  PROVE  BusInv'
<1>1. /\ DeviceType /\ DeviceList \subseteq Devices /\ d \in Devices
      /\ wire \in [0 .. 1 -> Line] /\ OtherType
  BY TypeParts, ListOfDevices
<1>2. /\ m_txMachineState'[d] = "BUSY" /\ m_currentPkt'[d] = f /\ waiting'[d] = FALSE
      /\ \A e \in Devices : e # d =>
           /\ m_txMachineState'[e] = m_txMachineState[e]
           /\ m_currentPkt'[e] = m_currentPkt[e]
           /\ waiting'[e] = waiting[e]
  BY <1>1, LeaveFields DEF Transmit
<1>3. /\ DeviceList' = DeviceList /\ m_fullDuplex' = m_fullDuplex /\ attached' = attached
      /\ scheduled' = scheduled /\ disturbed' = disturbed
      /\ \A e \in DeviceList : Index(e)' = Index(e)
  BY DEF DeviceList, Index
<1> DEFINE l == [state |-> "TRANSMITTING", src |-> d, frame |-> f]
<1>4. /\ Index(d) \in 0 .. 1 /\ \A e \in DeviceList : Index(e) \in 0 .. 1
      /\ wire'[Index(d)] = l
      /\ \A i \in 0 .. 1 : i # Index(d) => wire'[i] = wire[i]
  BY <1>1, IndexInBounds DEF Transmit
<1>5. f # NoFrame /\ WireState(d) = "IDLE" /\ l.state = "TRANSMITTING" /\ l.src = d /\ l.frame = f
  BY BusAssumption DEF Frames, NoFrame, Transmit
<1>6. SentBy(d)' = l
  BY <1>2 DEF SentBy
<1> HIDE DEF l
<1>7. ASSUME NEW e \in Devices PROVE DeviceOK(e)'
  <2>1. CASE e = d
    BY <1>2, <1>3, <1>5, <2>1 DEF DeviceOK
  <2>2. CASE e # d
    BY <1>2, <1>3, <2>2 DEF BusInv, DeviceOK
  <2> QED BY <2>1, <2>2
<1>8. ASSUME NEW e \in DeviceList
      PROVE  /\ WireState(e)' = wire'[Index(e)].state
             /\ Index(e) = Index(d) => WireState(e)' = "TRANSMITTING"
             /\ Index(e) # Index(d) => WireState(e)' = WireState(e)
  <2>1. WireState(e)' = wire'[Index(e)].state
    BY <1>3 DEF WireState
  <2> QED BY <1>4, <1>5, <2>1 DEF WireState
<1>9. WireOK'
  <2>1. \A e \in DeviceList' : WireState(e)' # "UNSET"
    BY <1>3, <1>8 DEF BusInv, WireOK
  <2>2. ASSUME NEW i \in 0 .. 1, wire'[i].state = "TRANSMITTING"
        PROVE  wire'[i].src \in Devices /\ wire'[i].frame # NoFrame
    BY <1>1, <1>4, <1>5, <2>2 DEF BusInv, WireOK
  <2> QED BY <1>3, <2>1, <2>2 DEF BusInv, WireOK
<1>10. ASSUME Undisturbed PROVE Undisturbed'
  <2>1. ASSUME NEW e \in DeviceList, e # d, Index(e) = Index(d)
        PROVE  ~m_fullDuplex /\ m_txMachineState[e] # "BUSY"
    <3>1. ~m_fullDuplex
      BY <2>1 DEF Index
    <3> QED BY <1>5, <1>10, <3>1, HalfDuplexFacts
  <2>2. ASSUME NEW e \in DeviceList, m_txMachineState'[e] = "BUSY"
        PROVE  wire'[Index(e)'] = SentBy(e)'
    <3>1. CASE e = d
      BY <1>3, <1>4, <1>6, <3>1
    <3>2. CASE e # d
      <4>1. m_txMachineState[e] = "BUSY" /\ SentBy(e)' = SentBy(e)
        BY <1>1, <1>2, <2>2, <3>2 DEF SentBy
      <4>2. wire'[Index(e)] = wire[Index(e)]
        BY <1>4, <2>1, <3>2, <4>1
      <4> QED BY <1>3, <1>10, <4>1, <4>2, BusyLine
    <3> QED BY <3>1, <3>2
  <2>3. ASSUME m_fullDuplex, NEW e \in DeviceList, WireState(e)' # "IDLE"
        PROVE  m_txMachineState'[e] = "BUSY"
    <3>1. CASE e = d
      BY <1>2, <3>1
    <3>2. CASE e # d
      <4>1. Index(e) # Index(d)
        BY <2>1, <2>3, <3>2
      <4>2. m_txMachineState[e] = "BUSY"
        BY <1>8, <1>10, <2>3, <4>1 DEF Undisturbed
      <4> QED BY <1>1, <1>2, <3>2, <4>2
    <3> QED BY <3>1, <3>2
  <2>4. \A k \in DOMAIN scheduled : ~scheduled[k].idle
    <3>1. CASE m_fullDuplex
      BY <1>10, <3>1 DEF Undisturbed
    <3>2. CASE ~m_fullDuplex
      BY <1>5, <1>10, <3>2, HalfDuplexFacts
    <3> QED BY <3>1, <3>2
  <2> QED BY <1>3, <2>2, <2>3, <2>4 DEF Undisturbed
<1> QED BY <1>3, <1>7, <1>9, <1>10 DEF BusInv

(* TransmitStart keeps the invariant. *)
LEMMA TransmitStartInv ==
  ASSUME TypeOK, BusInv, NEW d \in DeviceList, m_txMachineState[d] # "BUSY",
         NEW s \in {"READY", "BACKOFF"}, NEW f \in Frames, NEW q \in Seq(Frames),
         TransmitStart(d, s, f, q),
         UNCHANGED <<m_fullDuplex, attached, disturbed, scheduled>>, ~halted'
  PROVE  BusInv'
<1>1. f # NoFrame /\ f \in Frames \cup {NoFrame} /\ NoFrame \in Frames \cup {NoFrame}
  BY BusAssumption DEF Frames, NoFrame
<1>2. CASE SendDisabled(d, s, f, q)
  BY <1>1, <1>2, QuietStartInv DEF SendDisabled
<1>3. CASE BusyInFullDuplex(d, s, f, q)
  BY <1>3, BusyMeansHalfDuplex DEF BusyInFullDuplex
<1>4. CASE BackOff(d, s, f, q)
  BY <1>1, <1>4, QuietStartInv DEF BackOff
<1>5. CASE TransmitAbort(d, s, f, q)
  <2>1. CASE q = <<>>
    BY <1>1, <1>5, <2>1, QuietStartInv DEF TransmitAbort
  <2>2. CASE q # <<>>
    <3>1. Head(q) \in Frames /\ Head(q) \in Frames \cup {NoFrame} /\ Head(q) # NoFrame
      BY <2>2, TailType, BusAssumption DEF Frames, NoFrame
    <3> QED BY <1>5, <2>2, <3>1, QuietStartInv DEF TransmitAbort
  <2> QED BY <2>1, <2>2
<1>6. CASE ChannelRefuses(d, s, f, q)
  BY <1>1, <1>6, QuietStartInv DEF ChannelRefuses
<1>7. CASE Transmit(d, s, f, q)
  BY <1>7, TransmitInv
<1> QED BY <1>2, <1>3, <1>4, <1>5, <1>6, <1>7 DEF TransmitStart

-----------------------------------------------------------------------------
(* The steps. *)

(* Before the first frame. *)
LEMMA InitInv == ASSUME Init PROVE TypeOK /\ BusInv
<1>1. /\ NoFrame \in Frames \cup {NoFrame} /\ -1 \in Devices \cup {-1}
      /\ 0 \in 0 .. MaxRetries /\ 0 \in 0 .. MaxDevices /\ 0 \in 0 .. MaxFaults
      /\ \A S : <<>> \in Seq(S) /\ Len(<<>>) = 0
      /\ MaxPackets \in Nat /\ MaxSent \in Nat
  BY BusAssumption
<1>2. wire \in [0 .. 1 -> Line] /\ \A i \in 0 .. 1 : wire[i].state = "UNSET"
  BY <1>1 DEF Init, Line
<1>3. DeviceType
  BY <1>1 DEF Init, DeviceType
<1>4. OtherType
  <2>1. halted \in BOOLEAN /\ disturbed \in BOOLEAN
    BY Zenon DEF Init
  <2> QED BY <1>1, <2>1 DEF Init, OtherType
<1>5. TypeOK
  BY <1>2, <1>3, <1>4, TypeParts DEF Init
<1>6. DeviceList = {}
  BY DEF Init, DeviceList
<1>7. \A d \in Devices : DeviceOK(d)
  BY DEF Init, DeviceOK
<1>8. WireOK
  BY <1>2, <1>6 DEF Init, WireOK
<1>9. Undisturbed
  BY <1>6 DEF Init, Undisturbed
<1> QED BY <1>5, <1>7, <1>8, <1>9 DEF BusInv

(* What Attach sets: the state of the new device in full duplex, of the     *)
(* channel in half duplex.                                                  *)
LEMMA AttachFacts ==
  ASSUME TypeOK, BusInv, Attach
  PROVE  /\ attached \in Nat /\ attached \in Devices /\ attached' \in 0 .. MaxDevices
         /\ attached \notin DeviceList /\ DeviceList' = DeviceList \cup {attached}
         /\ DeviceList' \subseteq Devices
         /\ m_fullDuplex' = (m_fullDuplex /\ attached < 2)
         /\ wire' \in [0 .. 1 -> Line]
         /\ \E i \in 0 .. 1 :
              /\ (m_fullDuplex' => i = attached) /\ (~m_fullDuplex' => i = 0)
              /\ wire'[i].state = "IDLE"
              /\ \A j \in 0 .. 1 : j # i => wire'[j] = wire[j]
         /\ disturbed' = (disturbed \/ (~m_fullDuplex' /\ InUse))
         /\ missed' = [missed EXCEPT ![attached] = Carried] /\ ~halted /\ ~halted'
         /\ UNCHANGED <<active, scheduled, deviceVars, flags, received, source, transmitted, lost>>
<1>1. /\ OtherType /\ wire \in [0 .. 1 -> Line]
  BY TypeParts
<1>2. /\ attached \in 0 .. MaxDevices /\ attached < MaxDevices /\ attached' = attached + 1
      /\ attached \in Devices /\ attached' \in 0 .. MaxDevices
      /\ m_fullDuplex' = (m_fullDuplex /\ attached < 2) /\ m_fullDuplex \in BOOLEAN
  BY <1>1, BusAssumption DEF Attach, OtherType, Devices
<1> DEFINE i == IF m_fullDuplex' THEN attached ELSE 0
           r == [state |-> "IDLE", src |-> attached, frame |-> wire[i].frame]
<1>3. /\ attached \in Nat /\ i \in 0 .. 1
      /\ m_fullDuplex' => i = attached
      /\ ~m_fullDuplex' => i = 0
  <2>1. attached \in Nat
    BY <1>2, BusAssumption
  <2>2. m_fullDuplex' => m_fullDuplex /\ attached < 2
    BY <1>2, Zenon
  <2>3. (m_fullDuplex' => i = attached) /\ (~m_fullDuplex' => i = 0)
    BY Zenon
  <2>4. i \in 0 .. 1
    <3>1. CASE m_fullDuplex'
      BY <2>1, <2>2, <2>3, <3>1
    <3>2. CASE ~m_fullDuplex'
      BY <2>3, <3>2
    <3> QED BY <3>1, <3>2
  <2> QED BY <2>1, <2>3, <2>4
<1>4. wire' = [wire EXCEPT ![i] = r]
  BY DEF Attach
<1>5. r \in Line /\ r.state = "IDLE"
  <2>1. wire[i] \in Line
    BY <1>1, <1>3
  <2> QED BY <1>2, <2>1 DEF Line
<1> HIDE DEF r, i
<1>6. /\ wire' \in [0 .. 1 -> Line] /\ wire'[i].state = "IDLE"
      /\ \A j \in 0 .. 1 : j # i => wire'[j] = wire[j]
  BY <1>1, <1>3, <1>4, <1>5
<1>7. attached \notin DeviceList /\ DeviceList' = DeviceList \cup {attached}
      /\ DeviceList' \subseteq Devices
  <2>1. DeviceList' = 0 .. attached
    BY <1>2, <1>3 DEF DeviceList
  <2> QED BY <1>2, <1>3, <2>1, BusAssumption DEF DeviceList, Devices
<1>8. /\ disturbed' = (disturbed \/ (~m_fullDuplex' /\ InUse))
      /\ missed' = [missed EXCEPT ![attached] = Carried] /\ ~halted /\ ~halted'
      /\ UNCHANGED <<active, scheduled, deviceVars, flags, received, source, transmitted, lost>>
  BY DEF Attach, Runs
<1> QED BY <1>2, <1>3, <1>6, <1>7, <1>8

(* The frames that are carried are frames. *)
LEMMA CarriedType == ASSUME OtherType PROVE Carried \subseteq Frames
BY DEF OtherType, Carried

(* One more device. *)
LEMMA AttachInv == ASSUME TypeOK, BusInv, Attach PROVE TypeOK' /\ BusInv'
<1>1. /\ DeviceType /\ OtherType /\ wire \in [0 .. 1 -> Line] /\ lost \subseteq Frames
  BY TypeParts
<1>2. /\ attached \in Nat /\ attached \in Devices /\ attached' \in 0 .. MaxDevices
      /\ attached \notin DeviceList /\ DeviceList' = DeviceList \cup {attached}
      /\ DeviceList' \subseteq Devices
      /\ wire' \in [0 .. 1 -> Line]
      /\ disturbed' = (disturbed \/ (~m_fullDuplex' /\ InUse))
      /\ missed' = [missed EXCEPT ![attached] = Carried] /\ ~halted /\ ~halted'
      /\ UNCHANGED <<active, scheduled, deviceVars, flags, received, source, transmitted, lost>>
  BY AttachFacts
<1>3. m_fullDuplex' = (m_fullDuplex /\ attached < 2)
  BY AttachFacts
<1>4. PICK i \in 0 .. 1 : /\ (m_fullDuplex' => i = attached) /\ (~m_fullDuplex' => i = 0)
                          /\ wire'[i].state = "IDLE"
                          /\ \A j \in 0 .. 1 : j # i => wire'[j] = wire[j]
  BY AttachFacts
<1>5. DeviceType' /\ lost' \subseteq Frames
  BY <1>1, <1>2 DEF deviceVars, DeviceType
<1>6. m_fullDuplex' \in BOOLEAN /\ disturbed' \in BOOLEAN /\ halted' \in BOOLEAN
  <2>1. m_fullDuplex' \in BOOLEAN
    BY <1>3, Zenon
  <2>2. disturbed' \in BOOLEAN
    BY <1>2, Zenon
  <2>3. halted' \in BOOLEAN
    BY Zenon DEF Attach, Runs
  <2> QED BY <2>1, <2>2, <2>3
<1>7. missed' \in [Devices -> SUBSET Frames]
  BY <1>1, <1>2, CarriedType DEF OtherType
<1>8. OtherType'
  BY <1>1, <1>2, <1>6, <1>7 DEF OtherType, flags
<1>9. TypeOK'
  BY <1>2, <1>5, <1>8 DEF TypeOK, DeviceType, OtherType
<1>10. \A d \in Devices : DeviceOK(d)'
  BY <1>2 DEF BusInv, DeviceOK, deviceVars
<1>11. m_fullDuplex' => m_fullDuplex /\ attached < 2
  BY <1>3, Zenon
<1>12. \A d : d = attached => WireState(d)' = "IDLE"
  <2>1. \A d : WireState(d)' = IF m_fullDuplex' THEN wire'[d].state ELSE wire'[0].state
    BY DEF WireState, Index
  <2> QED BY <1>4, <2>1
<1>13. ASSUME NEW d \in DeviceList PROVE WireState(d)' = "IDLE" \/ WireState(d)' = WireState(d)
  <2>1. CASE ~m_fullDuplex'
    BY <1>4, <2>1 DEF WireState, Index
  <2>2. CASE m_fullDuplex'
    <3>1. m_fullDuplex /\ d \in 0 .. 1 /\ d # attached
      BY <1>2, <1>11, <2>2 DEF DeviceList
    <3>2. wire'[d] = wire[d]
      BY <1>4, <2>2, <3>1
    <3> QED BY <2>2, <3>1, <3>2 DEF WireState, Index
  <2> QED BY <2>1, <2>2
<1>14. WireOK'
  <2>1. m_fullDuplex' => attached' <= 2 /\ ~disturbed'
    <3>1. m_fullDuplex' => attached' <= 2
      BY <1>2, <1>11 DEF Attach
    <3>2. m_fullDuplex' => ~disturbed
      BY <1>11 DEF BusInv, WireOK
    <3> QED BY <1>2, <3>1, <3>2, Zenon
  <2>2. \A d \in DeviceList' : WireState(d)' # "UNSET"
    BY <1>2, <1>12, <1>13 DEF BusInv, WireOK
  <2>3. ASSUME NEW j \in 0 .. 1, wire'[j].state = "TRANSMITTING"
        PROVE  wire'[j].src \in Devices /\ wire'[j].frame # NoFrame
    BY <1>4, <2>3 DEF BusInv, WireOK
  <2> QED BY <1>2, <2>1, <2>2, <2>3 DEF WireOK
<1>15. ASSUME Undisturbed, ~disturbed' PROVE Undisturbed'
  <2>1. ~disturbed /\ (~m_fullDuplex' => ~InUse)
    BY <1>2, <1>15, Zenon
  <2>2. m_txMachineState'[attached] = "READY"
    BY <1>2 DEF BusInv, DeviceOK, deviceVars
  <2>3. ASSUME NEW d \in DeviceList, ~m_fullDuplex' PROVE m_txMachineState[d] # "BUSY"
    <3>1. wire[Index(d)].state # "TRANSMITTING"
      BY <1>1, <2>1, <2>3, IndexInBounds DEF InUse
    <3> QED BY <1>15, <3>1, BusyLine DEF WireState
  <2>4. ASSUME NEW d \in DeviceList', m_txMachineState'[d] = "BUSY"
        PROVE  wire'[Index(d)'] = SentBy(d)'
    <3>1. /\ d \in DeviceList /\ m_txMachineState[d] = "BUSY" /\ m_fullDuplex'
      BY <1>2, <2>2, <2>3, <2>4 DEF deviceVars
    <3>2. /\ m_fullDuplex /\ d \in 0 .. 1 /\ d # attached /\ Index(d)' = d /\ Index(d) = d
      BY <1>2, <1>11, <3>1 DEF DeviceList, Index
    <3>3. wire'[d] = wire[d] /\ wire[d] = SentBy(d)
      BY <1>4, <1>15, <3>1, <3>2, BusyLine
    <3>4. SentBy(d)' = SentBy(d)
      BY <1>2 DEF SentBy, deviceVars
    <3> QED BY <3>2, <3>3, <3>4
  <2>5. ASSUME m_fullDuplex', NEW d \in DeviceList', WireState(d)' # "IDLE"
        PROVE  m_txMachineState'[d] = "BUSY"
    <3>1. d \in DeviceList /\ WireState(d) # "IDLE" /\ m_fullDuplex
      BY <1>2, <1>11, <1>12, <1>13, <2>5
    <3> QED BY <1>2, <1>15, <3>1 DEF Undisturbed, deviceVars
  <2>6. ASSUME NEW k \in DOMAIN scheduled, scheduled[k].idle PROVE FALSE
    <3>1. ~m_fullDuplex /\ wire[0].state = "PROPAGATING"
      BY <1>15, <2>6 DEF Undisturbed
    <3>2. ~m_fullDuplex' /\ InUse
      BY <1>11, <3>1 DEF InUse
    <3> QED BY <2>1, <3>2
  <2>7. scheduled' = scheduled
    BY <1>2
  <2> QED BY <2>4, <2>5, <2>6, <2>7 DEF Undisturbed
<1> QED BY <1>2, <1>9, <1>10, <1>14, <1>15 DEF BusInv

(* The variables of the channel and of the transmitters do not change: the  *)
(* event may fail an assertion, if the channel is disturbed.                *)
LEMMA RestInv ==
  ASSUME BusInv, halted' => disturbed,
         UNCHANGED <<m_fullDuplex, attached, disturbed, wire, scheduled, m_txMachineState,
                     m_currentPkt, waiting>>
  PROVE  BusInv'
<1>1. /\ DeviceList' = DeviceList
      /\ \A d : WireState(d)' = WireState(d) /\ Index(d)' = Index(d) /\ SentBy(d)' = SentBy(d)
  BY DEF DeviceList, WireState, Index, SentBy
<1>2. \A d \in Devices : DeviceOK(d)'
  BY <1>1 DEF BusInv, DeviceOK
<1>3. WireOK'
  BY <1>1 DEF BusInv, WireOK
<1>4. Undisturbed => Undisturbed'
  BY <1>1 DEF Undisturbed
<1> QED BY <1>2, <1>3, <1>4 DEF BusInv

(* The flags of the devices. *)
LEMMA FaultInv ==
  ASSUME TypeOK, BusInv, NEW d \in DeviceList,
         DetachOrReattach(d) \/ SetSendEnable(d) \/ SetReceiveEnable(d)
  PROVE  TypeOK' /\ BusInv'
<1>1. /\ UNCHANGED <<m_fullDuplex, attached, disturbed, wire, scheduled, deviceVars,
                     receiverVars, source, transmitted, lost>>
      /\ faults < MaxFaults /\ faults' = faults + 1 /\ halted' = FALSE
  BY DEF DetachOrReattach, SetSendEnable, SetReceiveEnable, channelVars, Fault, Runs
<1>2. /\ active' \in [Devices -> BOOLEAN] /\ m_sendEnable' \in [Devices -> BOOLEAN]
      /\ m_receiveEnable' \in [Devices -> BOOLEAN]
  BY DEF DetachOrReattach, SetSendEnable, SetReceiveEnable, channelVars, TypeOK
<1>3. faults' \in 0 .. MaxFaults
  BY <1>1, BusAssumption DEF TypeOK
<1>4. DeviceType' /\ wire' \in [0 .. 1 -> Line] /\ lost' \subseteq Frames
  BY <1>1 DEF TypeOK, DeviceType, deviceVars
<1>5. OtherType'
  BY <1>1, <1>2, <1>3 DEF TypeOK, OtherType, receiverVars
<1>6. TypeOK'
  BY <1>4, <1>5 DEF TypeOK, DeviceType, OtherType
<1>7. BusInv'
  BY <1>1, RestInv DEF deviceVars
<1> QED BY <1>6, <1>7

(* An assertion of the channel fails: only when it was disturbed. *)
LEMMA AssertsInv ==
  ASSUME TypeOK, BusInv, (\E d \in DeviceList : CompleteAsserts(d)) \/ PropagationAsserts
  PROVE  TypeOK' /\ BusInv'
<1>1. /\ UNCHANGED <<m_fullDuplex, attached, active, disturbed, wire, scheduled,
                     m_txMachineState, m_currentPkt, m_queue, m_backoff, waiting,
                     m_sendEnable, m_receiveEnable, faults, missed, received, source,
                     transmitted, lost>>
      /\ halted' = TRUE
  BY DEF CompleteAsserts, PropagationAsserts, Asserts, channelVars, deviceVars, flags, receiverVars
<1>2. disturbed
  <2>1. ASSUME NEW d \in DeviceList, CompleteAsserts(d), Undisturbed PROVE FALSE
    BY <2>1, BusyLine DEF CompleteAsserts
  <2>2. ASSUME PropagationAsserts, Undisturbed PROVE FALSE
    <3>1. 1 \in DOMAIN scheduled /\ Head(scheduled) = scheduled[1]
      BY <2>2 DEF TypeOK, PropagationAsserts, CompleteIsNext
    <3> QED BY <2>2, <3>1 DEF PropagationAsserts, CompleteIsNext, Undisturbed
  <2> QED BY <2>1, <2>2 DEF BusInv
<1> QED BY <1>1, <1>2, RestInv DEF TypeOK

(* A step in which device d runs TransmitStart. *)
LEMMA StartStepInv ==
  ASSUME TypeOK, BusInv, NEW d \in DeviceList, m_txMachineState[d] # "BUSY",
         NEW s \in {"READY", "BACKOFF"}, NEW f \in Frames, NEW q \in Seq(Frames),
         Len(q) <= MaxPackets, TransmitStart(d, s, f, q), Runs,
         UNCHANGED <<m_fullDuplex, attached, disturbed, active, scheduled, flags,
                     receiverVars, transmitted>>,
         source' \in Seq(Devices), Len(source') <= MaxSent
  PROVE  TypeOK' /\ BusInv'
<1>1. DeviceType' /\ wire' \in [0 .. 1 -> Line] /\ lost' \subseteq Frames
  BY TransmitStartType
<1>2. OtherType'
  BY DEF TypeOK, OtherType, flags, receiverVars, Runs
<1>3. TypeOK'
  BY <1>1, <1>2 DEF TypeOK, DeviceType, OtherType
<1>4. BusInv'
  BY TransmitStartInv DEF Runs
<1> QED BY <1>3, <1>4

(* The number of the next frame. *)
LEMMA NextFrame ==
  ASSUME TypeOK, Len(source) < MaxSent
  PROVE  Len(source) + 1 \in Frames
<1>1. Len(source) \in Nat
  BY DEF TypeOK
<1> QED BY <1>1, BusAssumption DEF Frames

(* A device takes a frame. *)
LEMMA SendFromInv ==
  ASSUME TypeOK, BusInv, NEW d \in DeviceList, SendFrom(d)
  PROVE  TypeOK' /\ BusInv'
<1> DEFINE f == Len(source) + 1
           q == Append(m_queue[d], f)
<1>1. DeviceType /\ OtherType /\ d \in Devices /\ lost \subseteq Frames
  BY TypeParts, ListOfDevices
<1>2. f \in Frames
  BY NextFrame DEF SendFrom
<1>3. /\ source \in Seq(Devices) /\ source' = Append(source, d)
      /\ Len(source) < MaxSent
  BY <1>1 DEF SendFrom, OtherType
<1>4. source' \in Seq(Devices) /\ Len(source') = Len(source) + 1
  BY <1>1, <1>3, AppendType
<1>5. Len(source') <= MaxSent
  <2>1. Len(source) \in Nat
    BY <1>3
  <2> QED BY <1>3, <1>4, <2>1, BusAssumption
<1>6. m_queue[d] \in Seq(Frames) /\ Len(m_queue[d]) \in Nat
  BY <1>1 DEF DeviceType
<1> HIDE DEF f
<1>7. q \in Seq(Frames) /\ Len(q) = Len(m_queue[d]) + 1 /\ q # <<>>
  BY <1>2, <1>6, AppendType
<1>8. Head(q) \in Frames /\ Tail(q) \in Seq(Frames) /\ Len(Tail(q)) = Len(q) - 1
  BY <1>7, TailType
<1>9. /\ UNCHANGED <<m_fullDuplex, attached, disturbed, active, scheduled, flags,
                     receiverVars, transmitted>>
      /\ Runs
  BY DEF SendFrom
<1>10. CASE ~QueueFull(d) /\ m_txMachineState[d] = "READY"
             /\ TransmitStart(d, "READY", Head(q), Tail(q))
  <2>1. Len(Tail(q)) <= MaxPackets
    BY <1>6, <1>7, <1>8, <1>10, BusAssumption DEF QueueFull
  <2> QED BY <1>4, <1>5, <1>8, <1>9, <1>10, <2>1, StartStepInv
<1>11. ASSUME m_queue' \in [Devices -> Seq(Frames)],
              \A e \in Devices : Len(m_queue'[e]) <= MaxPackets,
              UNCHANGED <<m_txMachineState, m_currentPkt, m_backoff, waiting, wire>>,
              lost' \subseteq Frames
       PROVE  TypeOK' /\ BusInv'
  <2>1. DeviceType' /\ wire' \in [0 .. 1 -> Line]
    BY <1>1, <1>11 DEF DeviceType, TypeOK
  <2>2. OtherType'
    BY <1>1, <1>4, <1>5, <1>9 DEF OtherType, flags, receiverVars, Runs
  <2>3. TypeOK'
    BY <1>11, <2>1, <2>2 DEF TypeOK, DeviceType, OtherType
  <2>4. BusInv'
    BY <1>9, <1>11, RestInv DEF Runs
  <2> QED BY <2>3, <2>4
<1>12. CASE QueueFull(d) /\ lost' = lost \cup {f} /\ UNCHANGED <<wire, deviceVars>>
  <2>1. /\ m_queue' \in [Devices -> Seq(Frames)]
        /\ \A e \in Devices : Len(m_queue'[e]) <= MaxPackets
        /\ UNCHANGED <<m_txMachineState, m_currentPkt, m_backoff, waiting, wire>>
        /\ lost' \subseteq Frames
    BY <1>1, <1>2, <1>12 DEF deviceVars, DeviceType
  <2> QED BY <1>11, <2>1
<1>13. CASE ~QueueFull(d) /\ m_queue' = [m_queue EXCEPT ![d] = q]
             /\ UNCHANGED <<m_txMachineState, m_currentPkt, m_backoff, waiting, lost, wire>>
  <2>1. Len(q) <= MaxPackets
    BY <1>6, <1>7, <1>13, BusAssumption DEF QueueFull
  <2> HIDE DEF q
  <2>2. /\ m_queue' \in [Devices -> Seq(Frames)]
        /\ \A e \in Devices : Len(m_queue'[e]) <= MaxPackets
    BY <1>1, <1>7, <1>13, <2>1 DEF DeviceType
  <2> QED BY <1>1, <1>11, <1>13, <2>2
<1>14. \/ QueueFull(d) /\ lost' = lost \cup {f} /\ UNCHANGED <<wire, deviceVars>>
       \/ ~QueueFull(d) /\ m_txMachineState[d] = "READY"
            /\ TransmitStart(d, "READY", Head(q), Tail(q))
       \/ ~QueueFull(d) /\ m_queue' = [m_queue EXCEPT ![d] = q]
            /\ UNCHANGED <<m_txMachineState, m_currentPkt, m_backoff, waiting, lost, wire>>
  <2>1. \/ /\ QueueFull(d)
           /\ lost' = lost \cup {f}
           /\ UNCHANGED <<wire, deviceVars>>
        \/ /\ ~QueueFull(d) /\ m_txMachineState[d] = "READY"
           /\ TransmitStart(d, "READY", Head(q), Tail(q))
        \/ /\ ~QueueFull(d) /\ m_txMachineState[d] # "READY"
           /\ m_queue' = [m_queue EXCEPT ![d] = q]
           /\ UNCHANGED <<m_txMachineState, m_currentPkt, m_backoff, waiting, lost, wire>>
    BY DEF SendFrom, f, q, QueueFull, deviceVars
  <2> QED BY <2>1
<1> QED BY <1>10, <1>12, <1>13, <1>14

(* A backoff is over. *)
LEMMA BackoffOverInv ==
  ASSUME TypeOK, BusInv, NEW d \in DeviceList, BackoffOver(d)
  PROVE  TypeOK' /\ BusInv'
<1>1. DeviceType /\ OtherType /\ d \in Devices
  BY TypeParts, ListOfDevices
<1>2. m_txMachineState[d] = "BACKOFF" /\ m_currentPkt[d] # NoFrame
  BY <1>1 DEF BackoffOver, BusInv, DeviceOK
<1>3. m_currentPkt[d] \in Frames /\ m_queue[d] \in Seq(Frames) /\ Len(m_queue[d]) <= MaxPackets
  BY <1>1, <1>2 DEF DeviceType
<1>4. source' \in Seq(Devices) /\ Len(source') <= MaxSent
  BY <1>1 DEF BackoffOver, OtherType
<1> QED BY <1>2, <1>3, <1>4, StartStepInv DEF BackoffOver

(* The gap is over. *)
LEMMA TransmitReadyInv ==
  ASSUME TypeOK, BusInv, NEW d \in DeviceList, TransmitReady(d)
  PROVE  TypeOK' /\ BusInv'
<1>1. DeviceType /\ OtherType /\ d \in Devices /\ lost \subseteq Frames
      /\ wire \in [0 .. 1 -> Line] /\ DeviceList \subseteq Devices
  BY TypeParts, ListOfDevices
<1>2. m_txMachineState[d] = "GAP"
  BY DEF TransmitReady
<1>3. /\ source' \in Seq(Devices) /\ Len(source') <= MaxSent /\ Runs
      /\ UNCHANGED <<m_fullDuplex, attached, disturbed, active, scheduled, flags,
                     receiverVars, transmitted>>
  BY <1>1 DEF TransmitReady, OtherType
<1>4. m_queue[d] \in Seq(Frames) /\ Len(m_queue[d]) <= MaxPackets
  BY <1>1 DEF DeviceType
<1>5. CASE m_queue[d] # <<>>
  <2>1. /\ Head(m_queue[d]) \in Frames /\ Tail(m_queue[d]) \in Seq(Frames)
        /\ Len(Tail(m_queue[d])) = Len(m_queue[d]) - 1
    BY <1>4, <1>5, TailType
  <2>2. Len(Tail(m_queue[d])) <= MaxPackets
    BY <1>4, <2>1, BusAssumption
  <2> QED BY <1>2, <1>3, <1>5, <2>1, <2>2, StartStepInv DEF TransmitReady
<1>6. CASE m_queue[d] = <<>>
  <2>1. /\ m_txMachineState' = [m_txMachineState EXCEPT ![d] = "READY"]
        /\ UNCHANGED <<m_currentPkt, m_queue, m_backoff, waiting, lost, wire>>
    BY <1>6 DEF TransmitReady
  <2>2. DeviceType' /\ wire' \in [0 .. 1 -> Line] /\ lost' \subseteq Frames
    BY <1>1, <2>1 DEF DeviceType
  <2>3. OtherType'
    BY <1>1, <1>3 DEF OtherType, flags, receiverVars, Runs
  <2>4. TypeOK'
    BY <2>2, <2>3 DEF TypeOK, DeviceType, OtherType
  <2>5. /\ m_txMachineState'[d] = "READY"
        /\ \A e \in Devices : e # d => m_txMachineState'[e] = m_txMachineState[e]
    BY <1>1, <2>1 DEF DeviceType
  <2>6. /\ DeviceList' = DeviceList /\ wire' = wire /\ scheduled' = scheduled
        /\ \A e : WireState(e)' = WireState(e) /\ Index(e)' = Index(e) /\ SentBy(e)' = SentBy(e)
    BY <1>3, <2>1 DEF DeviceList, WireState, Index, SentBy
  <2>7. m_currentPkt[d] = NoFrame /\ ~waiting[d]
    BY <1>1, <1>2 DEF BusInv, DeviceOK
  <2>8. \A e \in Devices : DeviceOK(e)'
    BY <2>1, <2>5, <2>6, <2>7 DEF BusInv, DeviceOK
  <2>9. WireOK'
    BY <1>3, <2>6 DEF BusInv, WireOK, Runs
  <2>10. ASSUME Undisturbed PROVE Undisturbed'
    <3>1. \A e \in DeviceList : m_txMachineState'[e] = "BUSY" <=> m_txMachineState[e] = "BUSY"
      BY <1>1, <1>2, <2>5
    <3> QED BY <1>3, <2>6, <2>10, <3>1 DEF Undisturbed
  <2> QED BY <1>3, <2>4, <2>8, <2>9, <2>10 DEF BusInv
<1> QED BY <1>5, <1>6

(* What TransmitEnd schedules. *)
LEMMA EndFacts ==
  ASSUME TypeOK, BusInv, NEW d \in DeviceList, TransmitComplete(d)
  PROVE  \E f \in Frames, src \in Devices, p \in Propagating :
           /\ f = wire[Index(d)].frame /\ src = wire[Index(d)].src
           /\ p = [frame |-> f, src |-> src, to |-> Receivers(src), idle |-> ~m_fullDuplex]
           /\ p.frame = f /\ p.src = src /\ p.to = Receivers(src) /\ p.idle = ~m_fullDuplex
           /\ scheduled' = IF m_fullDuplex /\ p.to = {} THEN scheduled
                           ELSE Append(scheduled, p)
           /\ missed' = [e \in Devices |->
                IF e \in DeviceList /\ ~active[e] THEN missed[e] \cup {f} ELSE missed[e]]
           /\ transmitted' = Append(transmitted, f)
<1>1. /\ OtherType /\ d \in Devices /\ DeviceList \subseteq Devices
      /\ wire \in [0 .. 1 -> Line] /\ Index(d) \in 0 .. 1
  BY TypeParts, ListOfDevices, IndexInBounds
<1>2. wire[Index(d)].state = "TRANSMITTING"
  BY DEF TransmitComplete, WireState
<1>3. wire[Index(d)].src \in Devices /\ wire[Index(d)].frame \in Frames
  BY <1>1, <1>2 DEF BusInv, WireOK, Line
<1>4. \A x : Receivers(x) \in SUBSET Devices
  BY <1>1 DEF Receivers
<1> DEFINE f == wire[Index(d)].frame
           src == wire[Index(d)].src
           p == [frame |-> f, src |-> src, to |-> Receivers(src), idle |-> ~m_fullDuplex]
<1>5. f \in Frames /\ src \in Devices
  BY <1>3
<1>6. ASSUME NEW x, NEW y, NEW z, NEW q,
             q = [frame |-> x, src |-> y, to |-> z, idle |-> ~m_fullDuplex]
      PROVE  q.frame = x /\ q.src = y /\ q.to = z /\ q.idle = ~m_fullDuplex
  BY <1>6
<1>7. p.frame = f /\ p.src = src /\ p.to = Receivers(src) /\ p.idle = ~m_fullDuplex
  BY <1>6, Zenon
<1>8. /\ scheduled' = IF m_fullDuplex /\ Receivers(src) = {} THEN scheduled ELSE Append(scheduled, p)
      /\ missed' = [e \in Devices |->
           IF e \in DeviceList /\ ~active[e] THEN missed[e] \cup {f} ELSE missed[e]]
      /\ transmitted' = Append(transmitted, f)
  BY Zenon DEF TransmitComplete, TransmitEnd
<1>9. (~m_fullDuplex) \in BOOLEAN
  BY Zenon
<1>10. ASSUME NEW x \in Frames, NEW y \in Devices, NEW b \in BOOLEAN
       PROVE  [frame |-> x, src |-> y, to |-> Receivers(y), idle |-> b] \in Propagating
  BY <1>4 DEF Propagating
<1>11. p \in Propagating
  BY <1>5, <1>9, <1>10, Zenon
<1> QED BY <1>5, <1>7, <1>8, <1>11, Zenon

(* The frame of the transmitter goes to the channel. *)
LEMMA TransmitCompleteInv ==
  ASSUME TypeOK, BusInv, NEW d \in DeviceList, TransmitComplete(d)
  PROVE  TypeOK' /\ BusInv'
<1>1. /\ DeviceType /\ OtherType /\ d \in Devices /\ DeviceList \subseteq Devices
      /\ wire \in [0 .. 1 -> Line] /\ lost \subseteq Frames
  BY TypeParts, ListOfDevices
<1>2. m_txMachineState[d] = "BUSY" /\ WireState(d) = "TRANSMITTING" /\ Runs
  BY DEF TransmitComplete
<1>3. Index(d) \in 0 .. 1 /\ \A e \in DeviceList : Index(e) \in 0 .. 1
  BY <1>1, IndexInBounds
<1>4. /\ m_txMachineState' = [m_txMachineState EXCEPT ![d] = "GAP"]
      /\ m_currentPkt' = [m_currentPkt EXCEPT ![d] = NoFrame]
      /\ UNCHANGED <<m_fullDuplex, attached, disturbed, active, m_queue, m_backoff,
                     waiting, flags, received, source, lost>>
  BY DEF TransmitComplete
<1>5. /\ m_txMachineState'[d] = "GAP" /\ m_currentPkt'[d] = NoFrame
      /\ \A e \in Devices : e # d => /\ m_txMachineState'[e] = m_txMachineState[e]
                                      /\ m_currentPkt'[e] = m_currentPkt[e]
  BY <1>1, <1>4 DEF DeviceType
<1>6. /\ wire' = [wire EXCEPT ![Index(d)].state = StateAfterTransmit]
      /\ StateAfterTransmit \in {"IDLE", "PROPAGATING"}
  BY DEF TransmitComplete, TransmitEnd, StateAfterTransmit
<1>7. /\ wire' \in [0 .. 1 -> Line] /\ wire'[Index(d)].state = StateAfterTransmit
      /\ \A i \in 0 .. 1 : i # Index(d) => wire'[i] = wire[i]
  BY <1>1, <1>3, <1>6 DEF Line
<1>8. PICK f \in Frames, p \in Propagating :
        /\ p.idle = ~m_fullDuplex
        /\ scheduled' = IF m_fullDuplex /\ p.to = {} THEN scheduled ELSE Append(scheduled, p)
        /\ missed' = [e \in Devices |->
             IF e \in DeviceList /\ ~active[e] THEN missed[e] \cup {f} ELSE missed[e]]
        /\ transmitted' = Append(transmitted, f)
  BY EndFacts, Zenon
<1>9. scheduled \in Seq(Propagating) /\ scheduled' \in Seq(Propagating)
  BY <1>1, <1>8, AppendType DEF OtherType
<1>10. transmitted' \in Seq(Frames)
  BY <1>1, <1>8, AppendType DEF OtherType
<1>11. missed' \in [Devices -> SUBSET Frames]
  BY <1>1, <1>8 DEF OtherType
<1>12. DeviceType' /\ lost' \subseteq Frames
  <2>1. /\ m_txMachineState' \in [Devices -> {"READY", "BUSY", "GAP", "BACKOFF"}]
        /\ m_currentPkt' \in [Devices -> Frames \cup {NoFrame}]
    BY <1>1, <1>4 DEF DeviceType
  <2> QED BY <1>1, <1>4, <2>1 DEF DeviceType
<1>13. OtherType'
  BY <1>1, <1>2, <1>4, <1>9, <1>10, <1>11 DEF OtherType, flags, Runs
<1>14. TypeOK'
  BY <1>7, <1>12, <1>13 DEF TypeOK, DeviceType, OtherType
<1>15. /\ DeviceList' = DeviceList /\ m_fullDuplex' = m_fullDuplex /\ disturbed' = disturbed
       /\ \A e \in DeviceList : Index(e)' = Index(e)
  BY <1>4 DEF DeviceList, Index
<1>16. ASSUME NEW e \in Devices PROVE DeviceOK(e)'
  <2>1. CASE e = d
    <3>1. ~waiting'[d]
      BY <1>1, <1>2, <1>4 DEF BusInv, DeviceOK
    <3> QED BY <1>5, <1>15, <2>1, <3>1 DEF DeviceOK
  <2>2. CASE e # d
    BY <1>4, <1>5, <1>15, <2>2 DEF BusInv, DeviceOK
  <2> QED BY <2>1, <2>2
<1>17. ASSUME NEW e \in DeviceList
       PROVE  /\ Index(e) = Index(d) => WireState(e)' = StateAfterTransmit
              /\ Index(e) # Index(d) => WireState(e)' = WireState(e)
  <2>1. WireState(e)' = wire'[Index(e)].state
    BY <1>15 DEF WireState
  <2> QED BY <1>3, <1>7, <2>1 DEF WireState
<1>18. WireOK'
  <2>1. \A e \in DeviceList' : WireState(e)' # "UNSET"
    BY <1>6, <1>15, <1>17 DEF BusInv, WireOK
  <2>2. ASSUME NEW i \in 0 .. 1, wire'[i].state = "TRANSMITTING"
        PROVE  wire'[i].src \in Devices /\ wire'[i].frame # NoFrame
    BY <1>6, <1>7, <2>2 DEF BusInv, WireOK
  <2> QED BY <1>2, <1>4, <1>15, <2>1, <2>2 DEF BusInv, WireOK, Runs
<1>19. ASSUME Undisturbed, NEW e \in DeviceList, e # d, m_txMachineState'[e] = "BUSY"
       PROVE  m_fullDuplex /\ wire'[Index(e)'] = SentBy(e)'
  <2>1. m_txMachineState[e] = "BUSY" /\ SentBy(e)' = SentBy(e)
    BY <1>1, <1>5, <1>19 DEF SentBy
  <2>2. wire[Index(e)].src = e /\ wire[Index(d)].src = d
    BY <1>2, <1>19, <2>1, BusyLine
  <2>3. Index(e) # Index(d)
    BY <1>19, <2>2
  <2>4. m_fullDuplex
    BY <2>3 DEF Index
  <2>5. wire'[Index(e)] = wire[Index(e)]
    BY <1>3, <1>7, <2>3
  <2> QED BY <1>15, <1>19, <2>1, <2>4, <2>5, BusyLine
<1>20. ASSUME Undisturbed, m_fullDuplex PROVE Undisturbed'
  <2>1. StateAfterTransmit = "IDLE"
    BY <1>20 DEF StateAfterTransmit
  <2>2. ASSUME NEW e \in DeviceList, WireState(e)' # "IDLE" PROVE m_txMachineState'[e] = "BUSY"
    <3>1. Index(e) # Index(d)
      BY <1>17, <2>1, <2>2
    <3>2. m_txMachineState[e] = "BUSY" /\ e # d
      BY <1>17, <1>20, <2>2, <3>1 DEF Undisturbed
    <3> QED BY <1>1, <1>5, <3>2
  <2>3. \A k \in DOMAIN scheduled' : ~scheduled'[k].idle
    <3>1. \A k \in DOMAIN scheduled : ~scheduled[k].idle
      BY <1>20 DEF Undisturbed
    <3>2. ~p.idle
      BY <1>8, <1>20
    <3> QED BY <1>8, <1>9, <3>1, <3>2
  <2> QED BY <1>5, <1>15, <1>19, <1>20, <2>2, <2>3 DEF Undisturbed
<1>21. ASSUME Undisturbed, ~m_fullDuplex PROVE Undisturbed'
  <2>1. StateAfterTransmit = "PROPAGATING" /\ Index(d) = 0
    BY <1>21 DEF StateAfterTransmit, Index
  <2>2. wire'[0].state = "PROPAGATING"
    BY <1>7, <2>1
  <2>3. \A k \in DOMAIN scheduled : ~scheduled[k].idle
    <3>1. wire[0].state = "TRANSMITTING"
      BY <1>2, <2>1 DEF WireState
    <3> QED BY <1>21, <3>1 DEF Undisturbed
  <2>4. \A k \in DOMAIN scheduled' : scheduled'[k].idle => k = Len(scheduled) + 1
    <3>1. scheduled' = Append(scheduled, p)
      BY <1>8, <1>21
    <3> QED BY <1>9, <2>3, <3>1
  <2> QED BY <1>5, <1>15, <1>19, <1>21, <2>2, <2>4 DEF Undisturbed
<1> QED BY <1>14, <1>15, <1>16, <1>18, <1>20, <1>21 DEF BusInv

(* The events q when the first frame is heard by d. *)
HeardBy(q, d) == [q EXCEPT ![1].to = @ \ {d}]

(* A frame that propagates is heard by one more device. *)
LEMMA HeardType ==
  ASSUME NEW q \in Seq(Propagating), q # <<>>, NEW d, NEW r, r = HeardBy(q, d)
  PROVE  /\ r \in Seq(Propagating) /\ Len(r) = Len(q) /\ 1 \in DOMAIN q
         /\ r[1].frame = q[1].frame /\ r[1].src = q[1].src /\ r[1].idle = q[1].idle
         /\ r[1].to = q[1].to \ {d}
         /\ \A k \in DOMAIN q : k # 1 => r[k] = q[k]
<1> DEFINE p == [q[1] EXCEPT !.to = q[1].to \ {d}]
<1>1. Len(q) \in Nat /\ Len(q) >= 1 /\ q[1] \in Propagating
  OBVIOUS
<1>2. /\ p \in Propagating /\ p.frame = q[1].frame /\ p.src = q[1].src
      /\ p.idle = q[1].idle /\ p.to = q[1].to \ {d}
  BY <1>1 DEF Propagating
<1>3. r = [q EXCEPT ![1] = p]
  BY Zenon DEF HeardBy
<1> HIDE DEF p
<1>4. /\ r \in Seq(Propagating) /\ Len(r) = Len(q)
      /\ \A k \in DOMAIN q : k # 1 => r[k] = q[k]
  <2>1. [q EXCEPT ![1] = p] \in Seq(Propagating) /\ Len([q EXCEPT ![1] = p]) = Len(q)
    BY <1>1, <1>2
  <2>2. \A k \in DOMAIN q : k # 1 => [q EXCEPT ![1] = p][k] = q[k]
    BY <1>1, <1>2
  <2> QED BY <1>3, <2>1, <2>2, Zenon
<1>5. 1 \in DOMAIN q /\ r[1] = p
  <2>1. [q EXCEPT ![1] = p][1] = p /\ 1 \in DOMAIN q
    BY <1>1, <1>2
  <2> QED BY <1>3, <2>1, Zenon
<1> QED BY <1>2, <1>4, <1>5, Zenon

(* A device receives. *)
LEMMA ReceiveInv ==
  ASSUME TypeOK, BusInv, NEW d \in DeviceList, Receive(d)
  PROVE  TypeOK' /\ BusInv'
<1>1. DeviceType /\ OtherType /\ d \in Devices
  BY TypeParts, ListOfDevices
<1>2. /\ scheduled # <<>> /\ Hear(d, Head(scheduled)) /\ halted' = FALSE
      /\ UNCHANGED <<m_fullDuplex, attached, disturbed, active, wire, deviceVars, flags,
                     source, transmitted, lost>>
      /\ scheduled' = IF ~Head(scheduled).idle /\ Head(scheduled).to = {d} THEN Tail(scheduled)
                      ELSE [scheduled EXCEPT ![1].to = @ \ {d}]
  BY DEF Receive, Runs
<1>3. scheduled \in Seq(Propagating) /\ Head(scheduled).frame \in Frames
  <2>1. Head(scheduled) \in Propagating
    BY <1>1, <1>2, TailType DEF OtherType
  <2> QED BY <1>1, <2>1 DEF OtherType, Propagating
(* Each event of the list was one of the list before, with the same flag.   *)
<1>4. /\ scheduled' \in Seq(Propagating)
      /\ \E n \in {0, 1} : \A k \in DOMAIN scheduled' :
           k + n \in DOMAIN scheduled /\ scheduled'[k].idle = scheduled[k + n].idle
  <2>1. CASE ~Head(scheduled).idle /\ Head(scheduled).to = {d}
    <3>1. scheduled' = Tail(scheduled)
      BY <1>2, <2>1
    <3>2. /\ scheduled' \in Seq(Propagating)
          /\ \A k \in DOMAIN scheduled' :
               k + 1 \in DOMAIN scheduled /\ scheduled'[k] = scheduled[k + 1]
      BY <1>2, <1>3, <3>1
    <3> QED BY <3>2
  <2>2. CASE ~(~Head(scheduled).idle /\ Head(scheduled).to = {d})
    <3>1. scheduled' = HeardBy(scheduled, d)
      BY <1>2, <2>2, Zenon DEF HeardBy
    <3>2. /\ scheduled' \in Seq(Propagating) /\ Len(scheduled') = Len(scheduled)
          /\ scheduled'[1].idle = scheduled[1].idle
          /\ \A k \in DOMAIN scheduled : k # 1 => scheduled'[k] = scheduled[k]
      <4>1. scheduled # <<>>
        BY <1>2
      <4> QED BY <1>3, <3>1, <4>1, HeardType
    <3>3. DOMAIN scheduled' = DOMAIN scheduled /\ \A k \in DOMAIN scheduled : k + 0 = k
      BY <1>3, <3>2
    <3> QED BY <3>2, <3>3
  <2> QED BY <2>1, <2>2
<1>5. missed' \in [Devices -> SUBSET Frames] /\ received' \in [Devices -> Seq(Frames)]
  <2>1. missed \in [Devices -> SUBSET Frames] /\ received \in [Devices -> Seq(Frames)]
    BY <1>1 DEF OtherType
  <2>2. Append(received[d], Head(scheduled).frame) \in Seq(Frames)
    BY <1>1, <1>3, <2>1, AppendType
  <2> QED BY <1>1, <1>2, <1>3, <2>1, <2>2 DEF Hear, receiverVars
<1>6. DeviceType' /\ wire' \in [0 .. 1 -> Line] /\ lost' \subseteq Frames
  BY <1>1, <1>2 DEF TypeOK, DeviceType, deviceVars
<1>7. OtherType'
  BY <1>1, <1>2, <1>4, <1>5 DEF OtherType, flags
<1>8. TypeOK'
  BY <1>6, <1>7 DEF TypeOK, DeviceType, OtherType
<1>9. /\ DeviceList' = DeviceList
      /\ \A e : WireState(e)' = WireState(e) /\ Index(e)' = Index(e) /\ SentBy(e)' = SentBy(e)
  BY <1>2 DEF DeviceList, WireState, Index, SentBy, deviceVars
<1>10. (\A e \in Devices : DeviceOK(e)') /\ WireOK'
  BY <1>2, <1>9 DEF BusInv, DeviceOK, WireOK, deviceVars
<1>11. ASSUME Undisturbed PROVE Undisturbed'
  <2>1. /\ \A k \in DOMAIN scheduled' : scheduled'[k].idle =>
             ~m_fullDuplex /\ wire[0].state = "PROPAGATING"
        /\ \A k, l \in DOMAIN scheduled' : scheduled'[k].idle /\ scheduled'[l].idle => k = l
    <3>1. PICK n \in {0, 1} : \A k \in DOMAIN scheduled' :
            k + n \in DOMAIN scheduled /\ scheduled'[k].idle = scheduled[k + n].idle
      BY <1>4
    <3>2. \A k, l \in DOMAIN scheduled' : k + n = l + n => k = l
      BY <1>4
    <3> QED BY <1>11, <3>1, <3>2, Zenon DEF Undisturbed
  <2> QED BY <1>2, <1>9, <1>11, <2>1 DEF Undisturbed, deviceVars
<1> QED BY <1>2, <1>8, <1>10, <1>11 DEF BusInv

(* A frame has propagated. *)
LEMMA PropagationCompleteInv ==
  ASSUME TypeOK, BusInv, PropagationComplete
  PROVE  TypeOK' /\ BusInv'
<1>1. DeviceType /\ OtherType /\ wire \in [0 .. 1 -> Line]
  BY TypeParts
<1>2. /\ scheduled # <<>> /\ Head(scheduled).idle /\ scheduled' = Tail(scheduled)
      /\ wire[0].state = "PROPAGATING" /\ wire' = [wire EXCEPT ![0].state = "IDLE"]
      /\ halted' = FALSE
      /\ UNCHANGED <<m_fullDuplex, attached, disturbed, active, deviceVars, flags,
                     receiverVars, source, transmitted, lost>>
  BY DEF PropagationComplete, CompleteIsNext, Runs
<1>3. /\ wire' \in [0 .. 1 -> Line] /\ wire'[0].state = "IDLE" /\ wire'[1] = wire[1]
  <2>1. 0 \in 0 .. 1 /\ 1 \in 0 .. 1
    OBVIOUS
  <2> QED BY <1>1, <1>2, <2>1 DEF Line
<1>4. /\ scheduled' \in Seq(Propagating) /\ 1 \in DOMAIN scheduled /\ scheduled[1].idle
      /\ \A k \in DOMAIN scheduled' :
           k + 1 \in DOMAIN scheduled /\ k + 1 # 1 /\ scheduled'[k] = scheduled[k + 1]
  BY <1>1, <1>2 DEF OtherType
<1>5. DeviceType' /\ lost' \subseteq Frames
  BY <1>1, <1>2 DEF TypeOK, DeviceType, deviceVars
<1>6. OtherType'
  BY <1>1, <1>2, <1>4 DEF OtherType, flags, receiverVars
<1>7. TypeOK'
  BY <1>3, <1>5, <1>6 DEF TypeOK, DeviceType, OtherType
<1>8. /\ DeviceList' = DeviceList /\ \A e : Index(e)' = Index(e)
      /\ \A e \in DeviceList : Index(e) \in 0 .. 1
  BY <1>1, <1>2, IndexInBounds DEF DeviceList, Index
<1>9. ASSUME NEW e \in DeviceList
      PROVE  WireState(e)' = IF Index(e) = 0 THEN "IDLE" ELSE WireState(e)
  <2>1. WireState(e)' = wire'[Index(e)].state
    BY <1>8 DEF WireState
  <2>2. Index(e) = 0 \/ Index(e) = 1
    BY <1>8
  <2> QED BY <1>3, <2>1, <2>2 DEF WireState
<1>10. \A e \in Devices : DeviceOK(e)'
  BY <1>2, <1>8 DEF BusInv, DeviceOK, deviceVars
<1>11. WireOK'
  <2>1. \A e \in DeviceList' : WireState(e)' # "UNSET"
    BY <1>8, <1>9 DEF BusInv, WireOK
  <2>2. ASSUME NEW i \in 0 .. 1, wire'[i].state = "TRANSMITTING"
        PROVE  wire'[i].src \in Devices /\ wire'[i].frame # NoFrame
    <3>1. i = 1
      BY <1>3, <2>2
    <3> QED BY <1>3, <2>2, <3>1 DEF BusInv, WireOK
  <2> QED BY <1>2, <2>1, <2>2 DEF BusInv, WireOK
<1>12. ASSUME Undisturbed PROVE Undisturbed'
  <2>1. ~m_fullDuplex
    BY <1>4, <1>12 DEF Undisturbed
  <2>2. \A e \in DeviceList : m_txMachineState[e] # "BUSY"
    BY <1>2, <1>12, <2>1, HalfDuplexFacts
  <2>3. \A k \in DOMAIN scheduled' : ~scheduled'[k].idle
    BY <1>4, <1>12 DEF Undisturbed
  <2> QED BY <1>2, <1>8, <2>1, <2>2, <2>3 DEF Undisturbed, deviceVars
<1> QED BY <1>2, <1>7, <1>10, <1>11, <1>12 DEF BusInv

(* Every step. *)
LEMMA StepInv ==
  ASSUME TypeOK, BusInv, [Next]_vars PROVE TypeOK' /\ BusInv'
<1>1. CASE Attach
  BY <1>1, AttachInv
<1>2. ASSUME NEW d \in DeviceList, DetachOrReattach(d) \/ SetSendEnable(d) \/ SetReceiveEnable(d)
      PROVE  TypeOK' /\ BusInv'
  BY <1>2, FaultInv
<1>3. ASSUME NEW d \in DeviceList, SendFrom(d) PROVE TypeOK' /\ BusInv'
  BY <1>3, SendFromInv
<1>4. ASSUME NEW d \in DeviceList, BackoffOver(d) PROVE TypeOK' /\ BusInv'
  BY <1>4, BackoffOverInv
<1>5. ASSUME NEW d \in DeviceList, TransmitComplete(d) PROVE TypeOK' /\ BusInv'
  BY <1>5, TransmitCompleteInv
<1>6. ASSUME NEW d \in DeviceList, TransmitReady(d) PROVE TypeOK' /\ BusInv'
  BY <1>6, TransmitReadyInv
<1>7. ASSUME NEW d \in DeviceList, Receive(d) PROVE TypeOK' /\ BusInv'
  BY <1>7, ReceiveInv
<1>8. CASE PropagationComplete
  BY <1>8, PropagationCompleteInv
<1>9. CASE (\E d \in DeviceList : CompleteAsserts(d)) \/ PropagationAsserts
  BY <1>9, AssertsInv
<1>10. CASE UNCHANGED vars
  <2>1. UNCHANGED <<m_fullDuplex, attached, disturbed, active, wire, scheduled,
                    m_txMachineState, m_currentPkt, m_queue, m_backoff, waiting,
                    m_sendEnable, m_receiveEnable, faults, missed, received, source,
                    transmitted, lost, halted>>
    BY <1>10 DEF vars, channelVars, deviceVars, flags, receiverVars
  <2>2. TypeOK'
    BY <2>1 DEF TypeOK
  <2>3. halted' => disturbed
    BY <2>1 DEF BusInv, WireOK
  <2> QED BY <2>1, <2>2, <2>3, RestInv
<1> QED BY <1>1, <1>2, <1>3, <1>4, <1>5, <1>6, <1>7, <1>8, <1>9, <1>10 DEF Next

-----------------------------------------------------------------------------
(* The theorems. *)

(* The inductive invariant. *)
LEMMA InvCorrect == Spec => [](TypeOK /\ BusInv)
<1>1. Init => TypeOK /\ BusInv
  BY InitInv
<1>2. TypeOK /\ BusInv /\ [Next]_vars => (TypeOK /\ BusInv)'
  BY StepInv
<1> QED BY <1>1, <1>2, PTL DEF Spec

(* Every variable keeps its type, and no queue outgrows its capacity.       *)
THEOREM TypeCorrect == Spec => []TypeOK
BY InvCorrect, PTL

(* The assertions of a device hold when its events run, and the arrays of   *)
(* the channel are indexed within their two elements; those on the state of *)
(* the channel fail only after a device was attached in half duplex while a *)
(* frame was on the channel (csma-channel.cc:97 makes the channel IDLE).    *)
THEOREM AssertionsCorrect == Spec => []AssertionsHold
<1>1. ASSUME TypeOK, BusInv PROVE AssertionsHold
  <2>1. DeviceList \subseteq Devices
    BY <1>1, TypeParts, ListOfDevices
  <2>2. ASSUME NEW d \in DeviceList
        PROVE  /\ WireState(d) # "UNSET"
               /\ m_txMachineState[d] = "BUSY" => m_currentPkt[d] # NoFrame
               /\ m_txMachineState[d] \in {"READY", "GAP"} => m_currentPkt[d] = NoFrame
               /\ waiting[d] => m_txMachineState[d] = "BACKOFF" /\ m_currentPkt[d] # NoFrame
    BY <1>1, <2>1 DEF BusInv, DeviceOK, WireOK
  <2>3. ASSUME ~disturbed
        PROVE  /\ \A d \in DeviceList : m_txMachineState[d] = "BUSY" => wire[Index(d)] = SentBy(d)
               /\ \A k \in DOMAIN scheduled : scheduled[k].idle =>
                    ~m_fullDuplex /\ wire[0].state = "PROPAGATING"
    BY <1>1, <2>3 DEF BusInv, Undisturbed
  <2>4. m_fullDuplex => attached <= 2
    BY <1>1 DEF BusInv, WireOK
  <2>5. halted => disturbed
    BY <1>1 DEF BusInv, WireOK
  <2> QED BY <2>2, <2>3, <2>4, <2>5, Zenon DEF AssertionsHold, SentBy
<1> QED BY <1>1, InvCorrect, PTL

(* In half duplex a device transmits alone, on a channel that is empty, if  *)
(* no device was attached while a frame was on the channel.                 *)
THEOREM OneFrameAtATimeCorrect == Spec => []OneFrameAtATime
<1>1. ASSUME BusInv PROVE OneFrameAtATime
  <2> SUFFICES ASSUME ~m_fullDuplex, ~disturbed, NEW d \in DeviceList, NEW e \in DeviceList,
                      m_txMachineState[d] = "BUSY"
               PROVE  /\ m_txMachineState[e] = "BUSY" => d = e
                      /\ \A k \in DOMAIN scheduled : ~scheduled[k].idle
    BY DEF OneFrameAtATime
  <2>1. Undisturbed
    BY <1>1 DEF BusInv
  <2>2. ASSUME NEW c \in DeviceList, m_txMachineState[c] = "BUSY"
        PROVE  wire[0].state = "TRANSMITTING" /\ wire[0].src = c
    <3>1. Index(c) = 0
      BY HalfDuplexFacts
    <3>2. wire[Index(c)].src = c /\ WireState(c) = "TRANSMITTING"
      BY <2>1, <2>2, BusyLine
    <3> QED BY <3>1, <3>2 DEF WireState
  <2>3. m_txMachineState[e] = "BUSY" => d = e
    <3>1. wire[0].src = d
      BY <2>2
    <3>2. m_txMachineState[e] = "BUSY" => wire[0].src = e
      BY <2>2
    <3> QED BY <3>1, <3>2
  <2>4. wire[0].state = "TRANSMITTING"
    BY <2>2
  <2>5. \A k \in DOMAIN scheduled : ~scheduled[k].idle
    BY <2>1, <2>4, HalfDuplexFacts
  <2> QED BY <2>3, <2>5
<1> QED BY <1>1, InvCorrect, PTL

-----------------------------------------------------------------------------
(* What gets a device stuck. *)

(* A device whose transmitter does not change.                              *)
LEMMA SameTransmitter ==
  ASSUME NEW d, m_txMachineState'[d] = m_txMachineState[d], m_queue'[d] = m_queue[d],
         waiting'[d] = waiting[d]
  PROVE  Stuck(d)' <=> Stuck(d)
BY DEF Stuck, HasEvent

(* TransmitStart leaves an event behind, unless the device is cut off.      *)
LEMMA StartLeavesAnEvent ==
  ASSUME DeviceType, BusInv, NEW d \in DeviceList, d \in Devices,
         m_txMachineState[d] # "BUSY", NEW s, NEW f, NEW q, TransmitStart(d, s, f, q),
         m_sendEnable[d], active[d]
  PROVE  ~Stuck(d)'
<1>1. CASE BusyInFullDuplex(d, s, f, q)
  BY <1>1, BusyMeansHalfDuplex DEF BusyInFullDuplex
<1>2. CASE BackOff(d, s, f, q)
  <2>1. Leave(d, "BACKOFF", f, q, m_backoff[d] + 1, TRUE)
    BY <1>2 DEF BackOff
  <2>2. waiting'[d]
    BY <2>1, LeaveFields
  <2> QED BY <2>2 DEF Stuck, HasEvent
<1>3. CASE TransmitAbort(d, s, f, q)
  <2>1. CASE q = <<>>
    <3>1. Leave(d, "READY", NoFrame, q, 0, FALSE)
      BY <1>3, <2>1 DEF TransmitAbort
    <3>2. m_txMachineState'[d] = "READY" /\ m_queue'[d] = <<>>
      BY <2>1, <3>1, LeaveFields
    <3> QED BY <3>2 DEF Stuck
  <2>2. CASE q # <<>>
    <3>1. Leave(d, "BACKOFF", Head(q), Tail(q), 1, TRUE)
      BY <1>3, <2>2 DEF TransmitAbort
    <3>2. waiting'[d]
      BY <3>1, LeaveFields
    <3> QED BY <3>2 DEF Stuck, HasEvent
  <2> QED BY <2>1, <2>2
<1>4. CASE Transmit(d, s, f, q)
  <2>1. Leave(d, "BUSY", f, q, 0, FALSE)
    BY <1>4 DEF Transmit
  <2>2. m_txMachineState'[d] = "BUSY"
    BY <2>1, LeaveFields
  <2> QED BY <2>2 DEF Stuck, HasEvent
<1> QED BY <1>1, <1>2, <1>3, <1>4 DEF TransmitStart, SendDisabled, ChannelRefuses

(* The other devices do not notice.                                         *)
LEMMA StartLeavesOthers ==
  ASSUME DeviceType, NEW d \in Devices, NEW s, NEW f, NEW q, TransmitStart(d, s, f, q),
         NEW e \in Devices, e # d
  PROVE  /\ m_txMachineState'[e] = m_txMachineState[e] /\ m_queue'[e] = m_queue[e]
         /\ waiting'[e] = waiting[e]
<1>1. PICK t, g, p, r, again : Leave(d, t, g, p, r, again)
  BY Zenon DEF TransmitStart, SendDisabled, BusyInFullDuplex, BackOff, TransmitAbort,
               ChannelRefuses, Transmit
<1> QED BY <1>1, LeaveFields

(* The step of one device leaves another as it is.                          *)
LEMMA DeviceStepLeavesOthers ==
  ASSUME TypeOK, BusInv, NEW d \in DeviceList,
         SendFrom(d) \/ BackoffOver(d) \/ TransmitComplete(d) \/ TransmitReady(d),
         NEW e \in DeviceList, e # d
  PROVE  Stuck(e)' <=> Stuck(e)
<1>1. DeviceType /\ d \in Devices /\ e \in Devices
  BY TypeParts, ListOfDevices
<1>2. ASSUME NEW s, NEW f, NEW q, TransmitStart(d, s, f, q) PROVE Stuck(e)' <=> Stuck(e)
  BY <1>1, <1>2, StartLeavesOthers, SameTransmitter
<1>3. CASE SendFrom(d)
  <2> DEFINE q == Append(m_queue[d], Len(source) + 1)
  <2>1. \/ UNCHANGED deviceVars
        \/ TransmitStart(d, "READY", Head(q), Tail(q))
        \/ /\ m_queue' = [m_queue EXCEPT ![d] = q]
           /\ UNCHANGED <<m_txMachineState, waiting>>
    BY <1>3, Zenon DEF SendFrom, q
  <2> HIDE DEF q
  <2>2. CASE UNCHANGED deviceVars
    BY <2>2, SameTransmitter DEF deviceVars
  <2>3. CASE m_queue' = [m_queue EXCEPT ![d] = q] /\ UNCHANGED <<m_txMachineState, waiting>>
    <3>1. m_queue'[e] = m_queue[e]
      BY <1>1, <2>3 DEF DeviceType
    <3> QED BY <2>3, <3>1, SameTransmitter
  <2> QED BY <1>2, <2>1, <2>2, <2>3
<1>4. CASE BackoffOver(d)
  BY <1>2, <1>4 DEF BackoffOver
<1>5. CASE TransmitComplete(d)
  <2>1. m_txMachineState'[e] = m_txMachineState[e] /\ UNCHANGED <<m_queue, waiting>>
    BY <1>1, <1>5 DEF TransmitComplete, DeviceType
  <2> QED BY <2>1, SameTransmitter
<1>6. CASE TransmitReady(d)
  <2>1. CASE m_queue[d] = <<>>
    <3>1. m_txMachineState'[e] = m_txMachineState[e] /\ UNCHANGED <<m_queue, waiting>>
      BY <1>1, <1>6, <2>1 DEF TransmitReady, DeviceType
    <3> QED BY <3>1, SameTransmitter
  <2>2. CASE m_queue[d] # <<>>
    BY <1>2, <1>6, <2>2 DEF TransmitReady
  <2> QED BY <2>1, <2>2
<1> QED BY <1>3, <1>4, <1>5, <1>6

(* The step of a device that is not cut off does not get it stuck.          *)
LEMMA DeviceStepNotStuck ==
  ASSUME TypeOK, BusInv, NEW d \in DeviceList,
         SendFrom(d) \/ BackoffOver(d) \/ TransmitComplete(d) \/ TransmitReady(d),
         m_sendEnable[d], active[d], ~Stuck(d)
  PROVE  ~Stuck(d)'
<1>1. DeviceType /\ d \in Devices
  BY TypeParts, ListOfDevices
<1>2. ASSUME m_txMachineState[d] # "BUSY", NEW s, NEW f, NEW q, TransmitStart(d, s, f, q)
      PROVE  ~Stuck(d)'
  BY <1>1, <1>2, StartLeavesAnEvent
<1>3. CASE SendFrom(d)
  <2> DEFINE q == Append(m_queue[d], Len(source) + 1)
  <2>1. \/ UNCHANGED deviceVars
        \/ /\ m_txMachineState[d] = "READY"
           /\ TransmitStart(d, "READY", Head(q), Tail(q))
        \/ /\ m_txMachineState[d] # "READY"
           /\ UNCHANGED <<m_txMachineState, waiting>>
    BY <1>3, Zenon DEF SendFrom, q
  <2> HIDE DEF q
  <2>2. CASE UNCHANGED deviceVars
    BY <2>2, SameTransmitter DEF deviceVars
  <2>3. CASE m_txMachineState[d] # "READY" /\ UNCHANGED <<m_txMachineState, waiting>>
    BY <2>3 DEF Stuck, HasEvent
  <2> QED BY <1>2, <2>1, <2>2, <2>3
<1>4. CASE BackoffOver(d)
  <2>1. m_txMachineState[d] = "BACKOFF"
    BY <1>1, <1>4 DEF BackoffOver, BusInv, DeviceOK
  <2> QED BY <1>2, <1>4, <2>1 DEF BackoffOver
<1>5. CASE TransmitComplete(d)
  <2>1. m_txMachineState'[d] = "GAP"
    BY <1>1, <1>5 DEF TransmitComplete, DeviceType
  <2> QED BY <2>1 DEF Stuck, HasEvent
<1>6. CASE TransmitReady(d)
  <2>1. CASE m_queue[d] = <<>>
    <3>1. m_txMachineState'[d] = "READY" /\ m_queue'[d] = <<>>
      BY <1>1, <1>6, <2>1 DEF TransmitReady, DeviceType
    <3> QED BY <3>1 DEF Stuck
  <2>2. CASE m_queue[d] # <<>>
    BY <1>2, <1>6, <2>2 DEF TransmitReady
  <2> QED BY <2>1, <2>2
<1> QED BY <1>3, <1>4, <1>5, <1>6

(* Congestion never leaves a device without an event that will take its     *)
(* frames further: a device that gets stuck is switched off or detached.    *)
THEOREM StuckOnlyWhenCutOffCorrect == Spec => StuckOnlyWhenCutOff
<1> DEFINE Fine == \A d \in DeviceList : Stuck(d)' /\ ~Stuck(d) => ~m_sendEnable[d] \/ ~active[d]
<1>1. ASSUME TypeOK, BusInv, Next PROVE Fine
  <2> SUFFICES ASSUME NEW e \in DeviceList, ~Stuck(e), m_sendEnable[e], active[e]
               PROVE  ~Stuck(e)'
    BY Zenon
  <2>1. ASSUME UNCHANGED deviceVars PROVE ~Stuck(e)'
    BY <2>1, SameTransmitter DEF deviceVars
  <2>2. ASSUME NEW d \in DeviceList,
               SendFrom(d) \/ BackoffOver(d) \/ TransmitComplete(d) \/ TransmitReady(d)
        PROVE  ~Stuck(e)'
    <3>1. CASE e = d
      BY <1>1, <2>2, <3>1, DeviceStepNotStuck
    <3>2. CASE e # d
      BY <1>1, <2>2, <3>2, DeviceStepLeavesOthers
    <3> QED BY <3>1, <3>2
  <2>3. CASE Attach
    BY <2>1, <2>3 DEF Attach
  <2>4. ASSUME NEW d \in DeviceList, DetachOrReattach(d) \/ SetSendEnable(d) \/ SetReceiveEnable(d)
        PROVE  ~Stuck(e)'
    BY <2>1, <2>4 DEF DetachOrReattach, SetSendEnable, SetReceiveEnable
  <2>5. ASSUME NEW d \in DeviceList, Receive(d) PROVE ~Stuck(e)'
    BY <2>1, <2>5 DEF Receive
  <2>6. CASE PropagationComplete
    BY <2>1, <2>6 DEF PropagationComplete
  <2>7. CASE (\E d \in DeviceList : CompleteAsserts(d)) \/ PropagationAsserts
    BY <2>1, <2>7 DEF CompleteAsserts, PropagationAsserts, Asserts
  <2> QED BY <1>1, <2>2, <2>3, <2>4, <2>5, <2>6, <2>7 DEF Next
<1> HIDE DEF Fine
<1>2. TypeOK /\ BusInv /\ [Next]_vars => [Fine]_vars
  BY <1>1
<1>3. Spec => [][Fine]_vars
  BY <1>2, InvCorrect, PTL DEF Spec
<1> QED BY <1>3 DEF StuckOnlyWhenCutOff, Fine

-----------------------------------------------------------------------------
(* Where the frames are. *)

(* The frames of d that are not dropped, and those of them transmitted. *)
Kept(d) == {f \in DOMAIN source : source[f] = d /\ f \notin lost}
CarriedFor(d) == {f \in Carried : source[f] = d}

(* The frames in a transmitter that holds cur, and the queue q. *)
InHand(cur, q) == ({cur} \ {NoFrame}) \cup {q[i] : i \in DOMAIN q}

(* What EveryFrameAccounted says of one device: of the frames in T, it has  *)
(* transmitted those in C, and holds the others in the order of their       *)
(* numbers.                                                                 *)
HandOK(C, cur, q, T) ==
  /\ \A f \in C, g \in InHand(cur, q) : f < g
  /\ \A i \in DOMAIN q : /\ cur < q[i]
                         /\ \A j \in DOMAIN q : i < j => q[i] < q[j]
  /\ InHand(cur, q) \cup C = T

(* A frame number is positive. *)
LEMMA FrameIsPositive == \A f \in Frames : f \in Nat /\ f > 0 /\ f # NoFrame /\ NoFrame < f
BY BusAssumption DEF Frames, NoFrame

(* The transmitter drops its frame. *)
LEMMA HandDrops ==
  ASSUME NEW C, NEW T, NEW f \in Frames, NEW q \in Seq(Frames), HandOK(C, f, q, T)
  PROVE  HandOK(C, NoFrame, q, T \ {f})
<1>1. \A i \in DOMAIN q : q[i] \in Frames
  OBVIOUS
<1>2. InHand(f, q) = {f} \cup {q[i] : i \in DOMAIN q} /\ InHand(NoFrame, q) = {q[i] : i \in DOMAIN q}
  BY FrameIsPositive, Zenon DEF InHand
<1>3. f \notin C /\ f \notin {q[i] : i \in DOMAIN q}
  <2>1. f \in C => f < f
    BY <1>2, Zenon DEF HandOK
  <2>2. f \in {q[i] : i \in DOMAIN q} => f < f
    BY Zenon DEF HandOK
  <2>3. ~(f < f)
    BY FrameIsPositive
  <2> QED BY <2>1, <2>2, <2>3
<1>4. \A i \in DOMAIN q : NoFrame < q[i]
  BY <1>1, FrameIsPositive
<1>5. InHand(NoFrame, q) \cup C = T \ {f}
  BY <1>2, <1>3 DEF HandOK
<1>6. \A c \in C, g \in InHand(NoFrame, q) : c < g
  BY <1>2, Zenon DEF HandOK
<1>7. \A i, j \in DOMAIN q : i < j => q[i] < q[j]
  BY Zenon DEF HandOK
<1> QED BY <1>4, <1>5, <1>6, <1>7, Zenon DEF HandOK

(* The transmitter gives its frame to the channel. *)
LEMMA HandTransmits ==
  ASSUME NEW C, NEW T, NEW f \in Frames, NEW q \in Seq(Frames), HandOK(C, f, q, T)
  PROVE  HandOK(C \cup {f}, NoFrame, q, T)
<1>1. \A i \in DOMAIN q : q[i] \in Frames
  OBVIOUS
<1>2. InHand(f, q) = {f} \cup {q[i] : i \in DOMAIN q} /\ InHand(NoFrame, q) = {q[i] : i \in DOMAIN q}
  BY FrameIsPositive, Zenon DEF InHand
<1>3. \A i \in DOMAIN q : NoFrame < q[i]
  BY <1>1, FrameIsPositive
<1>4. InHand(NoFrame, q) \cup (C \cup {f}) = T
  BY <1>2, Zenon DEF HandOK
<1>5. \A c \in C \cup {f}, g \in InHand(NoFrame, q) : c < g
  <2>1. \A c \in C, g \in InHand(NoFrame, q) : c < g
    BY <1>2, Zenon DEF HandOK
  <2>2. \A g \in InHand(NoFrame, q) : f < g
    BY <1>2, Zenon DEF HandOK
  <2> QED BY <2>1, <2>2, Zenon
<1>6. \A i, j \in DOMAIN q : i < j => q[i] < q[j]
  BY Zenon DEF HandOK
<1> QED BY <1>3, <1>4, <1>5, <1>6, Zenon DEF HandOK

(* The next frame of the queue becomes the transmitter's. *)
LEMMA HandAdvances ==
  ASSUME NEW C, NEW T, NEW q \in Seq(Frames), q # <<>>, HandOK(C, NoFrame, q, T)
  PROVE  HandOK(C, Head(q), Tail(q), T)
<1> DEFINE h == Head(q)
           t == Tail(q)
<1>1. /\ h \in Frames /\ t \in Seq(Frames) /\ h = q[1] /\ 1 \in DOMAIN q
      /\ \A i \in DOMAIN t : i \in Nat /\ i >= 1 /\ i + 1 \in DOMAIN q /\ t[i] = q[i + 1]
      /\ \A i \in DOMAIN q : i \in Nat /\ i >= 1 /\ (i # 1 => i - 1 \in DOMAIN t /\ t[i - 1] = q[i])
  OBVIOUS
<1> HIDE DEF h, t
<1>2. \A i, j \in DOMAIN q : i < j => q[i] < q[j]
  BY Zenon DEF HandOK
<1>3. InHand(h, t) = InHand(NoFrame, q)
  <2>1. InHand(h, t) = {h} \cup {t[i] : i \in DOMAIN t} /\ InHand(NoFrame, q) = {q[i] : i \in DOMAIN q}
    BY <1>1, FrameIsPositive, Zenon DEF InHand
  <2>2. \A x : x \in {q[i] : i \in DOMAIN q} => x = h \/ x \in {t[i] : i \in DOMAIN t}
    BY <1>1
  <2>3. \A x : x = h \/ x \in {t[i] : i \in DOMAIN t} => x \in {q[i] : i \in DOMAIN q}
    BY <1>1
  <2> QED BY <2>1, <2>2, <2>3
<1>4. ASSUME NEW i \in DOMAIN t
      PROVE  h < t[i] /\ \A j \in DOMAIN t : i < j => t[i] < t[j]
  <2>1. 1 < i + 1 /\ i + 1 \in DOMAIN q
    BY <1>1
  <2>2. ASSUME NEW j \in DOMAIN t, i < j PROVE t[i] < t[j]
    <3>1. i + 1 < j + 1 /\ j + 1 \in DOMAIN q
      BY <1>1, <2>2
    <3> QED BY <1>1, <1>2, <2>1, <3>1
  <2> QED BY <1>1, <1>2, <2>1, <2>2
<1>5. \A f \in C, g \in InHand(h, t) : f < g
  BY <1>3, Zenon DEF HandOK
<1>6. InHand(h, t) \cup C = T
  BY <1>3, Zenon DEF HandOK
<1>7. HandOK(C, h, t, T)
  BY <1>4, <1>5, <1>6, Zenon DEF HandOK
<1> QED BY <1>7 DEF h, t

(* The device takes one more frame. *)
LEMMA HandTakes ==
  ASSUME NEW C, NEW T, NEW cur \in Frames \cup {NoFrame}, NEW q \in Seq(Frames),
         NEW n \in Frames, \A f \in T : f < n, HandOK(C, cur, q, T)
  PROVE  HandOK(C, cur, Append(q, n), T \cup {n})
<1> DEFINE p == Append(q, n)
<1>1. /\ p \in Seq(Frames) /\ Len(q) \in Nat /\ DOMAIN p = 1 .. (Len(q) + 1) /\ DOMAIN q = 1 .. Len(q)
      /\ p[Len(q) + 1] = n /\ \A i \in DOMAIN q : p[i] = q[i]
  OBVIOUS
<1> HIDE DEF p
<1>2. /\ \A i \in DOMAIN p : i \in DOMAIN q \/ i = Len(q) + 1
      /\ \A i \in DOMAIN q : i \in DOMAIN p /\ i < Len(q) + 1
      /\ Len(q) + 1 \in DOMAIN p
      /\ \A i \in DOMAIN q, j \in DOMAIN p : j < i => j \in DOMAIN q
      /\ \A i \in DOMAIN q : ~(Len(q) + 1 < i)
      /\ ~(Len(q) + 1 < Len(q) + 1)
  BY <1>1
<1>3. InHand(cur, p) = InHand(cur, q) \cup {n}
  <2>1. {p[i] : i \in DOMAIN p} = {q[i] : i \in DOMAIN q} \cup {n}
    <3>1. \A x \in {p[i] : i \in DOMAIN p} : x \in {q[i] : i \in DOMAIN q} \cup {n}
      BY <1>1, <1>2, Zenon
    <3>2. \A x \in {q[i] : i \in DOMAIN q} \cup {n} : x \in {p[i] : i \in DOMAIN p}
      BY <1>1, <1>2, Zenon
    <3> QED BY <3>1, <3>2
  <2> QED BY <2>1 DEF InHand
<1>4. InHand(cur, q) \subseteq T /\ C \subseteq T
  BY Zenon DEF HandOK
<1>5. cur < n /\ \A i \in DOMAIN q : q[i] < n
  <2>1. \A i \in DOMAIN q : q[i] \in InHand(cur, q)
    BY Zenon DEF InHand
  <2>2. cur = NoFrame \/ cur \in InHand(cur, q)
    BY Zenon DEF InHand
  <2> QED BY <1>4, <2>1, <2>2, FrameIsPositive
<1>6. \A f \in C, g \in InHand(cur, p) : f < g
  BY <1>3, <1>4, Zenon DEF HandOK
<1>7. InHand(cur, p) \cup C = T \cup {n}
  <2>1. InHand(cur, q) \cup C = T
    BY Zenon DEF HandOK
  <2> QED BY <1>3, <2>1
<1>8. ASSUME NEW i \in DOMAIN p
      PROVE  cur < p[i] /\ \A j \in DOMAIN p : i < j => p[i] < p[j]
  <2>0. /\ \A k \in DOMAIN q : cur < q[k]
        /\ \A k, l \in DOMAIN q : k < l => q[k] < q[l]
    BY Zenon DEF HandOK
  <2>1. CASE i \in DOMAIN q
    BY <1>1, <1>2, <1>5, <2>0, <2>1, Zenon
  <2>2. CASE i = Len(q) + 1
    BY <1>1, <1>2, <1>5, <2>2, Zenon
  <2> QED BY <1>2, <2>1, <2>2
<1>9. HandOK(C, cur, p, T \cup {n})
  BY <1>6, <1>7, <1>8, Zenon DEF HandOK
<1> QED BY <1>9 DEF p

(* TransmitStart of frame f, with the queue q behind it: f is kept, or      *)
(* dropped, with or without the next frame in its place.                    *)
LEMMA StartHand ==
  ASSUME DeviceType, NEW d \in Devices, NEW s, NEW f \in Frames, NEW q \in Seq(Frames),
         NEW C, NEW T, T \cap lost = {}, HandOK(C, f, q, T), TransmitStart(d, s, f, q)
  PROVE  /\ HandOK(C, m_currentPkt'[d], m_queue'[d], T \ lost')
         /\ lost' \subseteq lost \cup {f} /\ lost \subseteq lost' /\ f \in T
         /\ \A e \in Devices : e # d => /\ m_currentPkt'[e] = m_currentPkt[e]
                                        /\ m_queue'[e] = m_queue[e]
<1>1. f \in T
  BY FrameIsPositive DEF HandOK, InHand
<1>2. ASSUME lost' = lost PROVE T \ lost' = T
  BY <1>2
<1>3. ASSUME lost' = lost \cup {f} PROVE T \ lost' = T \ {f}
  BY <1>3
<1>4. PICK t, g, p, r, again : Leave(d, t, g, p, r, again)
        /\ \/ g = f /\ p = q /\ lost' = lost
           \/ g = NoFrame /\ p = q /\ lost' = lost \cup {f}
           \/ q # <<>> /\ g = Head(q) /\ p = Tail(q) /\ lost' = lost \cup {f}
  BY Zenon DEF TransmitStart, SendDisabled, BackOff, TransmitAbort, ChannelRefuses, Transmit,
               BusyInFullDuplex
<1>5. /\ m_currentPkt'[d] = g /\ m_queue'[d] = p
      /\ \A e \in Devices : e # d => m_currentPkt'[e] = m_currentPkt[e] /\ m_queue'[e] = m_queue[e]
  BY <1>4, LeaveFields
<1>6. CASE g = f /\ p = q /\ lost' = lost
  BY <1>1, <1>2, <1>5, <1>6
<1>7. CASE g = NoFrame /\ p = q /\ lost' = lost \cup {f}
  <2>1. HandOK(C, NoFrame, q, T \ {f})
    BY HandDrops
  <2> QED BY <1>1, <1>3, <1>5, <1>7, <2>1
<1>8. CASE q # <<>> /\ g = Head(q) /\ p = Tail(q) /\ lost' = lost \cup {f}
  <2>1. HandOK(C, NoFrame, q, T \ {f})
    BY HandDrops
  <2>2. HandOK(C, Head(q), Tail(q), T \ {f})
    BY <1>8, <2>1, HandAdvances
  <2> QED BY <1>1, <1>3, <1>5, <1>8, <2>2
<1> QED BY <1>4, <1>6, <1>7, <1>8

(* The frames are accounted for, inductively: also those of the devices     *)
(* that are not attached yet, and what is transmitted or lost was taken.    *)
FramesInv ==
  /\ \A i, j \in DOMAIN transmitted :
       i < j /\ source[transmitted[i]] = source[transmitted[j]] => transmitted[i] < transmitted[j]
  /\ \A d \in Devices : HandOK(CarriedFor(d), m_currentPkt[d], m_queue[d], Kept(d))
  /\ Carried \subseteq DOMAIN source /\ lost \subseteq DOMAIN source

(* The property follows. *)
LEMMA AccountedByDevice ==
  ASSUME FramesInv, DeviceList \subseteq Devices PROVE EveryFrameAccounted
<1>1. ASSUME NEW d \in DeviceList
      PROVE  /\ \A f \in Carried, g \in Held(d) : source[f] = d => f < g
             /\ \A i \in DOMAIN m_queue[d] :
                  /\ m_currentPkt[d] < m_queue[d][i]
                  /\ \A j \in DOMAIN m_queue[d] : i < j => m_queue[d][i] < m_queue[d][j]
             /\ Held(d) \cup {f \in Carried : source[f] = d}
                  = {f \in DOMAIN source : source[f] = d /\ f \notin lost}
  <2>1. HandOK(CarriedFor(d), m_currentPkt[d], m_queue[d], Kept(d))
    BY DEF FramesInv
  <2> QED BY <2>1, Zenon DEF HandOK, CarriedFor, Kept, Held, InHand
<1> QED BY <1>1, Zenon DEF FramesInv, EveryFrameAccounted

(* A step in which d acts and nothing is transmitted: d has taken the       *)
(* frames N, and lost some of what it had.                                  *)
LEMMA HandsStep ==
  ASSUME FramesInv, NEW d \in Devices, UNCHANGED transmitted,
         NEW N, DOMAIN source' = DOMAIN source \cup N, N \cap DOMAIN source = {},
         \A f \in DOMAIN source : source'[f] = source[f], \A f \in N : source'[f] = d,
         lost \subseteq lost', lost' \subseteq lost \cup Kept(d) \cup N,
         HandOK(CarriedFor(d), m_currentPkt'[d], m_queue'[d], (Kept(d) \cup N) \ lost'),
         \A e \in Devices : e # d => m_currentPkt'[e] = m_currentPkt[e] /\ m_queue'[e] = m_queue[e]
  PROVE  FramesInv'
<1>1. Carried' = Carried /\ Carried \subseteq DOMAIN source
  BY DEF Carried, FramesInv
<1>2. lost' \subseteq DOMAIN source' /\ Carried' \subseteq DOMAIN source'
  BY <1>1 DEF FramesInv, Kept
<1>3. ASSUME NEW e PROVE CarriedFor(e)' = CarriedFor(e)
  BY <1>1 DEF CarriedFor
<1>4. Kept(d)' = (Kept(d) \cup N) \ lost'
  <2>1. lost \cap N = {}
    BY DEF FramesInv
  <2> QED BY <2>1 DEF Kept
<1>5. ASSUME NEW e \in Devices, e # d PROVE Kept(e)' = Kept(e)
  BY <1>5 DEF Kept
<1>6. ASSUME NEW e \in Devices
      PROVE  HandOK(CarriedFor(e)', m_currentPkt'[e], m_queue'[e], Kept(e)')
  <2>1. CASE e = d
    BY <1>3, <1>4, <2>1
  <2>2. CASE e # d
    <3>1. HandOK(CarriedFor(e), m_currentPkt[e], m_queue[e], Kept(e))
      BY DEF FramesInv
    <3> QED BY <1>3, <1>5, <2>2, <3>1
  <2> QED BY <2>1, <2>2
<1>7. ASSUME NEW i \in DOMAIN transmitted', NEW j \in DOMAIN transmitted', i < j,
             source'[transmitted'[i]] = source'[transmitted'[j]]
      PROVE  transmitted'[i] < transmitted'[j]
  <2>1. transmitted[i] \in DOMAIN source /\ transmitted[j] \in DOMAIN source
    BY <1>1 DEF Carried
  <2>2. source[transmitted[i]] = source[transmitted[j]]
    BY <1>7, <2>1
  <2> QED BY <1>7, <2>2 DEF FramesInv
<1> QED BY <1>2, <1>6, <1>7 DEF FramesInv

(* The same, when it takes none. *)
LEMMA HandsStepOnly ==
  ASSUME FramesInv, NEW d \in Devices, UNCHANGED <<source, transmitted>>,
         lost \subseteq lost', NEW f \in Kept(d), lost' \subseteq lost \cup {f},
         HandOK(CarriedFor(d), m_currentPkt'[d], m_queue'[d], Kept(d) \ lost'),
         \A e \in Devices : e # d => m_currentPkt'[e] = m_currentPkt[e] /\ m_queue'[e] = m_queue[e]
  PROVE  FramesInv'
<1> DEFINE N == {}
<1>1. /\ DOMAIN source' = DOMAIN source \cup N /\ N \cap DOMAIN source = {}
      /\ \A g \in N : source'[g] = d
      /\ lost' \subseteq lost \cup Kept(d) \cup N
      /\ (Kept(d) \cup N) \ lost' = Kept(d) \ lost'
  OBVIOUS
<1>2. HandOK(CarriedFor(d), m_currentPkt'[d], m_queue'[d], (Kept(d) \cup N) \ lost')
  BY <1>1
<1> HIDE DEF N
<1> QED BY <1>1, <1>2, HandsStep

(* A step that leaves the transmitters and the frames as they are. *)
LEMMA HandsRest ==
  ASSUME FramesInv, UNCHANGED <<m_currentPkt, m_queue, source, transmitted, lost>>
  PROVE  FramesInv'
<1>1. Carried' = Carried /\ \A d : CarriedFor(d)' = CarriedFor(d) /\ Kept(d)' = Kept(d)
  BY DEF Carried, CarriedFor, Kept
<1> QED BY <1>1 DEF FramesInv

(* What the invariant says of one device. *)
LEMMA HandFacts ==
  ASSUME FramesInv, NEW d \in Devices
  PROVE  /\ HandOK(CarriedFor(d), m_currentPkt[d], m_queue[d], Kept(d))
         /\ Kept(d) \cap lost = {} /\ Kept(d) \subseteq DOMAIN source
BY DEF FramesInv, Kept

(* A backoff is over. *)
LEMMA HandsBackoffOver ==
  ASSUME TypeOK, BusInv, FramesInv, NEW d \in DeviceList, BackoffOver(d) PROVE FramesInv'
<1>1. DeviceType /\ OtherType /\ d \in Devices /\ DeviceList \subseteq Devices
  BY TypeParts, ListOfDevices
<1>2. m_currentPkt[d] # NoFrame
  BY <1>1 DEF BackoffOver, BusInv, DeviceOK
<1>3. /\ m_currentPkt[d] \in Frames /\ m_queue[d] \in Seq(Frames)
      /\ TransmitStart(d, m_txMachineState[d], m_currentPkt[d], m_queue[d])
      /\ UNCHANGED <<source, transmitted>>
  BY <1>1, <1>2 DEF DeviceType, BackoffOver
<1> DEFINE s == m_txMachineState[d]
           f == m_currentPkt[d]
           q == m_queue[d]
<1>4. /\ f \in Frames /\ q \in Seq(Frames) /\ TransmitStart(d, s, f, q)
      /\ HandOK(CarriedFor(d), f, q, Kept(d)) /\ Kept(d) \cap lost = {}
  BY <1>1, <1>3, HandFacts
<1> HIDE DEF s, f, q
<1>5. /\ HandOK(CarriedFor(d), m_currentPkt'[d], m_queue'[d], Kept(d) \ lost')
      /\ lost' \subseteq lost \cup {f} /\ lost \subseteq lost' /\ f \in Kept(d)
      /\ \A e \in Devices : e # d => m_currentPkt'[e] = m_currentPkt[e] /\ m_queue'[e] = m_queue[e]
  BY <1>1, <1>4, StartHand
<1> QED BY <1>1, <1>3, <1>5, HandsStepOnly

(* The gap is over. *)
LEMMA HandsTransmitReady ==
  ASSUME TypeOK, BusInv, FramesInv, NEW d \in DeviceList, TransmitReady(d) PROVE FramesInv'
<1>1. DeviceType /\ OtherType /\ d \in Devices /\ DeviceList \subseteq Devices
  BY TypeParts, ListOfDevices
<1>2. UNCHANGED <<source, transmitted>> /\ m_txMachineState[d] = "GAP"
  BY DEF TransmitReady
<1>3. CASE m_queue[d] = <<>>
  BY <1>2, <1>3, HandsRest DEF TransmitReady
<1>4. CASE m_queue[d] # <<>>
  <2> DEFINE f == Head(m_queue[d])
             q == Tail(m_queue[d])
  <2>1. f \in Frames /\ q \in Seq(Frames) /\ m_queue[d] \in Seq(Frames)
    BY <1>1, <1>4, TailType DEF DeviceType
  <2>2. m_currentPkt[d] = NoFrame
    BY <1>1, <1>2 DEF BusInv, DeviceOK
  <2>3. HandOK(CarriedFor(d), f, q, Kept(d))
    BY <1>1, <1>4, <2>1, <2>2, HandFacts, HandAdvances
  <2>4. TransmitStart(d, "READY", f, q)
    BY <1>4 DEF TransmitReady
  <2> HIDE DEF f, q
  <2>5. /\ HandOK(CarriedFor(d), m_currentPkt'[d], m_queue'[d], Kept(d) \ lost')
        /\ lost' \subseteq lost \cup {f} /\ lost \subseteq lost' /\ f \in Kept(d)
        /\ \A e \in Devices : e # d => m_currentPkt'[e] = m_currentPkt[e] /\ m_queue'[e] = m_queue[e]
    BY <1>1, <2>1, <2>3, <2>4, HandFacts, StartHand
  <2> QED BY <1>1, <1>2, <2>5, HandsStepOnly
<1> QED BY <1>3, <1>4

(* A device takes a frame. *)
LEMMA HandsSendFrom ==
  ASSUME TypeOK, BusInv, FramesInv, NEW d \in DeviceList, SendFrom(d) PROVE FramesInv'
<1> DEFINE n == Len(source) + 1
           q == Append(m_queue[d], n)
           C == CarriedFor(d)
           T == Kept(d) \cup {n}
<1>1. DeviceType /\ OtherType /\ d \in Devices /\ DeviceList \subseteq Devices
  BY TypeParts, ListOfDevices
<1>2. n \in Frames /\ source' = Append(source, d) /\ UNCHANGED transmitted
  BY NextFrame DEF SendFrom
<1>3. /\ DOMAIN source' = DOMAIN source \cup {n} /\ {n} \cap DOMAIN source = {}
      /\ \A f \in DOMAIN source : source'[f] = source[f] /\ f < n
      /\ source'[n] = d
  <2>1. /\ source \in Seq(Devices) /\ Len(source) \in Nat /\ DOMAIN source = 1 .. Len(source)
    BY <1>1 DEF OtherType
  <2>2. /\ source' \in Seq(Devices) /\ DOMAIN source' = 1 .. n /\ source'[n] = d
        /\ \A f \in DOMAIN source : source'[f] = source[f]
    BY <1>1, <1>2, <2>1
  <2> QED BY <2>1, <2>2
<1>4. /\ m_queue[d] \in Seq(Frames) /\ m_currentPkt[d] \in Frames \cup {NoFrame}
  BY <1>1 DEF DeviceType
<1>5. \/ lost' = lost \cup {n} /\ UNCHANGED deviceVars
      \/ m_txMachineState[d] = "READY" /\ TransmitStart(d, "READY", Head(q), Tail(q))
      \/ /\ m_queue' = [m_queue EXCEPT ![d] = q]
         /\ UNCHANGED <<m_currentPkt, lost>>
  BY Zenon DEF SendFrom, n, q
<1> HIDE DEF n
<1>6. HandOK(C, m_currentPkt[d], m_queue[d], Kept(d)) /\ Kept(d) \cap lost = {}
      /\ Kept(d) \subseteq DOMAIN source
  BY <1>1, HandFacts
<1>7. n \notin lost /\ lost \subseteq DOMAIN source /\ n \notin Kept(d)
  BY <1>3, <1>6 DEF FramesInv
<1>8. HandOK(C, m_currentPkt[d], q, T)
  <2>1. \A f \in Kept(d) : f < n
    BY <1>3, <1>6
  <2> HIDE DEF C
  <2> QED BY <1>2, <1>4, <1>6, <2>1, HandTakes
<1>9. CASE lost' = lost \cup {n} /\ UNCHANGED deviceVars
  <2>1. T \ lost' = Kept(d)
    BY <1>6, <1>7, <1>9
  <2>2. /\ HandOK(C, m_currentPkt'[d], m_queue'[d], T \ lost')
        /\ \A e \in Devices : m_currentPkt'[e] = m_currentPkt[e] /\ m_queue'[e] = m_queue[e]
    BY <1>6, <1>9, <2>1 DEF deviceVars
  <2> QED BY <1>1, <1>2, <1>3, <1>9, <2>2, HandsStep
<1>10. CASE m_queue' = [m_queue EXCEPT ![d] = q] /\ UNCHANGED <<m_currentPkt, lost>>
  <2>1. T \ lost' = T
    BY <1>6, <1>7, <1>10
  <2> HIDE DEF q
  <2>2. m_queue'[d] = q /\ \A e \in Devices : e # d => m_queue'[e] = m_queue[e]
    BY <1>1, <1>10 DEF DeviceType
  <2>3. HandOK(C, m_currentPkt'[d], m_queue'[d], T \ lost')
    BY <1>8, <1>10, <2>1, <2>2
  <2> QED BY <1>1, <1>2, <1>3, <1>10, <2>2, <2>3, HandsStep
<1>11. CASE m_txMachineState[d] = "READY" /\ TransmitStart(d, "READY", Head(q), Tail(q))
  <2>1. m_currentPkt[d] = NoFrame
    BY <1>1, <1>11 DEF BusInv, DeviceOK
  <2>2. q \in Seq(Frames) /\ q # <<>>
    BY <1>2, <1>4, AppendType
  <2> HIDE DEF q, C, T
  <2>3. Head(q) \in Frames /\ Tail(q) \in Seq(Frames)
    BY <2>2, TailType
  <2>4. HandOK(C, Head(q), Tail(q), T)
    BY <1>8, <2>1, <2>2, HandAdvances
  <2>5. T \cap lost = {}
    BY <1>6, <1>7 DEF T
  <2>6. /\ HandOK(C, m_currentPkt'[d], m_queue'[d], T \ lost')
        /\ lost' \subseteq lost \cup {Head(q)} /\ lost \subseteq lost' /\ Head(q) \in T
        /\ \A e \in Devices : e # d => m_currentPkt'[e] = m_currentPkt[e] /\ m_queue'[e] = m_queue[e]
    BY <1>1, <1>11, <2>3, <2>4, <2>5, StartHand
  <2>7. lost' \subseteq lost \cup Kept(d) \cup {n}
    BY <2>6 DEF T
  <2> QED BY <1>1, <1>2, <1>3, <2>6, <2>7, HandsStep DEF C, T
<1> QED BY <1>5, <1>9, <1>10, <1>11

(* What TransmitComplete does: the frame of the transmitter, which the      *)
(* device took, is one more that is carried.                                *)
LEMMA CompleteFacts ==
  ASSUME TypeOK, BusInv, ~disturbed, FramesInv, NEW d \in DeviceList, TransmitComplete(d)
  PROVE  LET f == m_currentPkt[d]
             to == Receivers(d)
         IN /\ f \in Frames /\ f \in Kept(d) /\ f \notin Carried
            /\ m_currentPkt' = [m_currentPkt EXCEPT ![d] = NoFrame]
            /\ scheduled' = IF m_fullDuplex /\ to = {} THEN scheduled
                            ELSE Append(scheduled, [frame |-> f, src |-> d, to |-> to,
                                                    idle |-> ~m_fullDuplex])
            /\ missed' = [e \in Devices |->
                 IF e \in DeviceList /\ ~active[e] THEN missed[e] \cup {f} ELSE missed[e]]
            /\ transmitted' = Append(transmitted, f)
            /\ UNCHANGED <<m_fullDuplex, attached, active, m_queue, received, source, lost>>
<1> DEFINE f == m_currentPkt[d]
           to == Receivers(d)
           sent == [frame |-> f, src |-> d, to |-> to, idle |-> ~m_fullDuplex]
<1>1. DeviceType /\ OtherType /\ d \in Devices
  BY TypeParts, ListOfDevices
<1>2. f # NoFrame
  BY <1>1 DEF TransmitComplete, BusInv, DeviceOK
<1>3. wire[Index(d)].src = d /\ wire[Index(d)].frame = f
  BY BusyLine DEF TransmitComplete, BusInv
<1>4. f \in Frames
  BY <1>1, <1>2 DEF DeviceType
<1>5. f \in InHand(f, m_queue[d])
  BY <1>2 DEF InHand
<1>6. HandOK(CarriedFor(d), f, m_queue[d], Kept(d))
  BY <1>1, HandFacts
<1>7. f \in Kept(d) /\ f \notin CarriedFor(d)
  <2>1. ~(f < f)
    BY <1>4, FrameIsPositive
  <2> QED BY <1>5, <1>6, <2>1, Zenon DEF HandOK
<1>8. f \notin Carried
  BY <1>7 DEF Kept, CarriedFor
<1>9. /\ scheduled' = IF m_fullDuplex /\ to = {} THEN scheduled ELSE Append(scheduled, sent)
      /\ missed' = [e \in Devices |->
           IF e \in DeviceList /\ ~active[e] THEN missed[e] \cup {f} ELSE missed[e]]
      /\ transmitted' = Append(transmitted, f)
  <2>1. \A x, y, z : wire[Index(d)].src = x /\ wire[Index(d)].frame = y /\ z = Receivers(x) =>
          /\ scheduled' = IF m_fullDuplex /\ z = {} THEN scheduled
                          ELSE Append(scheduled, [frame |-> y, src |-> x, to |-> z,
                                                  idle |-> ~m_fullDuplex])
          /\ missed' = [e \in Devices |->
               IF e \in DeviceList /\ ~active[e] THEN missed[e] \cup {y} ELSE missed[e]]
          /\ transmitted' = Append(transmitted, y)
    BY Zenon DEF TransmitComplete, TransmitEnd
  <2> QED BY <1>3, <2>1, Zenon
<1>10. /\ m_currentPkt' = [m_currentPkt EXCEPT ![d] = NoFrame]
       /\ UNCHANGED <<m_fullDuplex, attached, active, m_queue, received, source, lost>>
  BY DEF TransmitComplete
<1> QED BY <1>4, <1>7, <1>8, <1>9, <1>10, Zenon

(* A frame more on the channel. *)
LEMMA CarriedOneMore ==
  ASSUME NEW f, transmitted \in Seq(Frames), f \in Frames, transmitted' = Append(transmitted, f)
  PROVE  /\ Carried' = Carried \cup {f}
         /\ \A i \in DOMAIN transmitted : i \in DOMAIN transmitted' /\ transmitted'[i] = transmitted[i]
         /\ \A i \in DOMAIN transmitted' :
              i \in DOMAIN transmitted \/ (i = Len(transmitted) + 1 /\ transmitted'[i] = f)
         /\ \A i, j \in DOMAIN transmitted' : i < j => i \in DOMAIN transmitted
         /\ \A g, h : Before(transmitted, g, h) => Before(transmitted', g, h)
         /\ \A g \in Carried : Before(transmitted', g, f)
<1>1. /\ \A i \in DOMAIN transmitted : i \in DOMAIN transmitted' /\ transmitted'[i] = transmitted[i]
      /\ \A i \in DOMAIN transmitted' :
           i \in DOMAIN transmitted \/ (i = Len(transmitted) + 1 /\ transmitted'[i] = f)
      /\ \A i, j \in DOMAIN transmitted' : i < j => i \in DOMAIN transmitted
      /\ \A i \in DOMAIN transmitted : i < Len(transmitted) + 1
      /\ Len(transmitted) + 1 \in DOMAIN transmitted' /\ transmitted'[Len(transmitted) + 1] = f
  OBVIOUS
<1>2. Carried' = Carried \cup {f}
  <2>1. \A x \in Carried' : x \in Carried \cup {f}
    BY <1>1, Zenon DEF Carried
  <2>2. \A x \in Carried \cup {f} : x \in Carried'
    BY <1>1, Zenon DEF Carried
  <2> QED BY <2>1, <2>2
<1>3. \A g, h : Before(transmitted, g, h) => Before(transmitted', g, h)
  BY <1>1, Zenon DEF Before
<1>4. \A g \in Carried : Before(transmitted', g, f)
  BY <1>1, Zenon DEF Before, Carried
<1> QED BY <1>1, <1>2, <1>3, <1>4

(* The frame of a transmitter goes to the channel. *)
LEMMA HandsTransmitComplete ==
  ASSUME TypeOK, BusInv, ~disturbed, FramesInv, NEW d \in DeviceList, TransmitComplete(d)
  PROVE  FramesInv'
<1>1. DeviceType /\ OtherType /\ d \in Devices /\ DeviceList \subseteq Devices
  BY TypeParts, ListOfDevices
<1>2. PICK f : /\ f = m_currentPkt[d] /\ f \in Frames /\ f \in Kept(d) /\ f \notin Carried
               /\ m_currentPkt' = [m_currentPkt EXCEPT ![d] = NoFrame]
               /\ transmitted' = Append(transmitted, f)
               /\ UNCHANGED <<m_queue, source, lost>>
  BY CompleteFacts, Zenon
<1>3. transmitted \in Seq(Frames) /\ m_queue[d] \in Seq(Frames)
  BY <1>1 DEF DeviceType, OtherType
<1>4. /\ Carried' = Carried \cup {f}
      /\ \A i \in DOMAIN transmitted : i \in DOMAIN transmitted' /\ transmitted'[i] = transmitted[i]
      /\ \A i \in DOMAIN transmitted' :
           i \in DOMAIN transmitted \/ (i = Len(transmitted) + 1 /\ transmitted'[i] = f)
      /\ \A i, j \in DOMAIN transmitted' : i < j => i \in DOMAIN transmitted
  BY <1>2, <1>3, CarriedOneMore
<1>5. source[f] = d /\ f \in DOMAIN source
  BY <1>2 DEF Kept
<1>6. HandOK(CarriedFor(d), f, m_queue[d], Kept(d))
  BY <1>1, <1>2, HandFacts
<1>7. /\ CarriedFor(d)' = CarriedFor(d) \cup {f}
      /\ \A e : e # d => CarriedFor(e)' = CarriedFor(e)
      /\ \A e : Kept(e)' = Kept(e)
  BY <1>2, <1>4, <1>5 DEF CarriedFor, Kept
<1>8. /\ m_currentPkt'[d] = NoFrame
      /\ \A e \in Devices : e # d => m_currentPkt'[e] = m_currentPkt[e]
  BY <1>1, <1>2 DEF DeviceType
<1>9. ASSUME NEW e \in Devices
      PROVE  HandOK(CarriedFor(e)', m_currentPkt'[e], m_queue'[e], Kept(e)')
  <2>1. CASE e = d
    <3>1. HandOK(CarriedFor(d) \cup {f}, NoFrame, m_queue[d], Kept(d))
      BY <1>2, <1>3, <1>6, HandTransmits
    <3> QED BY <1>2, <1>7, <1>8, <2>1, <3>1
  <2>2. CASE e # d
    <3>1. HandOK(CarriedFor(e), m_currentPkt[e], m_queue[e], Kept(e))
      BY HandFacts
    <3> QED BY <1>2, <1>7, <1>8, <2>2, <3>1
  <2> QED BY <2>1, <2>2
<1>10. ASSUME NEW i \in DOMAIN transmitted', NEW j \in DOMAIN transmitted', i < j,
              source'[transmitted'[i]] = source'[transmitted'[j]]
       PROVE  transmitted'[i] < transmitted'[j]
  <2>1. i \in DOMAIN transmitted /\ transmitted'[i] = transmitted[i]
    BY <1>4, <1>10
  <2>2. CASE j \in DOMAIN transmitted
    <3>1. transmitted'[j] = transmitted[j]
      BY <1>4, <2>2
    <3> QED BY <1>2, <1>10, <2>1, <2>2, <3>1, Zenon DEF FramesInv
  <2>3. CASE transmitted'[j] = f
    <3>1. transmitted[i] \in CarriedFor(d)
      BY <1>2, <1>5, <1>10, <2>1, <2>3 DEF CarriedFor, Carried
    <3>2. f \in InHand(f, m_queue[d])
      BY <1>2, FrameIsPositive DEF InHand
    <3> QED BY <1>6, <2>1, <2>3, <3>1, <3>2, Zenon DEF HandOK
  <2> QED BY <1>4, <2>2, <2>3
<1> QED BY <1>2, <1>4, <1>5, <1>9, <1>10 DEF FramesInv

(* Every step. *)
LEMMA FramesStep ==
  ASSUME TypeOK, BusInv, ~disturbed, FramesInv, [Next]_vars PROVE FramesInv'
<1>1. CASE Attach
  BY <1>1, HandsRest DEF Attach, deviceVars
<1>2. ASSUME NEW d \in DeviceList, DetachOrReattach(d) \/ SetSendEnable(d) \/ SetReceiveEnable(d)
      PROVE  FramesInv'
  BY <1>2, HandsRest DEF DetachOrReattach, SetSendEnable, SetReceiveEnable, channelVars, deviceVars
<1>3. ASSUME NEW d \in DeviceList, SendFrom(d) PROVE FramesInv'
  BY <1>3, HandsSendFrom
<1>4. ASSUME NEW d \in DeviceList, BackoffOver(d) PROVE FramesInv'
  BY <1>4, HandsBackoffOver
<1>5. ASSUME NEW d \in DeviceList, TransmitComplete(d) PROVE FramesInv'
  BY <1>5, HandsTransmitComplete
<1>6. ASSUME NEW d \in DeviceList, TransmitReady(d) PROVE FramesInv'
  BY <1>6, HandsTransmitReady
<1>7. ASSUME NEW d \in DeviceList, Receive(d) PROVE FramesInv'
  BY <1>7, HandsRest DEF Receive, deviceVars
<1>8. CASE PropagationComplete
  BY <1>8, HandsRest DEF PropagationComplete, deviceVars
<1>9. CASE (\E d \in DeviceList : CompleteAsserts(d)) \/ PropagationAsserts
  BY <1>9, HandsRest DEF CompleteAsserts, PropagationAsserts, Asserts, deviceVars
<1>10. CASE UNCHANGED vars
  BY <1>10, HandsRest DEF vars, deviceVars
<1> QED BY <1>1, <1>2, <1>3, <1>4, <1>5, <1>6, <1>7, <1>8, <1>9, <1>10 DEF Next

(* Before the first frame. *)
LEMMA FramesInit == ASSUME Init PROVE FramesInv
<1>1. /\ DOMAIN transmitted = {} /\ DOMAIN source = {} /\ lost = {}
      /\ \A d \in Devices : m_currentPkt[d] = NoFrame /\ m_queue[d] = <<>>
  BY DEF Init
<1>2. Carried = {} /\ \A d \in Devices : CarriedFor(d) = {} /\ Kept(d) = {}
  BY <1>1 DEF Carried, CarriedFor, Kept
<1>3. DOMAIN <<>> = {} /\ InHand(NoFrame, <<>>) = {}
  BY DEF InHand
<1>4. HandOK({}, NoFrame, <<>>, {})
  BY <1>3 DEF HandOK
<1> QED BY <1>1, <1>2, <1>4 DEF FramesInv

(* Once a device was attached while a frame was on the channel, that stays. *)
LEMMA StaysDisturbed == ASSUME [Next]_vars, disturbed PROVE disturbed'
BY DEF Next, vars, channelVars, Attach, DetachOrReattach, SetSendEnable, SetReceiveEnable,
       SendFrom, BackoffOver, TransmitComplete, CompleteAsserts, TransmitReady, Receive,
       PropagationComplete, PropagationAsserts, Asserts

(* A frame a device took is transmitted, dropped, or still in the device,   *)
(* exactly once, and in order: aborted, refused, switched off or not, and   *)
(* through a fallback to half duplex; it may be transmitted again only if a *)
(* device was attached while it was on the channel.                         *)
THEOREM EveryFrameAccountedCorrect == Spec => []EveryFrameAccounted
<1>1. Init => disturbed \/ FramesInv
  BY FramesInit
<1>2. TypeOK /\ BusInv /\ (disturbed \/ FramesInv) /\ [Next]_vars => disturbed' \/ FramesInv'
  BY FramesStep, StaysDisturbed
<1>3. TypeOK /\ (disturbed \/ FramesInv) => EveryFrameAccounted
  <2>1. TypeOK => DeviceList \subseteq Devices
    BY TypeParts, ListOfDevices
  <2>2. disturbed => EveryFrameAccounted
    BY Zenon DEF EveryFrameAccounted
  <2> QED BY <2>1, <2>2, AccountedByDevice
<1> QED BY <1>1, <1>2, <1>3, InvCorrect, PTL DEF Spec

-----------------------------------------------------------------------------
(* What the devices hear. *)

Got(d) == {received[d][i] : i \in DOMAIN received[d]}

(* What EveryoneHearsTheSame says of the events, and of one device.         *)
InTurn ==
  \A k, l \in DOMAIN scheduled :
    k < l => Before(transmitted, scheduled[k].frame, scheduled[l].frame)
Hears(d) ==
  /\ \A i, j \in DOMAIN received[d] : i < j => Before(transmitted, received[d][i], received[d][j])
  /\ \A g \in Got(d), f \in PendingFor(d) : Before(transmitted, g, f)
  /\ \A f : f \in Got(d) \/ f \in PendingFor(d) <=>
              f \in Carried /\ source[f] # d /\ f \notin missed[d]

(* The invariant: besides, all that is scheduled, missed and received was   *)
(* carried, an event knows the device that took its frame, and a device     *)
(* that is not attached has nothing to hear and heard nothing.              *)
HearInv ==
  /\ InTurn /\ \A d \in DeviceList : Hears(d)
  /\ \A k \in DOMAIN scheduled :
       /\ scheduled[k].frame \in Carried /\ scheduled[k].src = source[scheduled[k].frame]
       /\ scheduled[k].to \subseteq DeviceList
  /\ \A d \in Devices : /\ missed[d] \subseteq Carried /\ Got(d) \subseteq Carried
                        /\ d \notin DeviceList => received[d] = <<>>

(* The property follows. *)
LEMMA HearsTheSame == HearInv => EveryoneHearsTheSame
<1>1. ASSUME NEW d, Hears(d)
      PROVE  /\ \A i, j \in DOMAIN received[d] : i < j => Before(transmitted, received[d][i], received[d][j])
             /\ \A i \in DOMAIN received[d], f \in PendingFor(d) : Before(transmitted, received[d][i], f)
             /\ {received[d][i] : i \in DOMAIN received[d]} \cup PendingFor(d)
                  = {f \in Carried : source[f] # d /\ f \notin missed[d]}
  <2>1. Got(d) \cup PendingFor(d) = {f \in Carried : source[f] # d /\ f \notin missed[d]}
    <3> HIDE DEF Got, PendingFor, Carried
    <3> QED BY <1>1 DEF Hears
  <2>2. \A i \in DOMAIN received[d], f \in PendingFor(d) : Before(transmitted, received[d][i], f)
    BY <1>1, Zenon DEF Hears, Got
  <2> QED BY <1>1, <2>1, <2>2, Zenon DEF Hears, Got
<1> QED BY <1>1, Zenon DEF HearInv, InTurn, EveryoneHearsTheSame

(* A frame propagates towards d. *)
LEMMA Pending ==
  \A d, f : f \in PendingFor(d) <=>
    \E k \in DOMAIN scheduled : f = scheduled[k].frame /\ d \in scheduled[k].to /\ scheduled[k].src # d
BY Zenon DEF PendingFor

(* And after a step. *)
LEMMA PendingNext ==
  \A d, f : f \in PendingFor(d)' <=>
    \E k \in DOMAIN scheduled' :
      f = scheduled'[k].frame /\ d \in scheduled'[k].to /\ scheduled'[k].src # d
BY Zenon DEF PendingFor

(* No frame is transmitted twice. *)
LEMMA NotTwice ==
  ASSUME TypeOK, FramesInv, NEW f PROVE ~Before(transmitted, f, f)
<1> SUFFICES ASSUME Before(transmitted, f, f) PROVE FALSE
  OBVIOUS
<1>1. PICK i, j \in DOMAIN transmitted : i < j /\ transmitted[i] = f /\ transmitted[j] = f
  BY Zenon DEF Before
<1>2. f < f
  BY <1>1, Zenon DEF FramesInv
<1>3. f \in Frames
  BY <1>1 DEF TypeOK
<1> QED BY <1>2, <1>3, FrameIsPositive

(* A step that the receivers do not notice; new frames may be taken.        *)
LEMMA HearRest ==
  ASSUME FramesInv, HearInv, UNCHANGED <<attached, scheduled, received, missed, transmitted>>,
         \A f \in DOMAIN source : source'[f] = source[f]
  PROVE  HearInv'
<1>1. /\ Carried' = Carried /\ DeviceList' = DeviceList /\ Carried \subseteq DOMAIN source
      /\ \A d : Got(d)' = Got(d) /\ PendingFor(d)' = PendingFor(d)
      /\ \A f, g : Before(transmitted', f, g) = Before(transmitted, f, g)
  BY DEF Carried, DeviceList, Got, PendingFor, Before, FramesInv
<1>2. \A d \in DeviceList : Hears(d)'
  <2> SUFFICES ASSUME NEW d \in DeviceList PROVE Hears(d)'
    OBVIOUS
  <2>1. Hears(d)
    BY DEF HearInv
  <2>2. \A f \in Carried : source'[f] = source[f]
    BY <1>1
  <2> QED BY <1>1, <2>1, <2>2 DEF Hears
<1>3. InTurn'
  BY <1>1 DEF HearInv, InTurn
<1> QED BY <1>1, <1>2, <1>3 DEF HearInv

(* A device that is attached has heard nothing, and will hear nothing that  *)
(* was sent before.                                                         *)
LEMMA HearAttach ==
  ASSUME TypeOK, BusInv, FramesInv, HearInv, Attach PROVE HearInv'
<1>1. /\ attached \in Devices /\ attached \notin DeviceList
      /\ DeviceList' = DeviceList \cup {attached} /\ DeviceList' \subseteq Devices
  BY AttachFacts
<1>2. /\ UNCHANGED <<scheduled, received, source, transmitted>>
      /\ missed' = [missed EXCEPT ![attached] = Carried]
  BY DEF Attach
<1>3. /\ missed'[attached] = Carried
      /\ \A d \in Devices : d # attached => missed'[d] = missed[d]
  BY <1>1, <1>2 DEF TypeOK
<1>4. /\ Carried' = Carried /\ \A d : Got(d)' = Got(d) /\ PendingFor(d)' = PendingFor(d)
  BY <1>2 DEF Carried, Got, PendingFor
<1>5. PendingFor(attached) = {} /\ Got(attached) = {} /\ DOMAIN received[attached] = {}
  <2>1. received[attached] = <<>>
    BY <1>1 DEF HearInv
  <2>2. \A f : f \notin PendingFor(attached)
    BY <1>1, Pending DEF HearInv
  <2> QED BY <2>1, <2>2 DEF Got
<1>6. ASSUME NEW d \in DeviceList' PROVE Hears(d)'
  <2>1. CASE d = attached
    BY <1>2, <1>3, <1>4, <1>5, <2>1 DEF Hears
  <2>2. CASE d # attached
    <3>1. Hears(d) /\ missed'[d] = missed[d]
      BY <1>1, <1>3, <2>2 DEF HearInv
    <3> QED BY <1>2, <1>4, <3>1 DEF Hears
  <2> QED BY <2>1, <2>2
<1>7. InTurn'
  BY <1>2 DEF HearInv, InTurn
<1>8. ASSUME NEW d \in Devices
      PROVE  /\ missed'[d] \subseteq Carried' /\ Got(d)' \subseteq Carried'
             /\ d \notin DeviceList' => received'[d] = <<>>
  <2>1. /\ missed[d] \subseteq Carried /\ Got(d) \subseteq Carried
        /\ d \notin DeviceList => received[d] = <<>>
    BY DEF HearInv
  <2>2. missed'[d] \subseteq Carried
    BY <1>3, <2>1
  <2>3. d \notin DeviceList' => received'[d] = <<>>
    BY <1>1, <1>2, <2>1
  <2> QED BY <1>4, <2>1, <2>2, <2>3
<1>9. \A k \in DOMAIN scheduled' :
        /\ scheduled'[k].frame \in Carried' /\ scheduled'[k].src = source'[scheduled'[k].frame]
        /\ scheduled'[k].to \subseteq DeviceList'
  BY <1>1, <1>2, <1>4 DEF HearInv
<1> QED BY <1>6, <1>7, <1>8, <1>9 DEF HearInv

(* Before the first frame. *)
LEMMA HearInit == ASSUME Init PROVE HearInv
<1>1. DOMAIN scheduled = {} /\ DeviceList = {}
  BY DEF Init, DeviceList
<1>2. \A d \in Devices : Got(d) = {} /\ missed[d] = {} /\ received[d] = <<>>
  BY DEF Init, Got
<1> QED BY <1>1, <1>2 DEF HearInv, InTurn

(* A frame goes to the devices that are active. *)
LEMMA HearTransmitComplete ==
  ASSUME TypeOK, BusInv, ~disturbed, FramesInv, HearInv, NEW d \in DeviceList, TransmitComplete(d)
  PROVE  HearInv'
<1>1. DeviceType /\ OtherType /\ d \in Devices /\ DeviceList \subseteq Devices
  BY TypeParts, ListOfDevices
<1>2. PICK f, to, sent :
        /\ to = Receivers(d)
        /\ sent = [frame |-> f, src |-> d, to |-> to, idle |-> ~m_fullDuplex]
        /\ f \in Frames /\ f \in Kept(d) /\ f \notin Carried
        /\ scheduled' = IF m_fullDuplex /\ to = {} THEN scheduled ELSE Append(scheduled, sent)
        /\ missed' = [e \in Devices |->
             IF e \in DeviceList /\ ~active[e] THEN missed[e] \cup {f} ELSE missed[e]]
        /\ transmitted' = Append(transmitted, f)
        /\ UNCHANGED <<m_fullDuplex, attached, active, received, source>>
  BY CompleteFacts, Zenon
<1>sent. sent \in Propagating /\ scheduled \in Seq(Propagating) /\ to \subseteq DeviceList
  <2>1. (~m_fullDuplex) \in BOOLEAN
    BY Zenon
  <2>2. ASSUME NEW y \in BOOLEAN
        PROVE  [frame |-> f, src |-> d, to |-> to, idle |-> y] \in Propagating
    BY <1>1, <1>2 DEF Propagating, Receivers
  <2>3. to \subseteq DeviceList
    BY <1>2 DEF Receivers
  <2> QED BY <1>1, <1>2, <2>1, <2>2, <2>3, Zenon DEF OtherType
<1>3. sent.frame = f /\ sent.src = d /\ sent.to = to
  BY <1>2
<1>4. /\ Carried' = Carried \cup {f} /\ \A g, h : Before(transmitted, g, h) => Before(transmitted', g, h)
      /\ \A g \in Carried : Before(transmitted', g, f)
  BY <1>1, <1>2, CarriedOneMore DEF OtherType
<1>5. source[f] = d /\ DeviceList' = DeviceList /\ \A e : Got(e)' = Got(e)
  BY <1>2 DEF Kept, DeviceList, Got
<1>6. /\ scheduled \in Seq(Propagating) /\ scheduled' \in Seq(Propagating)
      /\ DOMAIN scheduled \subseteq DOMAIN scheduled'
      /\ \A k \in DOMAIN scheduled : scheduled'[k] = scheduled[k]
      /\ \A k, l \in DOMAIN scheduled' : k < l => k \in DOMAIN scheduled
  BY <1>2, <1>sent
<1>7. /\ \A k \in DOMAIN scheduled' : k \in DOMAIN scheduled \/ scheduled'[k] = sent
      /\ ~(m_fullDuplex /\ to = {}) => \E k \in DOMAIN scheduled' : scheduled'[k] = sent
  <2>1. sent \in Propagating /\ scheduled \in Seq(Propagating)
    BY <1>sent
  <2>2. CASE m_fullDuplex /\ to = {}
    BY <1>2, <2>2
  <2>3. CASE ~(m_fullDuplex /\ to = {})
    <3>1. /\ scheduled' = Append(scheduled, sent)
      BY <1>2, <2>3
    <3>2. Len(scheduled) + 1 \in DOMAIN scheduled' /\ scheduled'[Len(scheduled) + 1] = sent
      BY <2>1, <3>1
    <3>3. \A k \in DOMAIN scheduled' : k \in DOMAIN scheduled \/ k = Len(scheduled) + 1
      BY <2>1, <3>1
    <3> QED BY <3>2, <3>3
  <2> QED BY <2>2, <2>3
<1>8. ASSUME NEW e \in DeviceList
      PROVE  \A g : g \in PendingFor(e)' <=> g \in PendingFor(e) \/ (g = f /\ active[e] /\ e # d)
  <2>1. ASSUME NEW g \in PendingFor(e)' PROVE g \in PendingFor(e) \/ (g = f /\ active[e] /\ e # d)
    <3>1. PICK k \in DOMAIN scheduled' :
            g = scheduled'[k].frame /\ e \in scheduled'[k].to /\ scheduled'[k].src # e
      BY PendingNext, Zenon
    <3>2. CASE k \in DOMAIN scheduled
      BY <1>6, <3>1, <3>2, Pending, Zenon
    <3>3. CASE scheduled'[k] = sent
      BY <1>2, <1>3, <3>1, <3>3 DEF Receivers
    <3> QED BY <1>7, <3>2, <3>3
  <2>2. ASSUME NEW g \in PendingFor(e) PROVE g \in PendingFor(e)'
    <3>1. PICK k \in DOMAIN scheduled :
            g = scheduled[k].frame /\ e \in scheduled[k].to /\ scheduled[k].src # e
      BY Pending, Zenon
    <3>2. k \in DOMAIN scheduled' /\ scheduled'[k] = scheduled[k]
      BY <1>6
    <3> QED BY <3>1, <3>2, PendingNext, Zenon
  <2>3. ASSUME active[e], e # d PROVE f \in PendingFor(e)'
    <3>1. e \in to
      BY <1>2, <2>3 DEF Receivers
    <3>2. PICK k \in DOMAIN scheduled' : scheduled'[k] = sent
      BY <1>7, <3>1
    <3>3. f = scheduled'[k].frame /\ e \in scheduled'[k].to /\ scheduled'[k].src # e
      BY <1>3, <2>3, <3>1, <3>2
    <3> QED BY <3>3, PendingNext, Zenon
  <2> QED BY <2>1, <2>2, <2>3
<1>9. ASSUME NEW e \in Devices PROVE missed'[e] = IF e \in DeviceList /\ ~active[e]
                                                THEN missed[e] \cup {f} ELSE missed[e]
  BY <1>2
<1>10. ASSUME NEW e \in DeviceList PROVE Hears(e)'
  <2>1. Hears(e) /\ Got(e) \subseteq Carried /\ missed[e] \subseteq Carried /\ e \in Devices
    BY <1>1 DEF HearInv
  <2>2. \A i, j \in DOMAIN received'[e] : i < j => Before(transmitted', received'[e][i], received'[e][j])
    BY <1>2, <1>4, <2>1 DEF Hears
  <2>3. \A g \in Got(e)', h \in PendingFor(e)' : Before(transmitted', g, h)
    BY <1>4, <1>5, <1>8, <2>1 DEF Hears
  <2>4. \A g : g \in Got(e)' \/ g \in PendingFor(e)' <=>
                 g \in Carried' /\ source'[g] # e /\ g \notin missed'[e]
    <3>1. \A g : g \in Got(e) \/ g \in PendingFor(e) <=>
                   g \in Carried /\ source[g] # e /\ g \notin missed[e]
      BY <2>1 DEF Hears
    <3>2. active[e] \in BOOLEAN
      BY <1>1, <2>1 DEF OtherType
    <3>3. f \notin missed[e] /\ (source[f] # e <=> e # d)
      BY <1>2, <1>5, <2>1
    <3>4. \A g : g \in missed'[e] <=> g \in missed[e] \/ (g = f /\ ~active[e])
      BY <1>9, <2>1
    <3> QED BY <1>2, <1>4, <1>5, <1>8, <3>1, <3>3, <3>4
  <2> QED BY <2>2, <2>3, <2>4, Zenon DEF Hears
<1>11. InTurn'
  <2> SUFFICES ASSUME NEW k \in DOMAIN scheduled', NEW l \in DOMAIN scheduled', k < l
               PROVE  Before(transmitted', scheduled'[k].frame, scheduled'[l].frame)
    BY Zenon DEF InTurn
  <2>1. k \in DOMAIN scheduled /\ scheduled'[k] = scheduled[k] /\ scheduled[k].frame \in Carried
    BY <1>6 DEF HearInv
  <2>2. CASE l \in DOMAIN scheduled
    <3>1. Before(transmitted, scheduled[k].frame, scheduled[l].frame) /\ scheduled'[l] = scheduled[l]
      BY <1>6, <2>1, <2>2 DEF HearInv, InTurn
    <3> QED BY <1>4, <2>1, <3>1
  <2>3. CASE scheduled'[l] = sent
    BY <1>3, <1>4, <2>1, <2>3
  <2> QED BY <1>7, <2>2, <2>3
<1>12. ASSUME NEW k \in DOMAIN scheduled'
       PROVE  /\ scheduled'[k].frame \in Carried' /\ scheduled'[k].src = source'[scheduled'[k].frame]
              /\ scheduled'[k].to \subseteq DeviceList'
  <2>1. CASE k \in DOMAIN scheduled
    BY <1>2, <1>4, <1>5, <1>6, <2>1 DEF HearInv
  <2>2. CASE scheduled'[k] = sent
    BY <1>2, <1>3, <1>4, <1>5, <1>sent, <2>2
  <2> QED BY <1>7, <2>1, <2>2
<1>13. ASSUME NEW e \in Devices
       PROVE  /\ missed'[e] \subseteq Carried' /\ Got(e)' \subseteq Carried'
              /\ e \notin DeviceList' => received'[e] = <<>>
  <2>1. /\ missed[e] \subseteq Carried /\ Got(e) \subseteq Carried
        /\ e \notin DeviceList => received[e] = <<>>
    BY DEF HearInv
  <2>2. \A g \in missed'[e] : g \in missed[e] \/ g = f
    BY <1>9
  <2>3. e \notin DeviceList' => received'[e] = <<>>
    BY <1>2, <1>5, <2>1
  <2> QED BY <1>4, <1>5, <2>1, <2>2, <2>3
<1> QED BY <1>5, <1>10, <1>11, <1>12, <1>13 DEF HearInv

(* The first event loses d from its devices, or its place. *)
LEMMA EventTaken ==
  ASSUME TypeOK, scheduled # <<>>, NEW d \in Devices,
         scheduled' = IF ~Head(scheduled).idle /\ Head(scheduled).to = {d} THEN Tail(scheduled)
                      ELSE [scheduled EXCEPT ![1].to = @ \ {d}]
  PROVE  \/ /\ Head(scheduled).to = {d} /\ scheduled' = Tail(scheduled)
         \/ /\ DOMAIN scheduled' = DOMAIN scheduled /\ 1 \in DOMAIN scheduled
            /\ scheduled'[1].frame = scheduled[1].frame /\ scheduled'[1].src = scheduled[1].src
            /\ scheduled'[1].to = scheduled[1].to \ {d}
            /\ \A k \in DOMAIN scheduled : k # 1 => scheduled'[k] = scheduled[k]
<1>1. CASE ~Head(scheduled).idle /\ Head(scheduled).to = {d}
  BY <1>1
<1>2. CASE ~(~Head(scheduled).idle /\ Head(scheduled).to = {d})
  <2>1. scheduled' = HeardBy(scheduled, d)
    BY <1>2, Zenon DEF HeardBy
  <2>2. scheduled \in Seq(Propagating)
    BY DEF TypeOK
  <2> QED BY <2>1, <2>2, HeardType
<1> QED BY <1>1, <1>2

(* The second event becomes the first. *)
LEMMA TailAt ==
  ASSUME TypeOK, scheduled # <<>>, scheduled' = Tail(scheduled)
  PROVE  /\ 1 \in DOMAIN scheduled /\ Head(scheduled) = scheduled[1]
         /\ \A k \in DOMAIN scheduled' : /\ k + 1 \in DOMAIN scheduled /\ 1 < k + 1
                                         /\ scheduled'[k] = scheduled[k + 1]
         /\ \A k, l \in DOMAIN scheduled' : k < l => k + 1 < l + 1
         /\ \A k \in DOMAIN scheduled : k # 1 =>
              k - 1 \in DOMAIN scheduled' /\ scheduled'[k - 1] = scheduled[k]
<1>1. scheduled \in Seq(Propagating)
  BY DEF TypeOK
<1> QED BY <1>1

(* What is scheduled when the first event has been heard by d: the same,    *)
(* but that its frame is no longer pending for d.                           *)
LEMMA AfterHearing ==
  ASSUME TypeOK, FramesInv, HearInv, scheduled # <<>>, UNCHANGED <<source, transmitted>>,
         NEW d \in Devices, d \in scheduled[1].to,
         scheduled' = IF ~Head(scheduled).idle /\ Head(scheduled).to = {d} THEN Tail(scheduled)
                      ELSE [scheduled EXCEPT ![1].to = @ \ {d}]
  PROVE  LET f == scheduled[1].frame
         IN /\ InTurn'
            /\ \A k \in DOMAIN scheduled' :
                 /\ scheduled'[k].frame \in Carried
                 /\ scheduled'[k].src = source[scheduled'[k].frame]
                 /\ scheduled'[k].to \subseteq DeviceList
            /\ \A e, g : e # d => (g \in PendingFor(e)' <=> g \in PendingFor(e))
            /\ \A g : g \in PendingFor(d)' <=> g \in PendingFor(d) /\ g # f
            /\ f \in PendingFor(d) <=> scheduled[1].src # d
            /\ \A g \in PendingFor(d)' : Before(transmitted, f, g)
<1> DEFINE f == scheduled[1].frame
<1>1. 1 \in DOMAIN scheduled /\ scheduled[1] = Head(scheduled) /\ DOMAIN scheduled \subseteq Nat
      /\ \A k \in DOMAIN scheduled : k # 1 => 1 < k
  BY DEF TypeOK
<1>2. /\ \A k, l \in DOMAIN scheduled : k < l =>
           Before(transmitted, scheduled[k].frame, scheduled[l].frame)
      /\ \A k \in DOMAIN scheduled :
           scheduled[k].frame \in Carried /\ scheduled[k].src = source[scheduled[k].frame]
  BY DEF HearInv, InTurn
<1>3. \A k \in DOMAIN scheduled : k # 1 =>
        Before(transmitted, f, scheduled[k].frame) /\ scheduled[k].frame # f
  BY <1>1, <1>2, NotTwice
<1>4. f \in PendingFor(d) <=> scheduled[1].src # d
  <2>1. ASSUME f \in PendingFor(d) PROVE scheduled[1].src # d
    <3>1. PICK k \in DOMAIN scheduled :
            f = scheduled[k].frame /\ d \in scheduled[k].to /\ scheduled[k].src # d
      BY <2>1, Pending, Zenon
    <3> QED BY <1>3, <3>1
  <2>2. ASSUME scheduled[1].src # d PROVE f \in PendingFor(d)
    BY <1>1, <2>2, Pending, Zenon
  <2> QED BY <2>1, <2>2
(* An event of the new list was one of the old, and the other way round.    *)
<1>5. /\ \A k \in DOMAIN scheduled' : \E l \in DOMAIN scheduled :
           /\ scheduled'[k].frame = scheduled[l].frame /\ scheduled'[k].src = scheduled[l].src
           /\ \A e : e \in scheduled'[k].to <=> e \in scheduled[l].to /\ (l # 1 \/ e # d)
      /\ \A l \in DOMAIN scheduled :
           \/ l = 1 /\ scheduled[l].to = {d}
           \/ \E k \in DOMAIN scheduled' :
                /\ scheduled'[k].frame = scheduled[l].frame /\ scheduled'[k].src = scheduled[l].src
                /\ \A e : e \in scheduled'[k].to <=> e \in scheduled[l].to /\ (l # 1 \/ e # d)
      /\ InTurn'
  <2>1. CASE Head(scheduled).to = {d} /\ scheduled' = Tail(scheduled)
    <3>1. /\ \A k \in DOMAIN scheduled' : /\ k + 1 \in DOMAIN scheduled /\ k + 1 # 1
                                         /\ scheduled'[k] = scheduled[k + 1]
          /\ \A k, l \in DOMAIN scheduled' : k < l => k + 1 < l + 1
          /\ \A k \in DOMAIN scheduled : k # 1 =>
               k - 1 \in DOMAIN scheduled' /\ scheduled'[k - 1] = scheduled[k]
      <4>1. \A k : 1 < k => k # 1
        OBVIOUS
      <4> QED BY <2>1, <4>1, TailAt
    <3>2. InTurn'
      <4> SUFFICES ASSUME NEW k \in DOMAIN scheduled', NEW l \in DOMAIN scheduled', k < l
                   PROVE  Before(transmitted, scheduled'[k].frame, scheduled'[l].frame)
        BY DEF InTurn
      <4>1. k + 1 < l + 1 /\ k + 1 \in DOMAIN scheduled /\ l + 1 \in DOMAIN scheduled
        BY <3>1
      <4>2. Before(transmitted, scheduled[k + 1].frame, scheduled[l + 1].frame)
        BY <1>2, <4>1, Zenon
      <4> QED BY <3>1, <4>2
    <3>3. scheduled[1].to = {d}
      BY <1>1, <2>1
    <3> QED BY <3>1, <3>2, <3>3, Zenon
  <2>2. CASE /\ DOMAIN scheduled' = DOMAIN scheduled /\ 1 \in DOMAIN scheduled
             /\ scheduled'[1].frame = scheduled[1].frame /\ scheduled'[1].src = scheduled[1].src
             /\ scheduled'[1].to = scheduled[1].to \ {d}
             /\ \A k \in DOMAIN scheduled : k # 1 => scheduled'[k] = scheduled[k]
    <3>1. \A k \in DOMAIN scheduled :
            /\ scheduled'[k].frame = scheduled[k].frame /\ scheduled'[k].src = scheduled[k].src
            /\ \A e : e \in scheduled'[k].to <=> e \in scheduled[k].to /\ (k # 1 \/ e # d)
      BY <2>2
    <3>2. InTurn'
      BY <1>2, <2>2, <3>1 DEF InTurn
    <3> QED BY <2>2, <3>1, <3>2, Zenon
  <2> QED BY <2>1, <2>2, EventTaken
<1>6. ASSUME NEW e, NEW g
      PROVE  g \in PendingFor(e)' <=>
               \E l \in DOMAIN scheduled : /\ g = scheduled[l].frame /\ scheduled[l].src # e
                                           /\ e \in scheduled[l].to /\ (l # 1 \/ e # d)
  <2>1. ASSUME g \in PendingFor(e)'
        PROVE  \E l \in DOMAIN scheduled : /\ g = scheduled[l].frame /\ scheduled[l].src # e
                                            /\ e \in scheduled[l].to /\ (l # 1 \/ e # d)
    <3>1. PICK k \in DOMAIN scheduled' :
            g = scheduled'[k].frame /\ e \in scheduled'[k].to /\ scheduled'[k].src # e
      BY <2>1, PendingNext, Zenon
    <3>2. PICK l \in DOMAIN scheduled :
            /\ scheduled'[k].frame = scheduled[l].frame /\ scheduled'[k].src = scheduled[l].src
            /\ \A x : x \in scheduled'[k].to <=> x \in scheduled[l].to /\ (l # 1 \/ x # d)
      BY <1>5
    <3> QED BY <3>1, <3>2
  <2>2. ASSUME NEW l \in DOMAIN scheduled, g = scheduled[l].frame, scheduled[l].src # e,
               e \in scheduled[l].to, l # 1 \/ e # d
        PROVE  g \in PendingFor(e)'
    <3>1. ~(l = 1 /\ scheduled[l].to = {d})
      BY <2>2
    <3>2. PICK k \in DOMAIN scheduled' :
            /\ scheduled'[k].frame = scheduled[l].frame /\ scheduled'[k].src = scheduled[l].src
            /\ \A x : x \in scheduled'[k].to <=> x \in scheduled[l].to /\ (l # 1 \/ x # d)
      BY <1>5, <3>1
    <3>3. g = scheduled'[k].frame /\ e \in scheduled'[k].to /\ scheduled'[k].src # e
      BY <2>2, <3>2
    <3> QED BY <3>3, PendingNext, Zenon
  <2> QED BY <2>1, <2>2
<1>7. ASSUME NEW e, NEW g, e # d PROVE g \in PendingFor(e)' <=> g \in PendingFor(e)
  <2>1. g \in PendingFor(e) <=> \E l \in DOMAIN scheduled :
          g = scheduled[l].frame /\ e \in scheduled[l].to /\ scheduled[l].src # e
    BY Pending
  <2>2. g \in PendingFor(e)' <=>
          \E l \in DOMAIN scheduled : /\ g = scheduled[l].frame /\ scheduled[l].src # e
                                      /\ e \in scheduled[l].to /\ (l # 1 \/ e # d)
    BY <1>6
  <2> QED BY <1>7, <2>1, <2>2
<1>8. ASSUME NEW g
      PROVE  /\ g \in PendingFor(d)' <=> g \in PendingFor(d) /\ g # f
             /\ g \in PendingFor(d)' => Before(transmitted, f, g)
  <2>1. g \in PendingFor(d) <=> \E l \in DOMAIN scheduled :
          g = scheduled[l].frame /\ d \in scheduled[l].to /\ scheduled[l].src # d
    BY Pending
  <2>2. g \in PendingFor(d)' <=>
          \E l \in DOMAIN scheduled : /\ g = scheduled[l].frame /\ scheduled[l].src # d
                                      /\ d \in scheduled[l].to /\ (l # 1 \/ d # d)
    BY <1>6
  <2> QED BY <1>3, <2>1, <2>2
<1>9. \A k \in DOMAIN scheduled' :
        /\ scheduled'[k].frame \in Carried /\ scheduled'[k].src = source[scheduled'[k].frame]
        /\ scheduled'[k].to \subseteq DeviceList
  <2>1. \A l \in DOMAIN scheduled : scheduled[l].to \subseteq DeviceList
    BY DEF HearInv
  <2> QED BY <1>2, <1>5, <2>1
<1> HIDE DEF f
<1> QED BY <1>4, <1>5, <1>7, <1>8, <1>9 DEF f

(* A device hears the first event. *)
LEMMA HearReceive ==
  ASSUME TypeOK, BusInv, FramesInv, HearInv, NEW d \in DeviceList, Receive(d) PROVE HearInv'
<1>1. DeviceType /\ OtherType /\ d \in Devices /\ DeviceList \subseteq Devices
  BY TypeParts, ListOfDevices
<1>2. /\ scheduled # <<>> /\ d \in Head(scheduled).to /\ Hear(d, Head(scheduled))
      /\ UNCHANGED <<attached, source, transmitted>>
      /\ scheduled' = IF ~Head(scheduled).idle /\ Head(scheduled).to = {d} THEN Tail(scheduled)
                      ELSE [scheduled EXCEPT ![1].to = @ \ {d}]
  BY DEF Receive, IsFirst
<1>3. Head(scheduled) = scheduled[1] /\ 1 \in DOMAIN scheduled
  BY <1>1, <1>2 DEF OtherType
<1> DEFINE p == scheduled[1]
<1>4. PICK f : /\ f = p.frame /\ InTurn'
               /\ \A k \in DOMAIN scheduled' :
                    /\ scheduled'[k].frame \in Carried
                    /\ scheduled'[k].src = source[scheduled'[k].frame]
                    /\ scheduled'[k].to \subseteq DeviceList
               /\ \A e, g : e # d => (g \in PendingFor(e)' <=> g \in PendingFor(e))
               /\ \A g : g \in PendingFor(d)' <=> g \in PendingFor(d) /\ g # f
               /\ f \in PendingFor(d) <=> p.src # d
               /\ \A g \in PendingFor(d)' : Before(transmitted, f, g)
  BY <1>1, <1>2, <1>3, AfterHearing
<1>5. /\ Carried' = Carried /\ DeviceList' = DeviceList /\ transmitted' = transmitted
      /\ f \in Carried
  BY <1>2, <1>3, <1>4 DEF Carried, DeviceList, HearInv
<1>6. /\ received \in [Devices -> Seq(Frames)] /\ missed \in [Devices -> SUBSET Frames]
      /\ f \in Frames
  <2>1. p \in Propagating
    BY <1>1, <1>3 DEF OtherType
  <2> QED BY <1>1, <1>4, <2>1 DEF OtherType, Propagating
<1>7. /\ Hears(d) /\ \A e \in Devices : missed[e] \subseteq Carried /\ Got(e) \subseteq Carried
  BY DEF HearInv
<1>8. f \in PendingFor(d) => f \notin Got(d) /\ \A g \in Got(d) : Before(transmitted, g, f)
  BY <1>7, NotTwice DEF Hears
<1>9. ASSUME NEW e \in DeviceList, e # d, received'[e] = received[e], missed'[e] = missed[e]
      PROVE  Hears(e)'
  <2>1. Hears(e) /\ Got(e)' = Got(e)
    BY <1>9 DEF HearInv, Got
  <2> QED BY <1>2, <1>4, <1>5, <1>9, <2>1 DEF Hears
<1>10. CASE d = p.src /\ UNCHANGED receiverVars
  <2>1. \A e : Got(e)' = Got(e)
    BY <1>10 DEF Got, receiverVars
  <2>2. Hears(d)'
    BY <1>2, <1>4, <1>5, <1>7, <1>10, <2>1 DEF Hears, receiverVars
  <2> QED BY <1>2, <1>4, <1>5, <1>7, <1>9, <1>10, <2>1, <2>2 DEF HearInv, receiverVars
<1>11. CASE d # p.src /\ missed' = [missed EXCEPT ![d] = @ \cup {f}] /\ UNCHANGED received
  <2>1. /\ missed'[d] = missed[d] \cup {f}
        /\ \A e \in Devices : e # d => missed'[e] = missed[e]
        /\ \A e : Got(e)' = Got(e)
    BY <1>1, <1>6, <1>11 DEF Got
  <2>2. Hears(d)'
    BY <1>2, <1>4, <1>5, <1>7, <1>8, <1>11, <2>1 DEF Hears
  <2>3. \A e \in DeviceList : Hears(e)'
    BY <1>1, <1>9, <1>11, <2>1, <2>2
  <2>4. ASSUME NEW e \in Devices
        PROVE  /\ missed'[e] \subseteq Carried' /\ Got(e)' \subseteq Carried'
               /\ e \notin DeviceList' => received'[e] = <<>>
    <3>1. e \notin DeviceList => received[e] = <<>>
      BY DEF HearInv
    <3>2. missed'[e] \subseteq Carried
      BY <1>5, <1>7, <2>1
    <3> QED BY <1>5, <1>7, <1>11, <2>1, <3>1, <3>2
  <2> QED BY <1>2, <1>4, <1>5, <2>3, <2>4 DEF HearInv
<1>12. CASE d # p.src /\ received' = [received EXCEPT ![d] = Append(@, f)] /\ UNCHANGED missed
  <2>1. /\ received'[d] = Append(received[d], f)
        /\ \A e \in Devices : e # d => received'[e] = received[e]
    BY <1>1, <1>6, <1>12
  <2>2. /\ \A i \in DOMAIN received[d] :
             i \in DOMAIN received'[d] /\ received'[d][i] = received[d][i]
        /\ \A i \in DOMAIN received'[d] :
             i \in DOMAIN received[d] \/ (i = Len(received[d]) + 1 /\ received'[d][i] = f)
        /\ \A i, j \in DOMAIN received'[d] : i < j => i \in DOMAIN received[d]
        /\ Len(received[d]) + 1 \in DOMAIN received'[d] /\ received'[d][Len(received[d]) + 1] = f
    <3>1. received[d] \in Seq(Frames)
      BY <1>1, <1>6
    <3> QED BY <1>6, <2>1, <3>1
  <2>3. \A g : g \in Got(d)' <=> g \in Got(d) \/ g = f
    BY <2>2, Zenon DEF Got
  <2>4. \A e \in Devices : e # d => Got(e)' = Got(e)
    BY <2>1 DEF Got
  <2>5. \A i, j \in DOMAIN received'[d] : i < j =>
          Before(transmitted, received'[d][i], received'[d][j])
    <3> SUFFICES ASSUME NEW i \in DOMAIN received'[d], NEW j \in DOMAIN received'[d], i < j
                 PROVE  Before(transmitted, received'[d][i], received'[d][j])
      OBVIOUS
    <3>1. i \in DOMAIN received[d] /\ received'[d][i] = received[d][i] /\ received[d][i] \in Got(d)
      BY <2>2 DEF Got
    <3>2. CASE j \in DOMAIN received[d]
      BY <1>7, <2>2, <3>1, <3>2 DEF Hears
    <3>3. CASE received'[d][j] = f
      BY <1>4, <1>8, <1>12, <3>1, <3>3
    <3> QED BY <2>2, <3>2, <3>3
  <2>6. Hears(d)'
    BY <1>2, <1>4, <1>5, <1>7, <1>12, <2>3, <2>5 DEF Hears
  <2>7. \A e \in DeviceList : Hears(e)'
    BY <1>1, <1>9, <1>12, <2>1, <2>6
  <2> QED BY <1>2, <1>4, <1>5, <1>7, <1>12, <2>3, <2>4, <2>7 DEF HearInv
<1> QED BY <1>2, <1>3, <1>4, <1>10, <1>11, <1>12 DEF Hear

(* A frame has propagated, and is pending for nobody. *)
LEMMA HearPropagationComplete ==
  ASSUME TypeOK, BusInv, FramesInv, HearInv, PropagationComplete PROVE HearInv'
<1>1. /\ scheduled # <<>> /\ Head(scheduled).to = {} /\ scheduled' = Tail(scheduled)
      /\ UNCHANGED <<attached, received, missed, source, transmitted>>
  BY DEF PropagationComplete, CompleteIsNext, receiverVars
<1>2. /\ 1 \in DOMAIN scheduled /\ Head(scheduled) = scheduled[1]
      /\ \A k \in DOMAIN scheduled' : /\ k + 1 \in DOMAIN scheduled /\ 1 < k + 1
                                      /\ scheduled'[k] = scheduled[k + 1]
      /\ \A k, l \in DOMAIN scheduled' : k < l => k + 1 < l + 1
      /\ \A k \in DOMAIN scheduled : k # 1 =>
           k - 1 \in DOMAIN scheduled' /\ scheduled'[k - 1] = scheduled[k]
  BY <1>1, TailAt
<1>3. \A e, g : g \in PendingFor(e)' <=> g \in PendingFor(e)
  <2>1. ASSUME NEW e, NEW g, g \in PendingFor(e)' PROVE g \in PendingFor(e)
    <3>1. PICK k \in DOMAIN scheduled' :
            g = scheduled'[k].frame /\ e \in scheduled'[k].to /\ scheduled'[k].src # e
      BY <2>1, PendingNext, Zenon
    <3>2. k + 1 \in DOMAIN scheduled /\ scheduled'[k] = scheduled[k + 1]
      BY <1>2
    <3>3. \E l \in DOMAIN scheduled :
            g = scheduled[l].frame /\ e \in scheduled[l].to /\ scheduled[l].src # e
      BY <3>1, <3>2
    <3> QED BY <3>3, Pending, Zenon
  <2>2. ASSUME NEW e, NEW g, g \in PendingFor(e) PROVE g \in PendingFor(e)'
    <3>1. PICK k \in DOMAIN scheduled :
            g = scheduled[k].frame /\ e \in scheduled[k].to /\ scheduled[k].src # e
      BY <2>2, Pending, Zenon
    <3>2. k # 1
      BY <1>1, <1>2, <3>1
    <3>3. k - 1 \in DOMAIN scheduled' /\ scheduled'[k - 1] = scheduled[k]
      BY <1>2, <3>2
    <3>4. \E l \in DOMAIN scheduled' :
            g = scheduled'[l].frame /\ e \in scheduled'[l].to /\ scheduled'[l].src # e
      BY <3>1, <3>3
    <3> QED BY <3>4, PendingNext, Zenon
  <2> QED BY <2>1, <2>2
<1>4. /\ Carried' = Carried /\ DeviceList' = DeviceList /\ \A e : Got(e)' = Got(e)
  BY <1>1 DEF Carried, DeviceList, Got
<1>5. InTurn'
  BY <1>1, <1>2, Zenon DEF HearInv, InTurn
<1>6. \A e \in DeviceList : Hears(e)'
  BY <1>1, <1>3, <1>4 DEF HearInv, Hears
<1>7. \A k \in DOMAIN scheduled' :
        /\ scheduled'[k].frame \in Carried' /\ scheduled'[k].src = source'[scheduled'[k].frame]
        /\ scheduled'[k].to \subseteq DeviceList'
  BY <1>1, <1>2, <1>4 DEF HearInv
<1> QED BY <1>1, <1>4, <1>5, <1>6, <1>7 DEF HearInv

(* Every step. *)
LEMMA HearStep ==
  ASSUME TypeOK, BusInv, ~disturbed, FramesInv, HearInv, [Next]_vars PROVE HearInv'
<1>1. CASE Attach
  BY <1>1, HearAttach
<1>2. ASSUME NEW d \in DeviceList, DetachOrReattach(d) \/ SetSendEnable(d) \/ SetReceiveEnable(d)
      PROVE  HearInv'
  BY <1>2, HearRest DEF DetachOrReattach, SetSendEnable, SetReceiveEnable, channelVars, receiverVars
<1>3. ASSUME NEW d \in DeviceList, SendFrom(d) PROVE HearInv'
  <2>1. \A f \in DOMAIN source : source'[f] = source[f]
    <3>1. source \in Seq(Devices) /\ d \in Devices /\ source' = Append(source, d)
      BY <1>3, TypeParts, ListOfDevices DEF OtherType, SendFrom
    <3> QED BY <3>1
  <2> QED BY <1>3, <2>1, HearRest DEF SendFrom, receiverVars
<1>4. ASSUME NEW d \in DeviceList, BackoffOver(d) PROVE HearInv'
  BY <1>4, HearRest DEF BackoffOver, receiverVars
<1>5. ASSUME NEW d \in DeviceList, TransmitComplete(d) PROVE HearInv'
  BY <1>5, HearTransmitComplete
<1>6. ASSUME NEW d \in DeviceList, TransmitReady(d) PROVE HearInv'
  BY <1>6, HearRest DEF TransmitReady, receiverVars
<1>7. ASSUME NEW d \in DeviceList, Receive(d) PROVE HearInv'
  BY <1>7, HearReceive
<1>8. CASE PropagationComplete
  BY <1>8, HearPropagationComplete
<1>9. CASE (\E d \in DeviceList : CompleteAsserts(d)) \/ PropagationAsserts
  BY <1>9, HearRest DEF CompleteAsserts, PropagationAsserts, Asserts, channelVars, receiverVars
<1>10. CASE UNCHANGED vars
  BY <1>10, HearRest DEF vars, channelVars, receiverVars
<1> QED BY <1>1, <1>2, <1>3, <1>4, <1>5, <1>6, <1>7, <1>8, <1>9, <1>10 DEF Next

(* Every device receives the frames of the others once, and in the order    *)
(* the channel carried them, but for those it was cut off from, and through *)
(* a fallback to half duplex, unless a frame was on the channel then.       *)
THEOREM EveryoneHearsTheSameCorrect == Spec => []EveryoneHearsTheSame
<1>1. Init => disturbed \/ (FramesInv /\ HearInv)
  BY FramesInit, HearInit
<1>2. TypeOK /\ BusInv /\ (disturbed \/ (FramesInv /\ HearInv)) /\ [Next]_vars
        => disturbed' \/ (FramesInv' /\ HearInv')
  BY FramesStep, HearStep, StaysDisturbed
<1>3. disturbed \/ (FramesInv /\ HearInv) => EveryoneHearsTheSame
  <2>1. disturbed => EveryoneHearsTheSame
    BY Zenon DEF EveryoneHearsTheSame
  <2> QED BY <2>1, HearsTheSame
<1> QED BY <1>1, <1>2, <1>3, InvCorrect, PTL DEF Spec
=============================================================================
