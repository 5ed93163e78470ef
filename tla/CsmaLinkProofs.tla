--------------------------- MODULE CsmaLinkProofs ---------------------------
(***************************************************************************)
(* Theorems about a full-duplex CSMA link, for any queue capacity and any  *)
(* marking threshold: its invariants, and that each of its steps is a step *)
(* of Link, the specification the switches rely on.                        *)
(***************************************************************************)
EXTENDS CsmaLink, TLAPS

(* The transmitter, its packet and the channel change together, a READY     *)
(* device is empty, a device in GAP has sent a packet, and the line keeps   *)
(* within its bound.                                                        *)
CsmaInv ==
  /\ m_txMachineState = "BUSY" <=> m_state = "TRANSMITTING"
  /\ m_txMachineState = "BUSY" <=> m_currentPkt # <<>>
  /\ m_txMachineState = "READY" => m_queue = <<>>
  /\ m_txMachineState = "GAP" => propagating # <<>> \/ delivered # <<>>
  /\ Len(propagating) + Len(m_currentPkt) <= LineLength

-----------------------------------------------------------------------------
(* Facts about sequences. *)

(* The empty sequence. *)
LEMMA EmptySeq == ASSUME NEW S PROVE <<>> \in Seq(S) /\ Len(<<>>) = 0
OBVIOUS

(* What Append gives. *)
LEMMA AppendType ==
  ASSUME NEW S, NEW q \in Seq(S), NEW x \in S
  PROVE  /\ Append(q, x) \in Seq(S) /\ Len(Append(q, x)) = Len(q) + 1
         /\ Append(q, x) # <<>>
<1>1. Append(q, x) \in Seq(S) /\ Len(Append(q, x)) = Len(q) + 1
  OBVIOUS
<1>2. Len(q) \in Nat /\ Len(<<>>) = 0
  OBVIOUS
<1> QED BY <1>1, <1>2

(* What Head and Tail give. *)
LEMMA TailType ==
  ASSUME NEW S, NEW q \in Seq(S), q # <<>>
  PROVE  Head(q) \in S /\ Tail(q) \in Seq(S) /\ Len(Tail(q)) = Len(q) - 1
OBVIOUS

(* A sequence of one packet. *)
LEMMA Singleton ==
  ASSUME NEW S, NEW x \in S
  PROVE  /\ Append(<<>>, x) = <<x>> /\ <<x>> \in Seq(S) /\ Len(<<x>>) = 1
         /\ Head(<<x>>) = x /\ Tail(<<x>>) = <<>> /\ <<x>> # <<>>
OBVIOUS

(* What concatenation gives. *)
LEMMA ConcatType ==
  ASSUME NEW S, NEW q \in Seq(S), NEW r \in Seq(S)
  PROVE  q \o r \in Seq(S) /\ Len(q \o r) = Len(q) + Len(r)
OBVIOUS

(* The empty sequence is the unit of concatenation. *)
LEMMA ConcatEmpty == ASSUME NEW S, NEW q \in Seq(S) PROVE q \o <<>> = q
OBVIOUS

(* Append in terms of concatenation. *)
LEMMA ConcatAppend ==
  ASSUME NEW S, NEW q \in Seq(S), NEW x \in S
  PROVE  q \o <<x>> = Append(q, x)
OBVIOUS

(* The head and the tail of a concatenation. *)
LEMMA ConcatHead ==
  ASSUME NEW S, NEW q \in Seq(S), NEW r \in Seq(S), q # <<>>
  PROVE  Head(q \o r) = Head(q) /\ Tail(q \o r) = Tail(q) \o r
OBVIOUS

(* Only the empty sequence has length 0. *)
LEMMA LenZero == ASSUME NEW S, NEW q \in Seq(S) PROVE Len(q) = 0 <=> q = <<>>
OBVIOUS

-----------------------------------------------------------------------------

(* The packets a step handles are packets. *)
LEMMA NewPacketType ==
  ASSUME TypeOK, NEW large \in BOOLEAN, NEW tos \in TosValues
  PROVE  MarkEcn([id |-> sent + 1, large |-> large, tos |-> tos]) \in Packet
<1> DEFINE pkt == [id |-> sent + 1, large |-> large, tos |-> tos]
<1>1. pkt \in Packet
  BY CsmaAssumption DEF TypeOK, Packet
<1>2. pkt.tos \in 0 .. 255
  BY CsmaAssumption
<1> HIDE DEF pkt
<1>3. ((pkt.tos \div 4) * 4 + 3) \in 0 .. 255
  BY <1>2
<1>4. [pkt EXCEPT !.tos = (pkt.tos \div 4) * 4 + 3] \in Packet
  BY <1>1, <1>3, Zenon DEF Packet
<1>5. MarkEcn(pkt) \in {pkt, [pkt EXCEPT !.tos = (pkt.tos \div 4) * 4 + 3]}
  BY Zenon DEF MarkEcn
<1>6. MarkEcn(pkt) \in Packet
  BY <1>1, <1>4, <1>5, Zenon
<1> QED BY <1>6 DEF pkt

(* TransmitStart on an idle channel. *)
LEMMA TransmitStartStep ==
  ASSUME TypeOK, CsmaInv, NEW q \in Seq(Packet), q # <<>>, Len(q) <= MaxPackets + 1,
         m_txMachineState # "BUSY", TransmitStart(q)
  PROVE  /\ m_txMachineState' = "BUSY" /\ m_state' = "TRANSMITTING"
         /\ m_currentPkt' = <<Head(q)>> /\ m_queue' = Tail(q)
         /\ m_currentPkt' \in Seq(Packet) /\ Len(m_currentPkt') = 1
         /\ m_currentPkt' # <<>>
         /\ m_queue' \in Seq(Packet) /\ Len(m_queue') <= MaxPackets
<1>1. m_state = "IDLE"
  BY DEF CsmaInv, TypeOK
<1>2. Head(q) \in Packet /\ Tail(q) \in Seq(Packet) /\ Len(Tail(q)) = Len(q) - 1
  BY TailType
<1>3. /\ <<Head(q)>> \in Seq(Packet) /\ Len(<<Head(q)>>) = 1 /\ <<Head(q)>> # <<>>
  BY <1>2, Singleton
<1>4. Len(q) \in Nat /\ MaxPackets \in Nat
  BY CsmaAssumption
<1>5. Len(Tail(q)) <= MaxPackets
  BY <1>2, <1>4
<1> QED BY <1>1, <1>2, <1>3, <1>5 DEF TransmitStart

(* The two outcomes of Send that change the device: a READY device starts  *)
(* with the packet, and any other puts it in the queue.                    *)
LEMMA SendStep ==
  ASSUME TypeOK, CsmaInv, Send
  PROVE  \E large \in BOOLEAN, tos \in TosValues :
           LET pkt == [id |-> sent + 1, large |-> large, tos |-> tos]
               m == MarkEcn(pkt) IN
           /\ m \in Packet /\ pkt.id \in Nat
           /\ \/ /\ Len(m_queue) >= MaxPackets
                 /\ dropped' = dropped \cup {pkt.id}
                 /\ UNCHANGED <<m_txMachineState, m_currentPkt, m_queue, m_state>>
              \/ /\ ~(Len(m_queue) >= MaxPackets)
                 /\ m_txMachineState = "READY" /\ LineFree
                 /\ m_txMachineState' = "BUSY" /\ m_state' = "TRANSMITTING"
                 /\ m_currentPkt' = <<m>> /\ m_queue' = <<>> /\ m_queue = <<>>
                 /\ UNCHANGED dropped
              \/ /\ ~(Len(m_queue) >= MaxPackets)
                 /\ m_txMachineState # "READY"
                 /\ m_queue' = Append(m_queue, m)
                 /\ UNCHANGED <<m_txMachineState, m_currentPkt, m_state, dropped>>
<1>1. PICK large \in BOOLEAN, tos \in TosValues :
        SendFrom([id |-> sent + 1, large |-> large, tos |-> tos])
  BY DEF Send
<1> DEFINE pkt == [id |-> sent + 1, large |-> large, tos |-> tos]
           m == MarkEcn(pkt)
<1>2. m \in Packet
  BY NewPacketType
<1>3. pkt.id \in Nat
  BY DEF TypeOK
<1>4. SendFrom(pkt)
  BY <1>1
<1>5. m_queue \in Seq(Packet) /\ Len(m_queue) \in Nat /\ MaxPackets \in Nat \ {0}
  BY CsmaAssumption DEF TypeOK
<1>6. CASE Len(m_queue) >= MaxPackets
  BY <1>2, <1>3, <1>4, <1>6 DEF SendFrom
<1>7. CASE ~(Len(m_queue) >= MaxPackets) /\ m_txMachineState = "READY"
  <2>1. m_queue = <<>> /\ LineFree
    BY <1>7 DEF CsmaInv, Send
  <2>2. TransmitStart(Append(m_queue, m)) /\ UNCHANGED dropped
    BY <1>4, <1>7 DEF SendFrom
  <2> HIDE DEF m
  <2>3. /\ Append(m_queue, m) = <<m>> /\ <<m>> \in Seq(Packet) /\ Len(<<m>>) = 1
        /\ Head(<<m>>) = m /\ Tail(<<m>>) = <<>> /\ <<m>> # <<>>
    BY <1>2, <2>1, Singleton
  <2>4. TransmitStart(<<m>>) /\ Len(<<m>>) <= MaxPackets + 1
    BY <1>5, <2>2, <2>3
  <2>5. /\ m_txMachineState' = "BUSY" /\ m_state' = "TRANSMITTING"
        /\ m_currentPkt' = <<m>> /\ m_queue' = <<>>
    BY <1>7, <2>3, <2>4, TransmitStartStep
  <2> QED BY <1>2, <1>3, <1>7, <2>1, <2>2, <2>5 DEF m
<1>8. CASE ~(Len(m_queue) >= MaxPackets) /\ m_txMachineState # "READY"
  BY <1>2, <1>3, <1>4, <1>8 DEF SendFrom
<1> QED BY <1>6, <1>7, <1>8

(* Send keeps the types and CsmaInv. *)
LEMMA SendInv ==
  ASSUME TypeOK, CsmaInv, Send PROVE TypeOK' /\ CsmaInv'
<1>1. PICK pkt, m :
        /\ m \in Packet /\ pkt.id \in Nat
        /\ \/ /\ dropped' = dropped \cup {pkt.id}
              /\ UNCHANGED <<m_txMachineState, m_currentPkt, m_queue, m_state>>
           \/ /\ m_txMachineState = "READY" /\ LineFree
              /\ m_txMachineState' = "BUSY" /\ m_state' = "TRANSMITTING"
              /\ m_currentPkt' = <<m>> /\ m_queue' = <<>>
              /\ UNCHANGED dropped
           \/ /\ ~(Len(m_queue) >= MaxPackets)
              /\ m_txMachineState # "READY"
              /\ m_queue' = Append(m_queue, m)
              /\ UNCHANGED <<m_txMachineState, m_currentPkt, m_state, dropped>>
  BY SendStep
<1>2. /\ sent \in Nat /\ sent' = sent + 1 /\ UNCHANGED <<propagating, delivered>>
      /\ MaxPackets \in Nat /\ Len(m_queue) \in Nat /\ dropped \subseteq Nat
      /\ propagating \in Seq(Packet) /\ Len(propagating) <= LineLength
      /\ delivered \in Seq(Packet) /\ m_queue \in Seq(Packet)
  BY CsmaAssumption DEF TypeOK, Send
<1>3. CASE /\ dropped' = dropped \cup {pkt.id}
           /\ UNCHANGED <<m_txMachineState, m_currentPkt, m_queue, m_state>>
  <2>1. dropped' \subseteq Nat /\ sent' \in Nat
    <3>1. \A S, x : S \subseteq Nat /\ x \in Nat => S \cup {x} \subseteq Nat
      OBVIOUS
    <3>2. dropped' \subseteq Nat
      BY <1>1, <1>2, <1>3, <3>1, Zenon
    <3> QED BY <1>2, <3>2
  <2>2. TypeOK'
    BY <1>2, <1>3, <2>1 DEF TypeOK
  <2>3. CsmaInv'
    BY <1>2, <1>3 DEF CsmaInv
  <2> QED BY <2>2, <2>3
<1>4. CASE /\ m_txMachineState = "READY" /\ LineFree
           /\ m_txMachineState' = "BUSY" /\ m_state' = "TRANSMITTING"
           /\ m_currentPkt' = <<m>> /\ m_queue' = <<>>
           /\ UNCHANGED dropped
  <2>1. m_currentPkt' \in Seq(Packet) /\ Len(m_currentPkt') = 1 /\ m_currentPkt' # <<>>
    BY <1>1, <1>4, Singleton
  <2>2. m_queue' \in Seq(Packet) /\ Len(m_queue') = 0
    BY <1>4, EmptySeq
  <2>3. TypeOK'
    BY <1>2, <1>4, <2>1, <2>2 DEF TypeOK
  <2>4. Len(propagating') + Len(m_currentPkt') <= LineLength
    <3>1. Len(propagating) < LineLength /\ Len(propagating) \in Nat /\ LineLength \in Nat
      <4>1. m_currentPkt = <<>>
        BY <1>4 DEF CsmaInv
      <4>2. Len(propagating) \in Nat /\ LineLength \in Nat /\ Len(m_currentPkt) = 0
        BY <1>2, <4>1, EmptySeq, CsmaAssumption
      <4> QED BY <1>4, <4>2 DEF LineFree
    <3> QED BY <1>2, <2>1, <3>1
  <2>5. CsmaInv'
    BY <1>4, <2>1, <2>4 DEF CsmaInv
  <2> QED BY <2>3, <2>5
<1>5. CASE /\ ~(Len(m_queue) >= MaxPackets)
           /\ m_txMachineState # "READY"
           /\ m_queue' = Append(m_queue, m)
           /\ UNCHANGED <<m_txMachineState, m_currentPkt, m_state, dropped>>
  <2>1. m_queue' \in Seq(Packet) /\ Len(m_queue') = Len(m_queue) + 1
    BY <1>1, <1>2, <1>5, AppendType
  <2>2. Len(m_queue') <= MaxPackets
    BY <1>2, <1>5, <2>1
  <2>3. TypeOK'
    BY <1>2, <1>5, <2>1, <2>2 DEF TypeOK
  <2>4. CsmaInv'
    BY <1>2, <1>5 DEF CsmaInv
  <2> QED BY <2>3, <2>4
<1> QED BY <1>1, <1>3, <1>4, <1>5

(* TransmitComplete keeps the types and CsmaInv, and moves the packet from  *)
(* the transmitter to the line.                                             *)
LEMMA TransmitCompleteInv ==
  ASSUME TypeOK, CsmaInv, TransmitComplete
  PROVE  TypeOK' /\ CsmaInv'
<1>1. /\ propagating \in Seq(Packet) /\ m_currentPkt \in Seq(Packet)
      /\ m_currentPkt # <<>> /\ Len(propagating) \in Nat /\ Len(m_currentPkt) \in Nat
  BY DEF TypeOK, CsmaInv, TransmitComplete
<1>2. /\ propagating' \in Seq(Packet)
      /\ Len(propagating') = Len(propagating) + Len(m_currentPkt)
  BY <1>1, ConcatType DEF TransmitComplete
<1>3. Len(propagating') # 0
  BY <1>1, <1>2, LenZero
<1>4. propagating' # <<>>
  BY <1>3, EmptySeq
<1>5. m_currentPkt' \in Seq(Packet) /\ Len(m_currentPkt') <= 1 /\ m_currentPkt' = <<>>
  BY EmptySeq DEF TransmitComplete
<1>6. Len(propagating') <= LineLength /\ Len(propagating') + Len(m_currentPkt') <= LineLength
  <2>1. Len(m_currentPkt') = 0 /\ LineLength \in Nat
    BY <1>5, EmptySeq, CsmaAssumption
  <2> QED BY <1>1, <1>2, <2>1 DEF CsmaInv
<1>7. TypeOK'
  BY <1>2, <1>5, <1>6 DEF TypeOK, TransmitComplete, history
<1>8. CsmaInv'
  BY <1>4, <1>5, <1>6 DEF CsmaInv, TransmitComplete, TypeOK
<1> QED BY <1>7, <1>8

(* TransmitReady with a packet to send takes it from the queue. *)
LEMMA TransmitReadyStep ==
  ASSUME TypeOK, CsmaInv, TransmitReady, m_queue # <<>>
  PROVE  /\ LineFree /\ m_currentPkt = <<>>
         /\ m_txMachineState' = "BUSY" /\ m_state' = "TRANSMITTING"
         /\ m_currentPkt' = <<Head(m_queue)>> /\ m_queue' = Tail(m_queue)
         /\ m_currentPkt' \in Seq(Packet) /\ Len(m_currentPkt') = 1
         /\ m_currentPkt' # <<>>
         /\ m_queue' \in Seq(Packet) /\ Len(m_queue') <= MaxPackets
<1>1. m_txMachineState = "GAP" /\ LineFree /\ TransmitStart(m_queue)
  BY DEF TransmitReady
<1>2. m_queue \in Seq(Packet) /\ Len(m_queue) <= MaxPackets + 1
  <2>1. Len(m_queue) \in Nat /\ MaxPackets \in Nat /\ Len(m_queue) <= MaxPackets
    BY CsmaAssumption DEF TypeOK
  <2> QED BY <2>1 DEF TypeOK
<1>3. m_currentPkt = <<>>
  BY <1>1 DEF CsmaInv
<1> QED BY <1>1, <1>2, <1>3, TransmitStartStep

(* TransmitReady keeps the types and the invariant. *)
LEMMA TransmitReadyInv ==
  ASSUME TypeOK, CsmaInv, TransmitReady PROVE TypeOK' /\ CsmaInv'
<1>1. CASE m_queue = <<>>
  <2>1. /\ m_txMachineState = "GAP" /\ m_txMachineState' = "READY"
        /\ UNCHANGED <<m_currentPkt, m_queue, m_state, propagating, history>>
    BY <1>1 DEF TransmitReady
  <2>2. TypeOK'
    BY <2>1 DEF TypeOK, history
  <2>3. CsmaInv'
    BY <1>1, <2>1 DEF CsmaInv, TypeOK
  <2> QED BY <2>2, <2>3
<1>2. CASE m_queue # <<>>
  <2>1. UNCHANGED <<propagating, sent, delivered, dropped>>
    BY DEF TransmitReady, history
  <2>2. /\ m_txMachineState' = "BUSY" /\ m_state' = "TRANSMITTING"
        /\ m_currentPkt' \in Seq(Packet) /\ Len(m_currentPkt') = 1
        /\ m_currentPkt' # <<>>
        /\ m_queue' \in Seq(Packet) /\ Len(m_queue') <= MaxPackets
        /\ LineFree /\ m_currentPkt = <<>>
    BY <1>2, TransmitReadyStep
  <2>3. TypeOK'
    BY <2>1, <2>2 DEF TypeOK
  <2>4. Len(propagating') + Len(m_currentPkt') <= LineLength
    <3>1. Len(propagating) \in Nat /\ LineLength \in Nat /\ Len(m_currentPkt) = 0
      BY <2>2, EmptySeq, CsmaAssumption DEF TypeOK
    <3>2. Len(propagating) + 1 <= LineLength
      BY <2>2, <3>1 DEF LineFree
    <3> QED BY <2>1, <2>2, <3>2
  <2>5. CsmaInv'
    BY <2>2, <2>4 DEF CsmaInv
  <2> QED BY <2>3, <2>5
<1> QED BY <1>1, <1>2

(* Receive keeps the types and the invariant. *)
LEMMA ReceiveInv ==
  ASSUME TypeOK, CsmaInv, Receive PROVE TypeOK' /\ CsmaInv'
<1>1. /\ propagating \in Seq(Packet) /\ propagating # <<>> /\ delivered \in Seq(Packet)
      /\ Len(propagating) \in Nat /\ Len(propagating) <= LineLength /\ LineLength \in Nat
  BY CsmaAssumption DEF Receive, TypeOK
<1>2. /\ Head(propagating) \in Packet /\ propagating' \in Seq(Packet)
      /\ Len(propagating') = Len(propagating) - 1
  BY <1>1, TailType DEF Receive
<1>3. delivered' \in Seq(Packet) /\ delivered' # <<>>
  BY <1>1, <1>2, AppendType DEF Receive
<1>4. Len(propagating') <= LineLength
  BY <1>1, <1>2
<1>5. TypeOK'
  BY <1>2, <1>3, <1>4 DEF TypeOK, Receive
<1>6. Len(propagating') + Len(m_currentPkt') <= LineLength
  <2>1. Len(m_currentPkt) \in Nat /\ m_currentPkt' = m_currentPkt
    BY DEF TypeOK, Receive
  <2> QED BY <1>1, <1>2, <2>1 DEF CsmaInv
<1>7. CsmaInv'
  BY <1>3, <1>6 DEF CsmaInv, Receive
<1> QED BY <1>5, <1>7

-----------------------------------------------------------------------------

(* Every step keeps the types and the invariant. *)
LEMMA InvStep ==
  ASSUME TypeOK, CsmaInv, [Next]_vars PROVE TypeOK' /\ CsmaInv'
<1>1. CASE Send
  BY <1>1, SendInv
<1>2. CASE TransmitComplete
  BY <1>2, TransmitCompleteInv
<1>3. CASE TransmitReady
  BY <1>3, TransmitReadyInv
<1>4. CASE Receive
  BY <1>4, ReceiveInv
<1>5. CASE UNCHANGED vars
  BY <1>5 DEF vars, TypeOK, CsmaInv
<1> QED BY <1>1, <1>2, <1>3, <1>4, <1>5 DEF Next

(* The inductive invariant: TypeOK and CsmaInv hold in every reachable state. *)
LEMMA InvCorrect == Spec => [](TypeOK /\ CsmaInv)
<1>1. Init => TypeOK /\ CsmaInv
  <2>1. ASSUME Init PROVE TypeOK
    BY <2>1, EmptySeq, CsmaAssumption DEF Init, TypeOK
  <2>2. ASSUME Init PROVE CsmaInv
    <3>1. Len(propagating) = 0 /\ Len(m_currentPkt) = 0 /\ LineLength \in Nat
      BY <2>2, EmptySeq, CsmaAssumption DEF Init
    <3> QED BY <2>2, <3>1 DEF Init, CsmaInv
  <2> QED BY <2>1, <2>2
<1>2. (TypeOK /\ CsmaInv) /\ [Next]_vars => (TypeOK /\ CsmaInv)'
  BY InvStep
<1> QED BY <1>1, <1>2, PTL DEF Spec

(* Every state is well typed; in particular the queue never holds more than *)
(* MaxPackets packets.                                                      *)
THEOREM TypeCorrect == Spec => []TypeOK
BY InvCorrect, PTL

(* No event finds the device in a state its assertions forbid. *)
THEOREM AssertionsCorrect == Spec => []AssertionsHold
<1>1. TypeOK /\ CsmaInv => AssertionsHold
  BY DEF TypeOK, CsmaInv, AssertionsHold
<1> QED BY <1>1, InvCorrect, PTL

(* A READY device has nothing to send: no packet is stranded. *)
THEOREM ReadyMeansEmptyCorrect == Spec => []ReadyMeansEmpty
<1>1. TypeOK /\ CsmaInv => ReadyMeansEmpty
  BY DEF TypeOK, CsmaInv, ReadyMeansEmpty
<1> QED BY <1>1, InvCorrect, PTL

-----------------------------------------------------------------------------
(* The device and its channel implement Link. *)

line == propagating \o m_currentPkt
used == delivered # <<>>
linkState == [line |-> line, queue |-> m_queue, used |-> used]

(* The definition of linkState before and after a step, with the definitions of *)
(* its fields left closed.                                                      *)
LEMMA LinkStateNow == linkState = [line |-> line, queue |-> m_queue, used |-> used]
  BY DEF linkState

(* The same after a step. *)
LEMMA LinkStateNext == linkState' = [line |-> line', queue |-> m_queue', used |-> used']
  BY DEF linkState

(* What the step and the bound mean for the abstract link. *)
LEMMA LineFacts ==
  ASSUME TypeOK
  PROVE  /\ line \in Seq(Packet) /\ Len(line) = Len(propagating) + Len(m_currentPkt)
         /\ line = <<>> <=> propagating = <<>> /\ m_currentPkt = <<>>
<1>1. propagating \in Seq(Packet) /\ m_currentPkt \in Seq(Packet)
  BY DEF TypeOK
<1>2. line \in Seq(Packet) /\ Len(line) = Len(propagating) + Len(m_currentPkt)
  BY <1>1, ConcatType DEF line
<1>3. Len(propagating) \in Nat /\ Len(m_currentPkt) \in Nat
  BY <1>1
<1>4. Len(line) = 0 <=> Len(propagating) = 0 /\ Len(m_currentPkt) = 0
  BY <1>2, <1>3
<1> QED BY <1>1, <1>2, <1>4, LenZero

(* An idle device is an idle link. *)
LEMMA InitImplements == Init => L!Init
<1>1. SUFFICES ASSUME Init PROVE L!Init
  OBVIOUS
<1>2. propagating \o m_currentPkt = <<>> /\ delivered = <<>>
  BY <1>1, EmptySeq, ConcatEmpty DEF Init
<1> QED BY <1>1, <1>2 DEF Init, L!Init, L!IdleLink

(* SendFrom of the device is Send of the link: the two mark in the same      *)
(* way, a READY device puts the packet on the line, and any other one may    *)
(* be found busy by the link too.                                            *)
LEMMA SendImplements ==
  ASSUME TypeOK, CsmaInv, Send PROVE L!Send
<1>1. PICK large \in BOOLEAN, tos \in TosValues :
        LET pkt == [id |-> sent + 1, large |-> large, tos |-> tos]
            m == MarkEcn(pkt) IN
        /\ m \in Packet /\ pkt.id \in Nat
        /\ \/ /\ Len(m_queue) >= MaxPackets
              /\ dropped' = dropped \cup {pkt.id}
              /\ UNCHANGED <<m_txMachineState, m_currentPkt, m_queue, m_state>>
           \/ /\ ~(Len(m_queue) >= MaxPackets)
              /\ m_txMachineState = "READY" /\ LineFree
              /\ m_txMachineState' = "BUSY" /\ m_state' = "TRANSMITTING"
              /\ m_currentPkt' = <<m>> /\ m_queue' = <<>> /\ m_queue = <<>>
              /\ UNCHANGED dropped
           \/ /\ ~(Len(m_queue) >= MaxPackets)
              /\ m_txMachineState # "READY"
              /\ m_queue' = Append(m_queue, m)
              /\ UNCHANGED <<m_txMachineState, m_currentPkt, m_state, dropped>>
  BY SendStep
<1> DEFINE pkt == [id |-> sent + 1, large |-> large, tos |-> tos]
           m == MarkEcn(pkt)
<1>2. sent < MaxSent /\ sent' = sent + 1 /\ UNCHANGED <<propagating, delivered>>
  BY DEF Send
<1>3. L!Marked(linkState, pkt) = m
  BY DEF L!Marked, L!SetEcnCE, MarkEcn, linkState
<1>4. m \in Packet
  BY <1>1
<1>5. /\ linkState.line = line /\ linkState.queue = m_queue
      /\ linkState.used = (delivered # <<>>)
  BY DEF linkState, used
<1>6. L!Full(linkState) <=> Len(m_queue) >= MaxPackets
  BY DEF L!Full, linkState
<1>7. SUFFICES IF L!Full(linkState)
               THEN dropped' = dropped \cup {pkt.id} /\ linkState' = linkState
               ELSE linkState' \in L!SendFrom(linkState, pkt) /\ UNCHANGED dropped
  BY <1>2 DEF L!Send, linkState, line, used
<1> HIDE DEF m
<1>8. CASE Len(m_queue) >= MaxPackets
  BY <1>1, <1>2, <1>6, <1>8 DEF linkState, line, used
<1>9. CASE /\ ~(Len(m_queue) >= MaxPackets)
           /\ m_txMachineState = "READY" /\ LineFree
           /\ m_currentPkt' = <<m>> /\ m_queue' = <<>> /\ m_queue = <<>>
           /\ UNCHANGED dropped
  <2>1. m_currentPkt = <<>> /\ propagating \in Seq(Packet)
    BY <1>9 DEF CsmaInv, TypeOK
  <2>2. line = propagating /\ line' = Append(line, m)
    <3>1. line = propagating
      BY <2>1, ConcatEmpty DEF line
    <3>2. line' = propagating \o <<m>>
      BY <1>2, <1>9 DEF line
    <3> QED BY <1>4, <2>1, <3>1, <3>2, ConcatAppend
  <2>3. Len(line) < LineLength
    BY <1>9, <2>1, LineFacts DEF LineFree
  <2>4. L!MayBeReady(linkState)
    BY <1>5, <1>9, <2>3 DEF L!MayBeReady, L!LineFree
  <2>5. linkState' = [linkState EXCEPT !.line = Append(line, m)]
    <3>1. used' = used
      BY <1>2 DEF used
    <3>2. linkState' = [line |-> Append(line, m), queue |-> m_queue, used |-> used]
      BY <1>9, <2>2, <3>1, LinkStateNext
    <3> QED BY <3>2, LinkStateNow, Z3
  <2>6. linkState' \in L!SendFrom(linkState, pkt)
    BY <1>3, <1>5, <2>4, <2>5 DEF L!SendFrom
  <2> QED BY <1>6, <1>9, <2>6
<1>10. CASE /\ ~(Len(m_queue) >= MaxPackets)
            /\ m_txMachineState # "READY"
            /\ m_queue' = Append(m_queue, m)
            /\ UNCHANGED <<m_txMachineState, m_currentPkt, m_state, dropped>>
  <2>1. line # <<>> \/ delivered # <<>>
    BY <1>10, LineFacts DEF CsmaInv, TypeOK
  <2>2. ~L!MustBeReady(linkState)
    BY <1>5, <2>1 DEF L!MustBeReady
  <2>3. linkState' = [linkState EXCEPT !.queue = Append(m_queue, m)]
    <3>1. used' = used /\ line' = line
      BY <1>2, <1>10 DEF used, line
    <3>2. linkState' = [line |-> line, queue |-> Append(m_queue, m), used |-> used]
      BY <1>10, <3>1, LinkStateNext
    <3> QED BY <3>2, LinkStateNow, Z3
  <2>4. linkState' \in L!SendFrom(linkState, pkt)
    BY <1>3, <1>5, <2>2, <2>3 DEF L!SendFrom
  <2> QED BY <1>6, <1>10, <2>4
<1> QED BY <1>1, <1>8, <1>9, <1>10 DEF m

(* TransmitComplete only moves the packet along the line. *)
LEMMA TransmitCompleteImplements ==
  ASSUME TypeOK, TransmitComplete PROVE UNCHANGED L!linkVars
<1>1. propagating' = line /\ m_currentPkt' = <<>>
  BY DEF TransmitComplete, line
<1>2. line \in Seq(Packet)
  BY LineFacts
<1>3. line' = line
  <2>1. line' = line \o <<>>
    BY <1>1 DEF line
  <2> QED BY <1>2, <2>1, ConcatEmpty
<1> QED BY <1>3 DEF TransmitComplete, history, L!linkVars, line

(* TransmitReady is Transmit of the link, or nothing when the queue is empty. *)
LEMMA TransmitReadyImplements ==
  ASSUME TypeOK, CsmaInv, TransmitReady PROVE L!Transmit \/ UNCHANGED L!linkVars
<1>1. UNCHANGED <<propagating, sent, delivered, dropped>>
  BY DEF TransmitReady, history
<1>2. CASE m_queue = <<>>
  BY <1>1, <1>2 DEF TransmitReady, L!linkVars
<1>3. CASE m_queue # <<>>
  <2>1. /\ LineFree /\ m_currentPkt = <<>>
        /\ m_currentPkt' = <<Head(m_queue)>> /\ m_queue' = Tail(m_queue)
    BY <1>3, TransmitReadyStep
  <2>2. propagating \in Seq(Packet) /\ m_queue \in Seq(Packet) /\ Head(m_queue) \in Packet
    BY <1>3, TailType DEF TypeOK
  <2>3. line = propagating
    BY <2>1, <2>2, ConcatEmpty DEF line
  <2>4. line' = Append(line, Head(m_queue))
    <3>1. line' = propagating \o <<Head(m_queue)>>
      BY <1>1, <2>1 DEF line
    <3> QED BY <2>2, <2>3, <3>1, ConcatAppend
  <2>5. Len(line) < LineLength
    BY <2>1, LineFacts DEF LineFree
  <2>6. /\ linkState.line = line /\ linkState.queue = m_queue
    BY DEF linkState
  <2>7. linkState' = [linkState EXCEPT !.line = Append(line, Head(m_queue)),
                                       !.queue = Tail(m_queue)]
    <3>1. used' = used
      BY <1>1 DEF used
    <3>2. linkState' = [line |-> Append(line, Head(m_queue)), queue |-> Tail(m_queue),
                        used |-> used]
      BY <2>1, <2>4, <3>1, LinkStateNext
    <3> DEFINE l == Append(line, Head(m_queue))
               t == Tail(m_queue)
               r == [linkState EXCEPT !.line = l]
    <3>3. [linkState EXCEPT !.line = l, !.queue = t] = [r EXCEPT !.queue = t]
      BY Zenon
    <3> HIDE DEF l, t
    <3>4. r = [line |-> l, queue |-> m_queue, used |-> used]
      BY LinkStateNow, Z3
    <3> HIDE DEF r
    <3>5. [r EXCEPT !.queue = t] = [line |-> l, queue |-> t, used |-> used]
      BY <3>4, Z3
    <3> QED BY <3>2, <3>3, <3>5 DEF l, t
  <2>8. L!CanTransmit(linkState)
    BY <1>3, <2>5, <2>6 DEF L!CanTransmit, L!LineFree
  <2>9. linkState' = L!TransmitReady(linkState)
    BY <2>6, <2>7 DEF L!TransmitReady
  <2> QED BY <1>1, <2>8, <2>9 DEF L!Transmit, linkState, line, used
<1> QED BY <1>2, <1>3

(* Receive is Receive of the link. *)
LEMMA ReceiveImplements ==
  ASSUME TypeOK, Receive PROVE L!Receive
<1>1. /\ propagating \in Seq(Packet) /\ m_currentPkt \in Seq(Packet) /\ propagating # <<>>
  BY DEF TypeOK, Receive
<1>2. Head(line) = Head(propagating) /\ Tail(line) = Tail(propagating) \o m_currentPkt
  BY <1>1, ConcatHead DEF line
<1>3. line # <<>>
  BY <1>1, LineFacts
<1>4. line' = Tail(line) /\ delivered' = Append(delivered, Head(line))
  BY <1>2 DEF Receive, line
<1>5. delivered' # <<>>
  BY <1>4, AppendType, <1>1, <1>2, TailType DEF TypeOK
<1>6. linkState' = L!Received(linkState)
  <2>1. used' = TRUE
    BY <1>5 DEF used
  <2>2. linkState' = [line |-> Tail(line), queue |-> m_queue, used |-> TRUE]
    BY <1>4, <2>1, LinkStateNext DEF Receive
  <2>3. [linkState EXCEPT !.line = Tail(line), !.used = TRUE]
          = [line |-> Tail(line), queue |-> m_queue, used |-> TRUE]
    <3> DEFINE t == Tail(line)
               v == TRUE
               r == [linkState EXCEPT !.line = t]
    <3>1. [linkState EXCEPT !.line = t, !.used = v] = [r EXCEPT !.used = v]
      BY Zenon
    <3> HIDE DEF t, v
    <3>2. r = [line |-> t, queue |-> m_queue, used |-> used]
      BY LinkStateNow, Z3
    <3> HIDE DEF r
    <3>3. [r EXCEPT !.used = v] = [line |-> t, queue |-> m_queue, used |-> v]
      BY <3>2, Z3
    <3> QED BY <3>1, <3>3 DEF t, v
  <2>4. linkState.line = line
    BY DEF linkState
  <2> QED BY <2>2, <2>3, <2>4 DEF L!Received
<1>7. UNCHANGED <<sent, dropped>>
  BY DEF Receive
<1>8. linkState.line = line
  BY DEF linkState
<1> QED BY <1>3, <1>4, <1>6, <1>7, <1>8 DEF L!Receive, linkState, line, used

(* Every behaviour of the device and its channel is one of the link the      *)
(* switches rely on, up to the fairness of Link, which the run checks.       *)
THEOREM LinkImplemented == Spec => L!Init /\ [][L!Next]_(L!linkVars)
<1>1. TypeOK /\ CsmaInv /\ [Next]_vars => [L!Next]_(L!linkVars)
  <2>1. SUFFICES ASSUME TypeOK, CsmaInv, [Next]_vars
                 PROVE  L!Next \/ UNCHANGED L!linkVars
    OBVIOUS
  <2>2. CASE Send
    BY <2>1, <2>2, SendImplements DEF L!Next
  <2>3. CASE TransmitComplete
    BY <2>1, <2>3, TransmitCompleteImplements
  <2>4. CASE TransmitReady
    BY <2>1, <2>4, TransmitReadyImplements DEF L!Next
  <2>5. CASE Receive
    BY <2>1, <2>5, ReceiveImplements DEF L!Next
  <2>6. CASE UNCHANGED vars
    BY <2>6 DEF vars, L!linkVars
  <2> QED BY <2>1, <2>2, <2>3, <2>4, <2>5, <2>6 DEF Next
<1> QED BY <1>1, InitImplements, InvCorrect, PTL DEF Spec
=============================================================================
